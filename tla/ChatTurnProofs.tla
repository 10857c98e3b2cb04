--------------------------- MODULE ChatTurnProofs ---------------------------
(***************************************************************************)
(* Proofs about the turns of a chat session and its history, for any       *)
(* number of requests.                                                     *)
(***************************************************************************)
EXTENDS ChatTurn, SequenceTheorems, WellFoundedInduction, TLAPS

\* Where a request has a helper, and where it has not yet made the one that may
\* get its name.
Helped == {"found", "ready", "returned", "took"} \cup InTurn
Unmade == {"start", "creating", "seeded"}
\* Where the turn of a request is over.
After == {"returned", "took", "done"}

\* Who holds a turn lock is in a turn, on that helper.
TurnInv == /\ \A h \in Helpers : turn[h] # None =>
                 at[turn[h]] \in InTurn /\ helper[turn[h]] = h
           /\ \A r \in Requests : at[r] \in InTurn => turn[helper[r]] = r

\* A helper others can see has been made.
HelperInv == /\ \A r \in Requests : at[r] \in Helped => helper[r] # None
             /\ \A r, q \in Requests : helper[r] = q \/ current = q => at[q] \notin Unmade

\* Nothing is added to a history while its turn compresses it.
SnapshotInv == \A r \in Requests :
  at[r] = "compressing" => snapshot[r] = Len(messages[helper[r]])

\* How a turn has ended is known when it has, and its answer is saved.
OutcomeInv == \A r \in Requests :
  /\ at[r] \in Unmade => outcome[r] = "none"
  /\ at[r] \in {"generating", "concluding", "returned", "took"} => outcome[r] # "none"
  /\ outcome[r] = "asks" /\ broken[r] => ForceClarify
  /\ at[r] \in After /\ outcome[r] \in {"answer", "asks"} => Contains(saved, Answer(r))

\* A question left on a helper is of a turn that is over, and is saved.
QuestionInv == \A h \in Helpers : clarify[h] # None =>
  /\ at[clarify[h]] \in After /\ outcome[clarify[h]] = "asks"
  /\ Contains(saved, Answer(clarify[h]))

\* So is a question a request has taken; nothing is taken after the reply.
GotInv == \A r \in Requests :
  /\ got[r].clarify # None => Contains(saved, Answer(got[r].clarify))
  /\ got[r].clarify # None => at[r] \in {"took", "done"} /\ helper[r] # None
  /\ got[r].reply \in {"answer", "clarify"} => helper[r] # None
  /\ got[r].reply = "clarify" => got[r].clarify # None
  /\ got[r].reply # "none" => at[r] = "done"

\* What a client has been told was handed over to be saved.
ToldIsSaved == \A r \in Requests :
  /\ got[r].reply = "answer" => Contains(saved, Answer(r))
  /\ got[r].reply = "clarify" => Contains(saved, Answer(got[r].clarify))

IInv == /\ TypeOK
        /\ TurnInv
        /\ HelperInv
        /\ SnapshotInv
        /\ OutcomeInv
        /\ QuestionInv
        /\ GotInv
        /\ NothingCarriedOver
        /\ AskedOnce
        /\ ToldIsSaved

\* The types alone.
Places == {"start", "found", "creating", "seeded", "ready", "returned", "took",
  "done"} \cup InTurn
Replies == {"none", "answer", "clarify", "error", "gone", "history"}
Taken == [clarify : Requests \cup {None}, reply : Replies]
Types ==
  /\ current \in Helpers \cup {None}
  /\ stale \in [Helpers -> BOOLEAN]
  /\ messages \in [Helpers -> Seq(Message)] /\ summary \in [Helpers -> Seq(Message)]
  /\ turn \in [Helpers -> Requests \cup {None}]
  /\ clarify \in [Helpers -> Requests \cup {None}]
  /\ warnings \in [Helpers -> Requests \cup {None}]
  /\ saved \in Seq(Message)
  /\ at \in [Requests -> Places]
  /\ kind \in [Requests -> {"sync", "stream", "history"}]
  /\ helper \in [Requests -> Helpers \cup {None}]
  /\ snapshot \in [Requests -> Nat]
  /\ outcome \in [Requests -> {"none", "answer", "error", "asks", "rejected"}]
  /\ broken \in [Requests -> BOOLEAN]
  /\ got \in [Requests -> Taken]
-----------------------------------------------------------------------------
\* Who holds a lock is in its turn, and who is in its turn holds it.
LEMMA TypesAre ==
  ASSUME Types', TurnInv', HelperInv'
  PROVE  TypeOK'
<1>1. \A r \in Requests : (helper')[r] # None => (helper')[r] \in Helpers
  BY DEF Types
<1>2. \A r \in Requests :
        (at')[r] \in InTurn <=> (helper')[r] # None /\ (turn')[(helper')[r]] = r
  BY <1>1, ChatTurnAssumption DEF TurnInv, HelperInv, Helped, ChatTurnAssumption
<1>. QED
  BY <1>2 DEF Types, TypeOK, Places, Taken, Replies

\* And the other way round.
LEMMA TypesOf == TypeOK => Types
  BY DEF TypeOK, Types, Places, Taken, Replies

\* What the places of the state may hold.
LEMMA Slots ==
  ASSUME TypeOK
  PROVE  /\ None \notin Helpers /\ None \notin Requests /\ Requests \subseteq Helpers
         /\ \A h \in Helpers : /\ turn[h] \in Requests \cup {None}
                               /\ clarify[h] \in Requests \cup {None}
                               /\ warnings[h] \in Requests \cup {None}
                               /\ messages[h] \in Seq(Message)
         /\ \A r \in Requests :
              /\ helper[r] \in Helpers \cup {None}
              /\ outcome[r] \in {"none", "answer", "error", "asks", "rejected"}
              /\ got[r].clarify \in Requests \cup {None}
         /\ current \in Helpers \cup {None}
<1>1. \A r \in Requests : got[r].clarify \in Requests \cup {None}
  <2>1. \A r \in Requests : got[r] \in Taken
    BY TypesOf DEF Types
  <2>. QED
    BY <2>1 DEF Taken
<1>. QED
  BY <1>1, TypesOf, ChatTurnAssumption DEF ChatTurnAssumption, Types, Helpers

LEMMA ContainsAppend ==
  ASSUME NEW s \in Seq(Message), NEW e \in Message
  PROVE  /\ Append(s, e) \in Seq(Message)
         /\ Contains(Append(s, e), e)
         /\ \A m : Contains(s, m) => Contains(Append(s, e), m)
<1>1. /\ Append(s, e) \in Seq(Message) /\ Len(Append(s, e)) = Len(s) + 1 /\ Len(s) \in Nat
      /\ \A i \in 1 .. Len(s) : Append(s, e)[i] = s[i]
      /\ Append(s, e)[Len(s) + 1] = e
  OBVIOUS
<1>. QED
  BY <1>1 DEF Contains

LEMMA Added ==
  ASSUME TypeOK, NEW h \in Helpers, NEW e \in Message, Add(h, e)
  PROVE  /\ messages' \in [Helpers -> Seq(Message)] /\ saved' \in Seq(Message)
         /\ Contains(saved', e) /\ \A m : Contains(saved, m) => Contains(saved', m)
  BY ContainsAppend DEF TypeOK, Add

\* What the handlers write into what they return.
LEMMA GotSet ==
  ASSUME TypeOK, NEW r \in Requests
  PROVE  /\ \A x \in Replies : [got EXCEPT ![r].reply = x] \in [Requests -> Taken]
         /\ \A c \in Requests \cup {None} :
              [got EXCEPT ![r].clarify = c] \in [Requests -> Taken]
         /\ \A c \in Requests \cup {None}, x \in Replies :
              [got EXCEPT ![r] = [clarify |-> c, reply |-> x]] \in [Requests -> Taken]
         /\ \A c : Response(r, c) \in Replies
<1>1. got \in [Requests -> Taken] /\ got[r] \in Taken
  BY TypesOf DEF Types
<1>2. /\ \A x \in Replies : [got[r] EXCEPT !.reply = x] \in Taken
      /\ \A c \in Requests \cup {None} : [got[r] EXCEPT !.clarify = c] \in Taken
      /\ \A c \in Requests \cup {None}, x \in Replies : [clarify |-> c, reply |-> x] \in Taken
  BY <1>1 DEF Taken
<1>3. \A c : Response(r, c) \in Replies
  BY DEF Response, Replies
<1>. QED
  BY <1>1, <1>2, <1>3

LEMMA Cut ==
  ASSUME NEW s \in Seq(Message), NEW keep \in Nat, 0 < keep, keep < Len(s)
  PROVE  /\ SubSeq(s, Len(s) - keep + 1, Len(s)) \in Seq(Message)
         /\ SubSeq(s, 1, Len(s) - keep) \in Seq(Message)
<1>1. /\ Len(s) \in Nat
      /\ \A i \in Len(s) - keep + 1 .. Len(s) : i \in 1 .. Len(s)
      /\ \A i \in 1 .. Len(s) - keep : i \in 1 .. Len(s)
      /\ Len(s) - keep + 1 \in Nat \ {0}
  OBVIOUS
<1>. QED
  BY <1>1, SubSeqProperties
-----------------------------------------------------------------------------
(* What Only chooses, by induction over the length of the sequence: a set of   *)
(* numbers with 0 and the successor of each of its members has all of them.    *)

LEMMA Induction ==
  ASSUME NEW T, 0 \in T, \A n \in Nat : n \in T => n + 1 \in T
  PROVE  Nat \subseteq T
<1>. DEFINE R == OpToRel(<, Nat)
            U == Nat \ T
<1>1. SUFFICES ASSUME U # {} PROVE FALSE
  OBVIOUS
<1>2. PICK x \in U : \A y \in U : <<y, x>> \notin R
  BY <1>1, NatLessThanWellFounded, WFMin
<1>3. \A y \in U : ~(y < x)
  BY <1>2 DEF OpToRel
<1>4. x # 0 /\ x - 1 \in Nat /\ x - 1 < x
  OBVIOUS
<1>5. x - 1 \in T
  BY <1>3, <1>4
<1>. QED
  BY <1>4, <1>5

Choice(S, s, f, n) == IF n = 0 THEN <<>> ELSE IF s[n] \in S THEN Append(f[n - 1], s[n]) ELSE
  f[n - 1]
\* f picks the elements of S out of the first m of s.
Picks(S, s, f, m) == \A n \in 0 .. m : f[n] = Choice(S, s, f, n)

LEMMA PicksExist ==
  ASSUME NEW M, NEW S, NEW s \in Seq(M)
  PROVE  \E f \in [0 .. Len(s) -> Seq(M)] : Picks(S, s, f, Len(s))
<1>. DEFINE T == {m \in Nat : m <= Len(s) => \E f \in [0 .. m -> Seq(M)] : Picks(S, s, f, m)}
<1>1. 0 \in T
  <2>. DEFINE z == [n \in 0 .. 0 |-> <<>>]
  <2>1. z \in [0 .. 0 -> Seq(M)]
    OBVIOUS
  <2>2. Picks(S, s, z, 0)
    BY DEF Picks, Choice
  <2>. HIDE DEF z
  <2>. QED
    BY <2>1, <2>2
<1>2. ASSUME NEW m \in Nat, m \in T PROVE m + 1 \in T
  <2>1. SUFFICES ASSUME m + 1 <= Len(s)
                 PROVE  \E f \in [0 .. m + 1 -> Seq(M)] : Picks(S, s, f, m + 1)
    OBVIOUS
  <2>2. PICK f \in [0 .. m -> Seq(M)] : Picks(S, s, f, m)
    BY <1>2, <2>1
  <2>. DEFINE last == IF s[m + 1] \in S THEN Append(f[m], s[m + 1]) ELSE f[m]
              g == [n \in 0 .. m + 1 |-> IF n = m + 1 THEN last ELSE f[n]]
  <2>3. last \in Seq(M)
    BY <2>1
  <2>4. g \in [0 .. m + 1 -> Seq(M)]
    BY <2>3
  <2>5. ASSUME NEW n \in 0 .. m + 1 PROVE g[n] = Choice(S, s, g, n)
    <3>1. CASE n = m + 1
      <4>1. g[n - 1] = f[m] /\ g[n] = last /\ n # 0
        BY <3>1
      <4>. HIDE DEF g
      <4>. QED
        <5>1. s[n] = s[m + 1]
          BY <3>1
        <5>. QED
          BY <4>1, <5>1 DEF Choice
    <3>2. CASE n # m + 1
      <4>1. n \in 0 .. m /\ f[n] = Choice(S, s, f, n)
        BY <3>2, <2>2 DEF Picks
      <4>2. g[n] = f[n] /\ (n # 0 => g[n - 1] = f[n - 1])
        BY <4>1
      <4>. HIDE DEF g
      <4>. QED
        BY <4>1, <4>2 DEF Choice
    <3>. QED
      BY <3>1, <3>2
  <2>. QED
    BY <2>4, <2>5 DEF Picks
<1>3. Nat \subseteq T
  <2>. HIDE DEF T
  <2>. QED
    BY <1>1, <1>2, Induction
<1>. QED
  BY <1>3

\* f is how Only chooses from s.
Chosen(M, S, s, f) == /\ f \in [0 .. Len(s) -> Seq(M)]
                      /\ Picks(S, s, f, Len(s))
                      /\ Only(s, S) = f[Len(s)]

LEMMA OnlyIs ==
  ASSUME NEW M, NEW S, NEW s \in Seq(M)
  PROVE  \E f : Chosen(M, S, s, f)
<1>1. PICK g \in [0 .. Len(s) -> Seq(M)] : Picks(S, s, g, Len(s))
  BY PicksExist
<1>. DEFINE Is(f) == f = [n \in 0 .. Len(s) |->
       IF n = 0 THEN <<>> ELSE IF s[n] \in S THEN Append(f[n - 1], s[n]) ELSE f[n - 1]]
            h == CHOOSE f : Is(f)
<1>2. Is(g)
  BY <1>1 DEF Picks, Choice
<1>3. Is(h)
  <2>. HIDE DEF Is
  <2>. QED
    BY <1>2
<1>4. Only(s, S) = h[Len(s)]
  BY DEF Only
<1>. DEFINE T == {n \in Nat : n <= Len(s) => h[n] = g[n]}
<1>5. 0 \in T
  <2>. HIDE DEF h
  <2>1. h[0] = <<>> /\ g[0] = <<>>
    BY <1>1, <1>3 DEF Picks, Choice
  <2>. QED
    BY <2>1
<1>6. ASSUME NEW n \in Nat, n \in T PROVE n + 1 \in T
  <2>. HIDE DEF h
  <2>1. SUFFICES ASSUME n + 1 <= Len(s) PROVE h[n + 1] = g[n + 1]
    OBVIOUS
  <2>2. h[n] = g[n]
    BY <1>6, <2>1
  <2>3. h[n + 1] = IF s[n + 1] \in S THEN Append(h[n], s[n + 1]) ELSE h[n]
    <3>1. n + 1 \in 0 .. Len(s) /\ n + 1 # 0 /\ (n + 1) - 1 = n
      BY <2>1
    <3>2. h[n + 1] = IF s[n + 1] \in S THEN Append(h[(n + 1) - 1], s[n + 1]) ELSE
            h[(n + 1) - 1]
      BY <1>3, <3>1
    <3>. QED
      BY <3>1, <3>2
  <2>4. g[n + 1] = IF s[n + 1] \in S THEN Append(g[n], s[n + 1]) ELSE g[n]
    <3>1. n + 1 \in 0 .. Len(s) /\ n + 1 # 0 /\ (n + 1) - 1 = n
      BY <2>1
    <3>2. g[n + 1] = Choice(S, s, g, n + 1)
      BY <1>1, <3>1 DEF Picks
    <3>. QED
      BY <3>1, <3>2 DEF Choice
  <2>. QED
    BY <2>2, <2>3, <2>4
<1>7. Nat \subseteq T
  <2>. HIDE DEF T
  <2>. QED
    BY <1>5, <1>6, Induction
<1>. QED
  <2>. HIDE DEF h, Is
  <2>1. Chosen(M, S, s, g)
    BY <1>1, <1>4, <1>7 DEF Chosen
  <2>. QED
    BY <2>1

\* What Only does with a sequence, one element at a time.
LEMMA OnlyType ==
  ASSUME NEW M, NEW S, NEW s \in Seq(M)
  PROVE  Only(s, S) \in Seq(M)
  BY OnlyIs DEF Chosen

LEMMA OnlyEmpty == ASSUME NEW S PROVE Only(<<>>, S) = <<>>
<1>. DEFINE e == <<>>
<1>1. e \in Seq({}) /\ Len(e) = 0
  OBVIOUS
<1>. HIDE DEF e
<1>2. PICK f : Chosen({}, S, e, f)
  BY <1>1, OnlyIs
<1>3. Only(e, S) = <<>>
  BY <1>1, <1>2 DEF Chosen, Picks, Choice
<1>. QED
  BY <1>3 DEF e

\* Two choices from two sequences that agree so far.
LEMMA PicksSame ==
  ASSUME NEW M, NEW S, NEW s \in Seq(M), NEW R, NEW t \in Seq(M),
         NEW l \in Nat, l <= Len(s), l <= Len(t),
         \A i \in 1 .. l : s[i] = t[i] /\ (s[i] \in S <=> t[i] \in R),
         NEW f, NEW g, Picks(S, s, f, l), Picks(R, t, g, l)
  PROVE  f[l] = g[l]
<1>. DEFINE T == {n \in Nat : n <= l => f[n] = g[n]}
<1>1. 0 \in T
  BY DEF Chosen, Picks, Choice
<1>2. ASSUME NEW n \in Nat, n \in T PROVE n + 1 \in T
  <2>1. SUFFICES ASSUME n + 1 <= l PROVE f[n + 1] = g[n + 1]
    OBVIOUS
  <2>2. f[n] = g[n]
    BY <1>2, <2>1
  <2>3. n + 1 \in 0 .. l /\ n + 1 \in 1 .. l /\ n + 1 # 0 /\ (n + 1) - 1 = n
    BY <2>1
  <2>4. f[n + 1] = Choice(S, s, f, n + 1) /\ g[n + 1] = Choice(R, t, g, n + 1)
    BY <2>3 DEF Chosen, Picks
  <2>. QED
    BY <2>2, <2>3, <2>4 DEF Choice
<1>3. Nat \subseteq T
  <2>. HIDE DEF T
  <2>. QED
    BY <1>1, <1>2, Induction
<1>. QED
  BY <1>3

LEMMA OnlySame ==
  ASSUME NEW M, NEW S, NEW T, NEW s \in Seq(M),
         \A i \in 1 .. Len(s) : s[i] \in S <=> s[i] \in T
  PROVE  Only(s, S) = Only(s, T)
<1>1. PICK f : Chosen(M, S, s, f)
  BY OnlyIs
<1>2. PICK g : Chosen(M, T, s, g)
  BY OnlyIs
<1>. QED
  BY <1>1, <1>2, PicksSame DEF Chosen

LEMMA OnlyLonger ==
  ASSUME NEW M, NEW S, NEW s \in Seq(M), NEW t \in Seq(M), NEW l \in Nat,
         Len(s) = l, Len(t) = l + 1, \A i \in 1 .. l : s[i] = t[i]
  PROVE  Only(t, S) = IF t[l + 1] \in S THEN Append(Only(s, S), t[l + 1]) ELSE Only(s, S)
<1>1. PICK f : Chosen(M, S, s, f)
  BY OnlyIs
<1>2. PICK g : Chosen(M, S, t, g)
  BY OnlyIs
<1>3. Picks(S, s, f, l) /\ Picks(S, t, g, l) /\ l <= Len(s) /\ l <= Len(t)
  BY <1>1, <1>2 DEF Chosen, Picks
<1>4. \A i \in 1 .. l : s[i] = t[i] /\ (s[i] \in S <=> t[i] \in S)
  OBVIOUS
<1>5. f[l] = g[l]
  BY <1>3, <1>4, PicksSame
<1>6. l + 1 \in 0 .. Len(t) /\ l + 1 # 0 /\ (l + 1) - 1 = l
  OBVIOUS
<1>7. g[l + 1] = Choice(S, t, g, l + 1)
  BY <1>2, <1>6 DEF Chosen, Picks
<1>. QED
  BY <1>1, <1>2, <1>5, <1>6, <1>7 DEF Chosen, Choice

LEMMA OnlyAppend ==
  ASSUME NEW M, NEW S, NEW s \in Seq(M), NEW e \in M
  PROVE  Only(Append(s, e), S) = IF e \in S THEN Append(Only(s, S), e) ELSE Only(s, S)
<1>. DEFINE t == Append(s, e)
            l == Len(s)
<1>1. /\ t \in Seq(M) /\ l \in Nat /\ Len(s) = l /\ Len(t) = l + 1
      /\ t[l + 1] = e /\ \A i \in 1 .. l : s[i] = t[i]
  OBVIOUS
<1>. HIDE DEF t, l
<1>2. Only(t, S) = IF t[l + 1] \in S THEN Append(Only(s, S), t[l + 1]) ELSE Only(s, S)
  BY <1>1, OnlyLonger
<1>. QED
  BY <1>1, <1>2 DEF t

\* Nothing is chosen where there is nothing to choose.
LEMMA OnlyNone ==
  ASSUME NEW M, NEW S, NEW s \in Seq(M), \A i \in 1 .. Len(s) : s[i] \notin S
  PROVE  Only(s, S) = <<>>
<1>1. PICK f : Chosen(M, S, s, f)
  BY OnlyIs
<1>. DEFINE T == {n \in Nat : n <= Len(s) => f[n] = <<>>}
<1>2. 0 \in T
  BY <1>1 DEF Chosen, Picks, Choice
<1>3. ASSUME NEW n \in Nat, n \in T PROVE n + 1 \in T
  <2>1. SUFFICES ASSUME n + 1 <= Len(s) PROVE f[n + 1] = <<>>
    OBVIOUS
  <2>2. n + 1 \in 0 .. Len(s) /\ n + 1 \in 1 .. Len(s) /\ n + 1 # 0 /\ (n + 1) - 1 = n
    BY <2>1
  <2>3. f[n + 1] = Choice(S, s, f, n + 1)
    BY <1>1, <2>2 DEF Chosen, Picks
  <2>. QED
    BY <1>3, <2>1, <2>2, <2>3 DEF Choice
<1>4. Nat \subseteq T
  <2>. HIDE DEF T
  <2>. QED
    BY <1>2, <1>3, Induction
<1>. QED
  BY <1>1, <1>4 DEF Chosen

\* What is chosen comes out of the sequence.
LEMMA OnlyFrom ==
  ASSUME NEW M, NEW S, NEW s \in Seq(M)
  PROVE  \A k \in 1 .. Len(Only(s, S)) : \E i \in 1 .. Len(s) : Only(s, S)[k] = s[i] /\
           s[i] \in S
<1>1. PICK f : Chosen(M, S, s, f)
  BY OnlyIs
<1>. DEFINE From(n) == \A k \in 1 .. Len(f[n]) : \E i \in 1 .. Len(s) : f[n][k] = s[i] /\
              s[i] \in S
            T == {n \in Nat : n <= Len(s) => From(n)}
<1>2. 0 \in T
  BY <1>1 DEF Chosen, Picks, Choice
<1>3. ASSUME NEW n \in Nat, n \in T PROVE n + 1 \in T
  <2>1. SUFFICES ASSUME n + 1 <= Len(s) PROVE From(n + 1)
    OBVIOUS
  <2>2. n + 1 \in 0 .. Len(s) /\ n + 1 \in 1 .. Len(s) /\ n + 1 # 0 /\ (n + 1) - 1 = n /\
          n \in 0 .. Len(s)
    BY <2>1
  <2>3. f[n + 1] = Choice(S, s, f, n + 1)
    BY <1>1, <2>2 DEF Chosen, Picks
  <2>4. From(n)
    BY <1>3, <2>1
  <2>5. CASE s[n + 1] \in S
    <3>1. f[n + 1] = Append(f[n], s[n + 1])
      BY <2>2, <2>3, <2>5 DEF Choice
    <3>2. f[n] \in Seq(M) /\ s[n + 1] \in M
      BY <1>1, <2>2 DEF Chosen
    <3>3. /\ Len(f[n + 1]) = Len(f[n]) + 1 /\ Len(f[n]) \in Nat /\
               f[n + 1][Len(f[n]) + 1] = s[n + 1]
          /\ \A k \in 1 .. Len(f[n]) : f[n + 1][k] = f[n][k]
      BY <3>1, <3>2
    <3>4. \A k \in 1 .. Len(f[n + 1]) : k \in 1 .. Len(f[n]) \/ k = Len(f[n]) + 1
      BY <3>3
    <3>5. f[n + 1][Len(f[n]) + 1] = s[n + 1] /\ s[n + 1] \in S /\ n + 1 \in 1 .. Len(s)
      BY <2>2, <2>5, <3>3
    <3>. QED
      <4>1. TAKE k \in 1 .. Len(f[n + 1])
      <4>2. CASE k \in 1 .. Len(f[n])
        BY <2>4, <3>3, <4>2
      <4>3. CASE k = Len(f[n]) + 1
        BY <3>5, <4>3
      <4>. QED
        BY <3>4, <4>2, <4>3
  <2>6. CASE s[n + 1] \notin S
    <3>1. f[n + 1] = f[n]
      BY <2>2, <2>3, <2>6 DEF Choice
    <3>. QED
      BY <2>4, <3>1
  <2>. QED
    BY <2>5, <2>6
<1>4. Nat \subseteq T
  <2>. HIDE DEF T
  <2>. QED
    BY <1>2, <1>3, Induction
<1>. QED
  BY <1>1, <1>4 DEF Chosen

\* Choosing again from what has been chosen.
LEMMA OnlyAgain ==
  ASSUME NEW M, NEW S, NEW R, S \subseteq R, NEW s \in Seq(M)
  PROVE  Only(Only(s, R), S) = Only(s, S)
<1>1. PICK f : Chosen(M, R, s, f)
  BY OnlyIs
<1>2. PICK g : Chosen(M, S, s, g)
  BY OnlyIs
<1>. DEFINE T == {n \in Nat : n <= Len(s) => Only(f[n], S) = g[n]}
<1>3. 0 \in T
  <2>1. f[0] = <<>> /\ g[0] = <<>>
    BY <1>1, <1>2 DEF Chosen, Picks, Choice
  <2>. QED
    BY <2>1, OnlyEmpty
<1>4. ASSUME NEW n \in Nat, n \in T PROVE n + 1 \in T
  <2>1. SUFFICES ASSUME n + 1 <= Len(s) PROVE Only(f[n + 1], S) = g[n + 1]
    OBVIOUS
  <2>2. n + 1 \in 0 .. Len(s) /\ n + 1 \in 1 .. Len(s) /\ n + 1 # 0 /\ (n + 1) - 1 = n /\
          n \in 0 .. Len(s)
    BY <2>1
  <2>3. f[n + 1] = Choice(R, s, f, n + 1) /\ g[n + 1] = Choice(S, s, g, n + 1)
    BY <1>1, <1>2, <2>2 DEF Chosen, Picks
  <2>4. Only(f[n], S) = g[n]
    BY <1>4, <2>1
  <2>5. f[n] \in Seq(M) /\ s[n + 1] \in M
    BY <1>1, <2>2 DEF Chosen
  <2>6. CASE s[n + 1] \in R
    <3>1. f[n + 1] = Append(f[n], s[n + 1])
      BY <2>2, <2>3, <2>6 DEF Choice
    <3>2. Only(f[n + 1], S) = IF s[n + 1] \in S THEN Append(g[n], s[n + 1]) ELSE g[n]
      <4>1. Only(Append(f[n], s[n + 1]), S)
              = IF s[n + 1] \in S THEN Append(Only(f[n], S), s[n + 1]) ELSE Only(f[n], S)
        <5>. DEFINE x == f[n]
                    e == s[n + 1]
        <5>1. x \in Seq(M) /\ e \in M
          BY <2>5
        <5>. HIDE DEF x, e
        <5>2. Only(Append(x, e), S) = IF e \in S THEN Append(Only(x, S), e) ELSE Only(x, S)
          BY <5>1, OnlyAppend
        <5>. QED
          BY <5>2 DEF x, e
      <4>. QED
        BY <2>4, <3>1, <4>1
    <3>. QED
      BY <2>2, <2>3, <3>2 DEF Choice
  <2>7. CASE s[n + 1] \notin R
    <3>1. f[n + 1] = f[n] /\ g[n + 1] = g[n]
      BY <2>2, <2>3, <2>7 DEF Choice
    <3>. QED
      BY <2>4, <3>1
  <2>. QED
    BY <2>6, <2>7
<1>5. Nat \subseteq T
  <2>. HIDE DEF T
  <2>. QED
    BY <1>3, <1>4, Induction
<1>. QED
  BY <1>1, <1>2, <1>5 DEF Chosen

\* All that may be chosen is.
LEMMA OnlyKeeps ==
  ASSUME NEW M, NEW S, NEW s \in Seq(M), NEW e \in S
  PROVE  Contains(Only(s, S), e) <=> Contains(s, e)
<1>1. PICK f : Chosen(M, S, s, f)
  BY OnlyIs
<1>. DEFINE T == {n \in Nat : n <= Len(s) => \A i \in 1 .. n : s[i] \in S => Contains(f[n], s[i])}
<1>2. 0 \in T
  OBVIOUS
<1>3. ASSUME NEW n \in Nat, n \in T PROVE n + 1 \in T
  <2>1. SUFFICES ASSUME n + 1 <= Len(s), NEW i \in 1 .. n + 1, s[i] \in S
                 PROVE  Contains(f[n + 1], s[i])
    OBVIOUS
  <2>2. n + 1 \in 0 .. Len(s) /\ n + 1 \in 1 .. Len(s) /\ n + 1 # 0 /\ (n + 1) - 1 = n /\
          n \in 0 .. Len(s)
    BY <2>1
  <2>3. f[n + 1] = Choice(S, s, f, n + 1)
    BY <1>1, <2>2 DEF Chosen, Picks
  <2>4. f[n] \in Seq(M) /\ s[n + 1] \in M
    BY <1>1, <2>2 DEF Chosen
  <2>5. i \in 1 .. n => Contains(f[n], s[i])
    BY <1>3, <2>1
  <2>6. CASE s[n + 1] \in S
    <3>1. f[n + 1] = Append(f[n], s[n + 1])
      BY <2>2, <2>3, <2>6 DEF Choice
    <3>2. /\ Len(f[n + 1]) = Len(f[n]) + 1 /\ Len(f[n]) \in Nat
          /\ f[n + 1][Len(f[n]) + 1] = s[n + 1]
          /\ \A k \in 1 .. Len(f[n]) : f[n + 1][k] = f[n][k]
      BY <2>4, <3>1
    <3>3. CASE i = n + 1
      BY <3>2, <3>3 DEF Contains
    <3>4. CASE i \in 1 .. n
      <4>1. PICK k \in 1 .. Len(f[n]) : f[n][k] = s[i]
        BY <2>5, <3>4 DEF Contains
      <4>. QED
        BY <3>2, <4>1 DEF Contains
    <3>. QED
      BY <3>3, <3>4
  <2>7. CASE s[n + 1] \notin S
    <3>1. f[n + 1] = f[n]
      BY <2>2, <2>3, <2>7 DEF Choice
    <3>2. i \in 1 .. n
      BY <2>1, <2>7
    <3>. QED
      BY <2>5, <3>1, <3>2
  <2>. QED
    BY <2>6, <2>7
<1>4. Nat \subseteq T
  <2>. HIDE DEF T
  <2>. QED
    BY <1>2, <1>3, Induction
<1>5. \A i \in 1 .. Len(s) : s[i] \in S => Contains(Only(s, S), s[i])
  BY <1>1, <1>4 DEF Chosen
<1>6. \A k \in 1 .. Len(Only(s, S)) : \E i \in 1 .. Len(s) : Only(s, S)[k] = s[i]
  BY OnlyFrom
<1>. QED
  BY <1>5, <1>6 DEF Contains

\* What the table may show is a sequence of messages that were handed over,
\* with all of the older ones, or nothing could be read at all.
LEMMA TablesType ==
  ASSUME TypeOK, NEW table \in Tables \cup {<<>>}
  PROVE  /\ table \in Seq(Message)
         /\ \A k \in 1 .. Len(table) : \E i \in 1 .. Len(saved) : table[k] = saved[i]
         /\ Only(table, SaidBefore) \in {<<>>, Only(saved, SaidBefore)}
<1>1. CASE table = <<>>
  BY <1>1, OnlyEmpty
<1>2. CASE table \in Tables
  <2>1. PICK S \in SUBSET Message : table = Only(saved, SaidBefore \cup S)
    BY <1>2 DEF Tables
  <2>2. saved \in Seq(Message)
    BY DEF TypeOK
  <2>3. table \in Seq(Message)
    BY <2>1, <2>2, OnlyType
  <2>4. Only(table, SaidBefore) = Only(saved, SaidBefore)
    <3>1. SaidBefore \subseteq SaidBefore \cup S
      OBVIOUS
    <3>. QED
      BY <2>1, <2>2, <3>1, OnlyAgain
  <2>5. \A k \in 1 .. Len(table) : \E i \in 1 .. Len(saved) : table[k] = saved[i]
    BY <2>1, <2>2, OnlyFrom
  <2>. QED
    BY <2>3, <2>4, <2>5
<1>. QED
  BY <1>1, <1>2

-----------------------------------------------------------------------------
(* Every step keeps the invariant.                                             *)

LEMMA LookupIInv ==
  ASSUME IInv, NEW r \in Requests, Lookup(r)
  PROVE  IInv'
<1>. USE DEF IInv
<1>1. /\ at[r] = "start"
      /\ \A q \in Requests : (at')[q] =
           IF q = r THEN IF current # None THEN "found" ELSE "creating" ELSE at[q]
      /\ \A q \in Requests : (helper')[q] =
           IF q = r THEN IF current # None THEN current ELSE helper[r] ELSE helper[q]
      /\ UNCHANGED <<current, stale, messages, summary, turn, clarify, warnings,
                     saved, kind, snapshot, outcome, broken, got>>
  BY DEF TypeOK, Lookup, Goto, helperVars, requestVars
<1>2. Types'
  <2>1. at' \in [Requests -> Places]
    BY TypesOf DEF Types, Places, Lookup, Goto
  <2>2. helper' \in [Requests -> Helpers \cup {None}]
    <3>1. helper' = helper \/ (current # None /\ helper' = [helper EXCEPT ![r] = current])
      BY DEF Lookup
    <3>2. current # None => current \in Helpers
      BY Slots
    <3>. QED
      BY <3>1, <3>2, TypesOf DEF Types
  <2>. QED
    BY <1>1, <2>1, <2>2, TypesOf DEF Types
<1>3. TurnInv'
  BY <1>1, Slots DEF TurnInv, InTurn
<1>4. HelperInv'
  BY <1>1 DEF HelperInv, InTurn, Helped, Unmade
<1>5. SnapshotInv'
  BY <1>1 DEF SnapshotInv
<1>6. OutcomeInv'
  BY <1>1 DEF OutcomeInv, Unmade
<1>7. QuestionInv'
  BY <1>1, Slots DEF QuestionInv, After
<1>8. GotInv'
  BY <1>1 DEF GotInv
<1>9. NothingCarriedOver'
  BY <1>1, Slots DEF NothingCarriedOver, QuestionInv, InTurn, After
<1>10. ToldIsSaved'
  BY <1>1 DEF ToldIsSaved
<1>11. AskedOnce'
  BY <1>1, Slots DEF AskedOnce, GotInv, InTurn
<1>. QED
  BY <1>2, <1>3, <1>4, <1>5, <1>6, <1>7, <1>8, <1>9, <1>10, <1>11, TypesAre

LEMMA TouchIInv ==
  ASSUME IInv, NEW r \in Requests, Touch(r)
  PROVE  IInv'
<1>. USE DEF IInv
<1>1. /\ at[r] = "found"
      /\ \A q \in Requests : (at')[q] = IF q = r THEN "ready" ELSE at[q]
      /\ UNCHANGED <<current, messages, summary, turn, clarify, warnings, saved, kind,
                     helper, snapshot, outcome, broken, got>>
  BY DEF TypeOK, Touch, Goto, requestVars
<1>2. Types'
  <2>1. at' \in [Requests -> Places]
    BY TypesOf DEF Types, Places, Touch, Goto
  <2>2. stale' \in [Helpers -> BOOLEAN]
    BY TypesOf DEF Types, Touch
  <2>. QED
    BY <1>1, <2>1, <2>2, TypesOf DEF Types
<1>3. TurnInv'
  BY <1>1, Slots DEF TurnInv, InTurn
<1>4. HelperInv'
  BY <1>1 DEF HelperInv, Helped, Unmade
<1>5. SnapshotInv'
  BY <1>1 DEF SnapshotInv
<1>6. OutcomeInv'
  BY <1>1 DEF OutcomeInv, After, Unmade
<1>7. QuestionInv'
  BY <1>1, Slots DEF QuestionInv, After
<1>8. GotInv'
  BY <1>1 DEF GotInv
<1>9. NothingCarriedOver'
  BY <1>1, Slots DEF NothingCarriedOver, InTurn
<1>10. ToldIsSaved'
  BY <1>1 DEF ToldIsSaved
<1>11. AskedOnce'
  BY <1>1, Slots DEF AskedOnce, GotInv, InTurn
<1>. QED
  BY <1>2, <1>3, <1>4, <1>5, <1>6, <1>7, <1>8, <1>9, <1>10, <1>11, TypesAre

LEMMA ReadHistoryIInv ==
  ASSUME IInv, NEW r \in Requests, NEW table \in Tables, ReadHistory(r, table)
  PROVE  IInv'
<1>. USE DEF IInv
<1>1. /\ at[r] = "start"
      /\ \A q \in Requests : (at')[q] =
           IF q = r THEN IF current = None /\ table = <<>> THEN "creating" ELSE "done" ELSE
             at[q]
      /\ \A q \in Requests : (got')[q].clarify = got[q].clarify
      /\ \A q \in Requests \ {r} : (got')[q] = got[q]
      /\ (at')[r] = "done" \/ (got')[r] = got[r]
      /\ (got')[r].reply \in {got[r].reply, "history"}
      /\ UNCHANGED <<current, messages, summary, turn, clarify, warnings, saved, kind,
                     helper, snapshot, outcome, broken>>
  <2>1. CASE current = None /\ table = <<>>
    BY <2>1 DEF TypeOK, ReadHistory, Goto, requestVars
  <2>2. CASE ~(current = None /\ table = <<>>)
    <3>1. /\ at[r] = "start" /\ at' = [at EXCEPT ![r] = "done"]
          /\ got' = [got EXCEPT ![r].reply = "history"]
          /\ UNCHANGED <<current, messages, summary, turn, clarify, warnings, saved, kind,
                         helper, snapshot, outcome, broken>>
      BY <2>2 DEF ReadHistory, Goto, requestVars
    <3>2. /\ \A q \in Requests : (got')[q].clarify = got[q].clarify
          /\ \A q \in Requests \ {r} : (got')[q] = got[q]
          /\ (got')[r].reply = "history"
      BY <3>1 DEF TypeOK
    <3>. QED
      BY <2>2, <3>1, <3>2 DEF TypeOK
  <2>. QED
    BY <2>1, <2>2
<1>2. Types'
  <2>1. at' \in [Requests -> Places]
    BY TypesOf DEF Types, Places, ReadHistory, Goto
  <2>2. stale' \in [Helpers -> BOOLEAN]
    BY TypesOf DEF Types, ReadHistory
  <2>3. got' \in [Requests -> Taken]
    <3>1. [got EXCEPT ![r].reply = "history"] \in [Requests -> Taken]
      BY GotSet DEF Replies
    <3>2. got' = got \/ got' = [got EXCEPT ![r].reply = "history"]
      BY DEF ReadHistory
    <3>. QED
      BY <3>1, <3>2, TypesOf DEF Types
  <2>. QED
    BY <1>1, <2>1, <2>2, <2>3, TypesOf DEF Types
<1>3. TurnInv'
  BY <1>1, Slots DEF TurnInv, InTurn
<1>4. HelperInv'
  BY <1>1 DEF HelperInv, InTurn, Helped, Unmade
<1>5. SnapshotInv'
  BY <1>1 DEF SnapshotInv
<1>6. OutcomeInv'
  BY <1>1 DEF OutcomeInv, Unmade
<1>7. QuestionInv'
  BY <1>1, Slots DEF QuestionInv, After
<1>8. GotInv'
  BY <1>1 DEF GotInv
<1>9. NothingCarriedOver'
  BY <1>1, Slots DEF NothingCarriedOver, InTurn
<1>10. ToldIsSaved'
  BY <1>1 DEF ToldIsSaved
<1>11. AskedOnce'
  BY <1>1, Slots DEF AskedOnce, GotInv, InTurn
<1>. QED
  BY <1>2, <1>3, <1>4, <1>5, <1>6, <1>7, <1>8, <1>9, <1>10, <1>11, TypesAre

LEMMA SeedIInv ==
  ASSUME IInv, NEW r \in Requests, NEW table \in Tables \cup {<<>>}, Seed(r, table)
  PROVE  IInv'
<1>. USE DEF IInv
<1>1. /\ at[r] = "creating"
      /\ \A q \in Requests : (at')[q] = IF q = r THEN "seeded" ELSE at[q]
      /\ \A h \in Helpers \ {r} : (messages')[h] = messages[h]
      /\ UNCHANGED <<current, stale, summary, turn, clarify, warnings, saved, kind,
                     helper, snapshot, outcome, broken, got>>
  BY DEF TypeOK, Seed, Goto, requestVars
<1>2. Types'
  <2>1. at' \in [Requests -> Places]
    BY TypesOf DEF Types, Places, Seed, Goto
  <2>2. messages' \in [Helpers -> Seq(Message)]
    BY TablesType, TypesOf DEF Types, Seed
  <2>. QED
    BY <1>1, <2>1, <2>2, TypesOf DEF Types
<1>3. TurnInv'
  BY <1>1, Slots DEF TurnInv, InTurn
<1>4. HelperInv'
  BY <1>1 DEF HelperInv, InTurn, Helped, Unmade
<1>5. SnapshotInv'
  BY <1>1, Slots DEF SnapshotInv, HelperInv, InTurn, Helped, Unmade
<1>6. OutcomeInv'
  BY <1>1 DEF OutcomeInv, Unmade
<1>7. QuestionInv'
  BY <1>1, Slots DEF QuestionInv, After
<1>8. GotInv'
  BY <1>1 DEF GotInv
<1>9. NothingCarriedOver'
  BY <1>1, Slots DEF NothingCarriedOver, InTurn
<1>10. ToldIsSaved'
  BY <1>1 DEF ToldIsSaved
<1>11. AskedOnce'
  BY <1>1, Slots DEF AskedOnce, GotInv, InTurn
<1>. QED
  BY <1>2, <1>3, <1>4, <1>5, <1>6, <1>7, <1>8, <1>9, <1>10, <1>11, TypesAre

LEMMA CreateFailsIInv ==
  ASSUME IInv, NEW r \in Requests, CreateFails(r) \/ HistoryFails(r)
  PROVE  IInv'
<1>. USE DEF IInv
<1>1. /\ at[r] \in {"creating", "start"}
      /\ \A q \in Requests : (at')[q] = IF q = r THEN "done" ELSE at[q]
      /\ \A q \in Requests : (got')[q].clarify = got[q].clarify
      /\ \A q \in Requests \ {r} : (got')[q] = got[q]
      /\ (got')[r].reply = "error"
      /\ UNCHANGED <<current, stale, messages, summary, turn, clarify, warnings,
                     saved, kind, helper, snapshot, outcome, broken>>
  <2>1. CASE CreateFails(r)
    BY <2>1 DEF TypeOK, CreateFails, Goto, helperVars, requestVars
  <2>2. CASE HistoryFails(r)
    BY <2>2 DEF TypeOK, HistoryFails, Goto, helperVars, requestVars
  <2>. QED
    BY <2>1, <2>2
<1>2. Types'
  <2>1. at' \in [Requests -> Places]
    BY TypesOf DEF Types, Places, CreateFails, HistoryFails, Goto
  <2>2. got' \in [Requests -> Taken]
    <3>1. got' = [got EXCEPT ![r].reply = "error"]
      BY DEF CreateFails, HistoryFails
    <3>. QED
      BY <3>1, GotSet DEF Replies
  <2>. QED
    BY <1>1, <2>1, <2>2, TypesOf DEF Types
<1>3. TurnInv'
  BY <1>1, Slots DEF TurnInv, InTurn
<1>4. HelperInv'
  BY <1>1 DEF HelperInv, InTurn, Helped, Unmade
<1>5. SnapshotInv'
  BY <1>1 DEF SnapshotInv
<1>6. OutcomeInv'
  BY <1>1 DEF OutcomeInv, Unmade
<1>7. QuestionInv'
  BY <1>1, Slots DEF QuestionInv, After
<1>8. GotInv'
  BY <1>1 DEF GotInv
<1>9. NothingCarriedOver'
  BY <1>1, Slots DEF NothingCarriedOver, InTurn
<1>10. ToldIsSaved'
  BY <1>1 DEF ToldIsSaved
<1>11. AskedOnce'
  BY <1>1, Slots DEF AskedOnce, GotInv, InTurn
<1>. QED
  BY <1>2, <1>3, <1>4, <1>5, <1>6, <1>7, <1>8, <1>9, <1>10, <1>11, TypesAre

LEMMA InsertIInv ==
  ASSUME IInv, NEW r \in Requests, Insert(r)
  PROVE  IInv'
<1>. USE DEF IInv
<1>1. /\ at[r] = "seeded"
      /\ current' = IF current = None THEN r ELSE current
      /\ \A q \in Requests : (at')[q] =
           IF q = r THEN IF kind[r] = "history" THEN "done" ELSE "ready" ELSE at[q]
      /\ \A q \in Requests : (helper')[q] = IF q = r THEN current' ELSE helper[q]
      /\ \A h \in Helpers \ {r} : (messages')[h] = messages[h]
      /\ UNCHANGED <<stale, summary, turn, clarify, warnings, saved, kind, snapshot,
                     outcome, broken, got>>
  BY DEF TypeOK, Insert, Goto, AfterInsert, requestVars
<1>2. Types'
  <2>1. current' \in Helpers \cup {None}
    BY Slots DEF Insert, AfterInsert
  <2>2. at' \in [Requests -> Places]
    BY TypesOf DEF Types, Places, Insert, Goto, AfterInsert
  <2>3. helper' \in [Requests -> Helpers \cup {None}]
    BY Slots, TypesOf DEF Types, Insert, AfterInsert
  <2>4. messages' \in [Helpers -> Seq(Message)]
    BY Slots, TypesOf DEF Types, Insert, AfterInsert
  <2>. QED
    BY <1>1, <2>1, <2>2, <2>3, <2>4, TypesOf DEF Types
<1>3. TurnInv'
  BY <1>1, Slots DEF TurnInv, InTurn
<1>4. HelperInv'
  BY <1>1 DEF HelperInv, Unmade
<1>5. SnapshotInv'
  BY <1>1, Slots DEF SnapshotInv, HelperInv, InTurn, Helped, Unmade
<1>6. OutcomeInv'
  BY <1>1 DEF OutcomeInv, Unmade
<1>7. QuestionInv'
  BY <1>1, Slots DEF QuestionInv, After
<1>8. GotInv'
  BY <1>1 DEF GotInv
<1>9. NothingCarriedOver'
  BY <1>1, Slots DEF NothingCarriedOver, QuestionInv, InTurn, After
<1>10. ToldIsSaved'
  BY <1>1 DEF ToldIsSaved
<1>11. AskedOnce'
  BY <1>1, Slots DEF AskedOnce, GotInv, InTurn
<1>. QED
  BY <1>2, <1>3, <1>4, <1>5, <1>6, <1>7, <1>8, <1>9, <1>10, <1>11, TypesAre

LEMMA LockIInv ==
  ASSUME IInv, NEW r \in Requests, Lock(r)
  PROVE  IInv'
<1>. USE DEF IInv
<1>1. /\ at[r] = "ready" /\ turn[helper[r]] = None
      /\ \A q \in Requests : (at')[q] = IF q = r THEN "asked" ELSE at[q]
      /\ \A h \in Helpers : (turn')[h] = IF h = helper[r] THEN r ELSE turn[h]
      /\ \A h \in Helpers \ {helper[r]} : (messages')[h] = messages[h]
      /\ UNCHANGED <<current, summary, clarify, warnings, kind, helper, snapshot,
                     outcome, broken, got>>
  BY DEF TypeOK, Lock, Add, Goto, requestVars
<1>2. /\ Contains(saved', Question(r))
      /\ \A q \in Requests : Contains(saved, Answer(q)) => Contains(saved', Answer(q))
      /\ messages' \in [Helpers -> Seq(Message)] /\ saved' \in Seq(Message)
  BY Slots, Added DEF HelperInv, Helped, Question, Answer, Message, Turns, Lock
<1>3. Types'
  <2>1. turn' \in [Helpers -> Requests \cup {None}]
    BY TypesOf DEF Types, Lock
  <2>2. stale' \in [Helpers -> BOOLEAN]
    BY TypesOf DEF Types, Lock
  <2>3. at' \in [Requests -> Places]
    BY TypesOf DEF Types, Places, InTurn, Lock, Goto
  <2>. QED
    BY <1>1, <1>2, <2>1, <2>2, <2>3, TypesOf DEF Types
<1>4. TurnInv'
  BY <1>1, Slots DEF TurnInv, HelperInv, InTurn, Helped
<1>5. HelperInv'
  BY <1>1 DEF HelperInv, Helped, Unmade
<1>6. SnapshotInv'
  BY <1>1, Slots DEF SnapshotInv, TurnInv, HelperInv, InTurn, Helped
<1>7. OutcomeInv'
  BY <1>1, <1>2 DEF OutcomeInv, After, Unmade
<1>8. QuestionInv'
  BY <1>1, <1>2, Slots DEF QuestionInv, After
<1>9. GotInv'
  BY SMTT(60), <1>1, <1>2, Slots DEF GotInv
<1>10. NothingCarriedOver'
  BY <1>1, Slots DEF NothingCarriedOver, TurnInv
<1>11. ToldIsSaved'
  BY <1>1, <1>2, Slots DEF ToldIsSaved, GotInv
<1>12. AskedOnce'
  BY <1>1, Slots DEF AskedOnce, GotInv, InTurn
<1>. QED
  BY <1>3, <1>4, <1>5, <1>6, <1>7, <1>8, <1>9, <1>10, <1>11, <1>12, TypesAre

LEMMA SnapshotIInv ==
  ASSUME IInv, NEW r \in Requests, Snapshot(r)
  PROVE  IInv'
<1>. USE DEF IInv
<1>1. /\ at[r] = "asked"
      /\ \A q \in Requests : (at')[q] = IF q = r THEN "compressing" ELSE at[q]
      /\ \A q \in Requests : (snapshot')[q] =
           IF q = r THEN Len(messages[helper[r]]) ELSE snapshot[q]
      /\ UNCHANGED <<current, stale, messages, summary, turn, clarify, warnings,
                     saved, kind, helper, outcome, broken, got>>
  BY DEF TypeOK, Snapshot, Goto, helperVars
<1>2. Types'
  <2>1. at' \in [Requests -> Places]
    BY TypesOf DEF Types, Places, InTurn, Snapshot, Goto
  <2>2. snapshot' \in [Requests -> Nat]
    BY TypesOf DEF Types, Snapshot
  <2>. QED
    BY <1>1, <2>1, <2>2, TypesOf DEF Types
<1>3. TurnInv'
  BY <1>1, Slots DEF TurnInv, InTurn
<1>4. HelperInv'
  BY <1>1 DEF HelperInv, InTurn, Helped, Unmade
<1>5. SnapshotInv'
  BY <1>1 DEF SnapshotInv
<1>6. OutcomeInv'
  BY <1>1 DEF OutcomeInv, After, Unmade
<1>7. QuestionInv'
  BY <1>1, Slots DEF QuestionInv, After
<1>8. GotInv'
  BY <1>1 DEF GotInv
<1>9. NothingCarriedOver'
  BY <1>1, Slots DEF NothingCarriedOver, InTurn
<1>10. ToldIsSaved'
  BY <1>1 DEF ToldIsSaved
<1>11. AskedOnce'
  BY <1>1, Slots DEF AskedOnce, GotInv, InTurn
<1>. QED
  BY <1>2, <1>3, <1>4, <1>5, <1>6, <1>7, <1>8, <1>9, <1>10, <1>11, TypesAre

LEMMA NotCompressedIInv ==
  ASSUME IInv, NEW r \in Requests, NotCompressed(r)
  PROVE  IInv'
<1>. USE DEF IInv
<1>1. /\ at[r] \in {"asked", "compressing"}
      /\ \A q \in Requests : (at')[q] = IF q = r THEN "prepared" ELSE at[q]
      /\ \A q \in Requests : (snapshot')[q] = IF q = r THEN 0 ELSE snapshot[q]
      /\ UNCHANGED <<current, stale, messages, summary, turn, clarify, warnings,
                     saved, kind, helper, outcome, broken, got>>
  BY DEF TypeOK, NotCompressed, Goto, helperVars
<1>2. Types'
  <2>1. at' \in [Requests -> Places]
    BY TypesOf DEF Types, Places, InTurn, NotCompressed, Goto
  <2>2. snapshot' \in [Requests -> Nat]
    BY TypesOf DEF Types, NotCompressed
  <2>. QED
    BY <1>1, <2>1, <2>2, TypesOf DEF Types
<1>3. TurnInv'
  BY <1>1, Slots DEF TurnInv, InTurn
<1>4. HelperInv'
  BY <1>1 DEF HelperInv, InTurn, Helped, Unmade
<1>5. SnapshotInv'
  BY <1>1 DEF SnapshotInv
<1>6. OutcomeInv'
  BY <1>1 DEF OutcomeInv, After, Unmade
<1>7. QuestionInv'
  BY <1>1, Slots DEF QuestionInv, After
<1>8. GotInv'
  BY <1>1 DEF GotInv
<1>9. NothingCarriedOver'
  BY <1>1, Slots DEF NothingCarriedOver, InTurn
<1>10. ToldIsSaved'
  BY <1>1 DEF ToldIsSaved
<1>11. AskedOnce'
  BY <1>1, Slots DEF AskedOnce, GotInv, InTurn
<1>. QED
  BY <1>2, <1>3, <1>4, <1>5, <1>6, <1>7, <1>8, <1>9, <1>10, <1>11, TypesAre

LEMMA CompressIInv ==
  ASSUME IInv, NEW r \in Requests, NEW keep \in KeepAtLeast .. KeepAtMost, Compress(r, keep)
  PROVE  IInv'
<1>. USE DEF IInv
<1>1. /\ at[r] = "compressing"
      /\ \A q \in Requests : (at')[q] = IF q = r THEN "prepared" ELSE at[q]
      /\ \A q \in Requests : (snapshot')[q] = IF q = r THEN 0 ELSE snapshot[q]
      /\ \A h \in Helpers \ {helper[r]} : (messages')[h] = messages[h]
      /\ UNCHANGED <<current, stale, turn, clarify, warnings, saved, kind, helper,
                     outcome, broken, got>>
  BY DEF TypeOK, Compress, Goto
<1>2. Types'
  <2>0. /\ helper[r] \in Helpers
        /\ SubSeq(messages[helper[r]], snapshot[r] - keep + 1, snapshot[r]) \in Seq(Message)
        /\ SubSeq(messages[helper[r]], 1, snapshot[r] - keep) \in Seq(Message)
    <3>1. helper[r] \in Helpers /\ messages[helper[r]] \in Seq(Message)
      BY <1>1, Slots DEF HelperInv, Helped, InTurn
    <3>2. snapshot[r] = Len(messages[helper[r]])
      BY <1>1 DEF SnapshotInv
    <3>3. keep \in Nat /\ 0 < keep /\ keep < snapshot[r]
      BY ChatTurnAssumption DEF ChatTurnAssumption, Compress
    <3>4. keep < Len(messages[helper[r]])
      BY <3>2, <3>3
    <3>. QED
      BY <3>1, <3>2, <3>3, <3>4, Cut
  <2>1. at' \in [Requests -> Places]
    BY TypesOf DEF Types, Places, InTurn, Compress, Goto
  <2>2. snapshot' \in [Requests -> Nat]
    BY TypesOf DEF Types, Compress
  <2>3. messages' \in [Helpers -> Seq(Message)]
    BY <1>1, <2>0, TypesOf DEF Types, Compress
  <2>4. summary' \in [Helpers -> Seq(Message)]
    <3>1. summary[helper[r]] \o SubSeq(messages[helper[r]], 1,
            snapshot[r] - keep) \in Seq(Message)
      BY <2>0, TypesOf DEF Types
    <3>2. summary' = [summary EXCEPT ![helper[r]] =
                       @ \o SubSeq(messages[helper[r]], 1, snapshot[r] - keep)]
      BY DEF Compress
    <3>. QED
      BY <3>1, <3>2, TypesOf DEF Types
  <2>. QED
    BY <1>1, <2>1, <2>2, <2>3, <2>4, TypesOf DEF Types
<1>3. TurnInv'
  BY <1>1, Slots DEF TurnInv, InTurn, Helped
<1>4. HelperInv'
  BY <1>1 DEF HelperInv, InTurn, Helped, Unmade
<1>5. SnapshotInv'
  BY <1>1, Slots DEF SnapshotInv, TurnInv, HelperInv, InTurn, Helped
<1>6. OutcomeInv'
  BY <1>1 DEF OutcomeInv, After, Unmade
<1>7. QuestionInv'
  BY <1>1, Slots DEF QuestionInv, After
<1>8. GotInv'
  BY <1>1 DEF GotInv
<1>9. NothingCarriedOver'
  BY <1>1, Slots DEF NothingCarriedOver, InTurn
<1>10. ToldIsSaved'
  BY <1>1 DEF ToldIsSaved
<1>11. AskedOnce'
  BY <1>1, Slots DEF AskedOnce, GotInv, InTurn
<1>. QED
  BY <1>2, <1>3, <1>4, <1>5, <1>6, <1>7, <1>8, <1>9, <1>10, <1>11, TypesAre

LEMMA RejectIInv ==
  ASSUME IInv, NEW r \in Requests, Reject(r)
  PROVE  IInv'
<1>. USE DEF IInv
<1>1. /\ at[r] = "prepared"
      /\ \A q \in Requests : (at')[q] = IF q = r THEN "returned" ELSE at[q]
      /\ \A h \in Helpers : (turn')[h] = IF h = helper[r] THEN None ELSE turn[h]
      /\ \A q \in Requests : (outcome')[q] = IF q = r THEN "rejected" ELSE outcome[q]
      /\ UNCHANGED <<current, stale, messages, summary, clarify, warnings, saved,
                     kind, helper, snapshot, broken, got>>
  BY DEF TypeOK, Reject, Unlock, Goto
<1>2. Types'
  <2>1. at' \in [Requests -> Places]
    BY TypesOf DEF Types, Places, Reject, Unlock, Goto
  <2>2. turn' \in [Helpers -> Requests \cup {None}]
    BY TypesOf DEF Types, Reject, Unlock
  <2>3. outcome' \in [Requests -> {"none", "answer", "error", "asks", "rejected"}]
    BY TypesOf DEF Types, Reject
  <2>. QED
    BY <1>1, <2>1, <2>2, <2>3, TypesOf DEF Types
<1>3. TurnInv'
  BY <1>1, Slots DEF TurnInv, HelperInv, InTurn, Helped
<1>4. HelperInv'
  BY <1>1 DEF HelperInv, InTurn, Helped, Unmade
<1>5. SnapshotInv'
  BY <1>1 DEF SnapshotInv
<1>6. OutcomeInv'
  BY <1>1 DEF OutcomeInv, Unmade
<1>7. QuestionInv'
  BY <1>1, Slots DEF QuestionInv, After
<1>8. GotInv'
  BY <1>1 DEF GotInv
<1>9. NothingCarriedOver'
  BY <1>1, Slots DEF NothingCarriedOver
<1>10. ToldIsSaved'
  BY <1>1 DEF ToldIsSaved
<1>11. AskedOnce'
  BY <1>1, Slots DEF AskedOnce, GotInv, InTurn
<1>. QED
  BY <1>2, <1>3, <1>4, <1>5, <1>6, <1>7, <1>8, <1>9, <1>10, <1>11, TypesAre

LEMMA StreamCachedIInv ==
  ASSUME IInv, NEW r \in Requests, NEW fails \in BOOLEAN, StreamCached(r, fails)
  PROVE  IInv'
<1>. USE DEF IInv
<1>1. /\ at[r] = "prepared"
      /\ \A q \in Requests : (at')[q] = IF q = r THEN "returned" ELSE at[q]
      /\ \A h \in Helpers : (turn')[h] = IF h = helper[r] THEN None ELSE turn[h]
      /\ \A q \in Requests : (outcome')[q] = IF q = r THEN "answer" ELSE outcome[q]
      /\ \A q \in Requests \ {r} : (broken')[q] = broken[q]
      /\ \A h \in Helpers \ {helper[r]} : (messages')[h] = messages[h]
      /\ UNCHANGED <<current, stale, summary, clarify, warnings, kind, helper,
                     snapshot, got>>
  BY DEF TypeOK, StreamCached, Add, Unlock, Goto
<1>2. /\ Contains(saved', Answer(r))
      /\ \A q \in Requests : Contains(saved, Answer(q)) => Contains(saved', Answer(q))
      /\ messages' \in [Helpers -> Seq(Message)] /\ saved' \in Seq(Message)
  BY Slots, Added DEF HelperInv, Helped, InTurn, Question, Answer, Message, Turns, StreamCached
<1>3. Types'
  <2>1. at' \in [Requests -> Places]
    BY TypesOf DEF Types, Places, StreamCached, Unlock, Goto
  <2>2. turn' \in [Helpers -> Requests \cup {None}]
    BY TypesOf DEF Types, StreamCached, Unlock
  <2>3. outcome' \in [Requests -> {"none", "answer", "error", "asks", "rejected"}]
    BY TypesOf DEF Types, StreamCached
  <2>4. broken' \in [Requests -> BOOLEAN]
    BY TypesOf DEF Types, StreamCached
  <2>. QED
    BY <1>1, <1>2, <2>1, <2>2, <2>3, <2>4, TypesOf DEF Types
<1>4. TurnInv'
  BY <1>1, Slots DEF TurnInv, HelperInv, InTurn, Helped
<1>5. HelperInv'
  BY <1>1 DEF HelperInv, InTurn, Helped, Unmade
<1>6. SnapshotInv'
  BY <1>1, Slots DEF SnapshotInv, TurnInv, HelperInv, InTurn, Helped
<1>7. OutcomeInv'
  BY <1>1, <1>2 DEF OutcomeInv, Unmade
<1>8. QuestionInv'
  <2>. SUFFICES ASSUME NEW h \in Helpers, (clarify')[h] # None
                PROVE  /\ (at')[(clarify')[h]] \in After /\ (outcome')[(clarify')[h]] = "asks"
                       /\ Contains(saved', Answer((clarify')[h]))
    BY DEF QuestionInv
  <2>1. clarify[h] # r /\ clarify[h] \in Requests /\ clarify[h] # None
    BY <1>1, Slots DEF QuestionInv, After
  <2>. QED
    BY <1>1, <1>2, <2>1 DEF QuestionInv
<1>9. GotInv'
  BY SMTT(60), <1>1, <1>2, Slots DEF GotInv
<1>10. NothingCarriedOver'
  BY <1>1, Slots DEF NothingCarriedOver
<1>11. ToldIsSaved'
  BY <1>1, <1>2, Slots DEF ToldIsSaved, GotInv
<1>12. AskedOnce'
  BY <1>1, Slots DEF AskedOnce, GotInv, InTurn
<1>. QED
  BY <1>3, <1>4, <1>5, <1>6, <1>7, <1>8, <1>9, <1>10, <1>11, <1>12, TypesAre

LEMMA GenerateIInv ==
  ASSUME IInv, NEW r \in Requests, NEW how \in {"answer", "error", "asks"}, NEW fails \in
           BOOLEAN, Generate(r, how, fails)
  PROVE  IInv'
<1>. USE DEF IInv
<1>1. /\ at[r] = "prepared"
      /\ \A q \in Requests : (at')[q] = IF q = r THEN "generating" ELSE at[q]
      /\ \A q \in Requests : (outcome')[q] = IF q = r THEN how ELSE outcome[q]
      /\ \A q \in Requests \ {r} : (broken')[q] = broken[q]
      /\ how = "asks" => (broken')[r] = FALSE
      /\ UNCHANGED <<current, stale, messages, summary, turn, clarify, warnings,
                     saved, kind, helper, snapshot, got>>
  BY DEF TypeOK, Generate, Goto, helperVars
<1>2. Types'
  <2>1. at' \in [Requests -> Places]
    BY TypesOf DEF Types, Places, InTurn, Generate, Goto
  <2>2. outcome' \in [Requests -> {"none", "answer", "error", "asks", "rejected"}]
    BY TypesOf DEF Types, Generate
  <2>3. broken' \in [Requests -> BOOLEAN]
    BY TypesOf DEF Types, Generate
  <2>. QED
    BY <1>1, <2>1, <2>2, <2>3, TypesOf DEF Types
<1>3. TurnInv'
  BY <1>1, Slots DEF TurnInv, InTurn
<1>4. HelperInv'
  BY <1>1 DEF HelperInv, InTurn, Helped, Unmade
<1>5. SnapshotInv'
  BY <1>1 DEF SnapshotInv
<1>6. OutcomeInv'
  BY <1>1 DEF OutcomeInv, After, Unmade
<1>7. QuestionInv'
  BY <1>1, Slots DEF QuestionInv, After
<1>8. GotInv'
  BY <1>1 DEF GotInv
<1>9. NothingCarriedOver'
  BY SMTT(60), <1>1, Slots DEF NothingCarriedOver, QuestionInv, InTurn, After
<1>10. ToldIsSaved'
  BY <1>1 DEF ToldIsSaved
<1>11. AskedOnce'
  BY <1>1, Slots DEF AskedOnce, GotInv, InTurn
<1>. QED
  BY <1>2, <1>3, <1>4, <1>5, <1>6, <1>7, <1>8, <1>9, <1>10, <1>11, TypesAre

LEMMA SetWarningsIInv ==
  ASSUME IInv, NEW r \in Requests, NEW some \in BOOLEAN, SetWarnings(r, some)
  PROVE  IInv'
<1>. USE DEF IInv
<1>1. /\ at[r] = "generating"
      /\ \A q \in Requests : (at')[q] = IF q = r THEN "concluding" ELSE at[q]
      /\ \A h \in Helpers : (warnings')[h] # warnings[h] => h = helper[r] /\ (warnings')[h] = r
      /\ UNCHANGED <<current, stale, messages, summary, turn, clarify, saved, kind,
                     helper, snapshot, outcome, broken, got>>
  BY DEF TypeOK, SetWarnings, Goto, requestVars
<1>2. Types'
  <2>1. at' \in [Requests -> Places]
    BY TypesOf DEF Types, Places, InTurn, SetWarnings, Goto
  <2>2. warnings' \in [Helpers -> Requests \cup {None}]
    BY TypesOf DEF Types, SetWarnings
  <2>. QED
    BY <1>1, <2>1, <2>2, TypesOf DEF Types
<1>3. TurnInv'
  BY <1>1, Slots DEF TurnInv, InTurn
<1>4. HelperInv'
  BY <1>1 DEF HelperInv, InTurn, Helped, Unmade
<1>5. SnapshotInv'
  BY <1>1 DEF SnapshotInv
<1>6. OutcomeInv'
  BY <1>1 DEF OutcomeInv, After, Unmade
<1>7. QuestionInv'
  BY <1>1, Slots DEF QuestionInv, After
<1>8. GotInv'
  BY <1>1 DEF GotInv
<1>9. NothingCarriedOver'
  BY <1>1, Slots DEF NothingCarriedOver, InTurn
<1>10. ToldIsSaved'
  BY <1>1 DEF ToldIsSaved
<1>11. AskedOnce'
  BY <1>1, Slots DEF AskedOnce, GotInv, InTurn
<1>. QED
  BY <1>2, <1>3, <1>4, <1>5, <1>6, <1>7, <1>8, <1>9, <1>10, <1>11, TypesAre

LEMMA ClarifyIInv ==
  ASSUME IInv, NEW r \in Requests, Clarify(r)
  PROVE  IInv'
<1>. USE DEF IInv
<1>1. /\ at[r] = "concluding" /\ (outcome[r] = "asks" \/ ForceClarify)
      /\ \A q \in Requests : (at')[q] = IF q = r THEN "returned" ELSE at[q]
      /\ \A h \in Helpers : (turn')[h] = IF h = helper[r] THEN None ELSE turn[h]
      /\ \A h \in Helpers : (clarify')[h] = IF h = helper[r] THEN r ELSE clarify[h]
      /\ \A q \in Requests : (outcome')[q] = IF q = r THEN "asks" ELSE outcome[q]
      /\ \A h \in Helpers \ {helper[r]} : (messages')[h] = messages[h]
      /\ UNCHANGED <<current, stale, summary, warnings, kind, helper, snapshot,
                     broken, got>>
  BY DEF TypeOK, Clarify, Asks, Add, Unlock, Goto
<1>2. /\ Contains(saved', Answer(r))
      /\ \A q \in Requests : Contains(saved, Answer(q)) => Contains(saved', Answer(q))
      /\ messages' \in [Helpers -> Seq(Message)] /\ saved' \in Seq(Message)
  BY Slots, Added DEF HelperInv, Helped, InTurn, Question, Answer, Message, Turns, Clarify
<1>3. Types'
  <2>1. at' \in [Requests -> Places]
    BY TypesOf DEF Types, Places, Clarify, Asks, Unlock, Goto
  <2>2. turn' \in [Helpers -> Requests \cup {None}]
    BY TypesOf DEF Types, Clarify, Asks, Unlock
  <2>3. clarify' \in [Helpers -> Requests \cup {None}]
    BY TypesOf DEF Types, Clarify, Asks
  <2>4. outcome' \in [Requests -> {"none", "answer", "error", "asks", "rejected"}]
    BY TypesOf DEF Types, Clarify, Asks
  <2>. QED
    BY <1>1, <1>2, <2>1, <2>2, <2>3, <2>4, TypesOf DEF Types
<1>4. TurnInv'
  BY <1>1, Slots DEF TurnInv, HelperInv, InTurn, Helped
<1>5. HelperInv'
  BY <1>1 DEF HelperInv, InTurn, Helped, Unmade
<1>6. SnapshotInv'
  BY <1>1, Slots DEF SnapshotInv, TurnInv, HelperInv, InTurn, Helped
<1>7. OutcomeInv'
  BY <1>1, <1>2 DEF OutcomeInv, Unmade
<1>8. QuestionInv'
  <2>. SUFFICES ASSUME NEW h \in Helpers, (clarify')[h] # None
                PROVE  /\ (at')[(clarify')[h]] \in After /\ (outcome')[(clarify')[h]] = "asks"
                       /\ Contains(saved', Answer((clarify')[h]))
    BY DEF QuestionInv
  <2>1. CASE h = helper[r]
    BY <1>1, <1>2, <2>1 DEF After
  <2>2. CASE h # helper[r]
    <3>1. clarify[h] # r /\ clarify[h] \in Requests /\ clarify[h] # None
      BY <1>1, <2>2, Slots DEF QuestionInv, After
    <3>. QED
      BY <1>1, <1>2, <2>2, <3>1 DEF QuestionInv
  <2>. QED
    BY <2>1, <2>2
<1>9. GotInv'
  BY SMTT(60), <1>1, <1>2, Slots DEF GotInv, InTurn
<1>10. NothingCarriedOver'
  BY <1>1, Slots DEF NothingCarriedOver
<1>11. ToldIsSaved'
  BY <1>1, <1>2, Slots DEF ToldIsSaved, GotInv
<1>12. AskedOnce'
  BY <1>1, Slots DEF AskedOnce, GotInv, InTurn
<1>. QED
  BY <1>3, <1>4, <1>5, <1>6, <1>7, <1>8, <1>9, <1>10, <1>11, <1>12, TypesAre

LEMMA FailIInv ==
  ASSUME IInv, NEW r \in Requests, Fail(r)
  PROVE  IInv'
<1>. USE DEF IInv
<1>1. /\ at[r] = "concluding" /\ outcome[r] = "error"
      /\ \A q \in Requests : (at')[q] = IF q = r THEN "returned" ELSE at[q]
      /\ \A h \in Helpers : (turn')[h] = IF h = helper[r] THEN None ELSE turn[h]
      /\ UNCHANGED <<current, stale, messages, summary, clarify, warnings, saved,
                     kind, helper, snapshot, outcome, broken, got>>
  BY DEF TypeOK, Fail, Unlock, Goto, requestVars
<1>2. Types'
  <2>1. at' \in [Requests -> Places]
    BY TypesOf DEF Types, Places, Fail, Unlock, Goto
  <2>2. turn' \in [Helpers -> Requests \cup {None}]
    BY TypesOf DEF Types, Fail, Unlock
  <2>. QED
    BY <1>1, <2>1, <2>2, TypesOf DEF Types
<1>3. TurnInv'
  BY SMTT(60), <1>1, Slots DEF TurnInv, HelperInv, InTurn, Helped
<1>4. HelperInv'
  BY <1>1 DEF HelperInv, InTurn, Helped, Unmade
<1>5. SnapshotInv'
  BY <1>1 DEF SnapshotInv
<1>6. OutcomeInv'
  BY <1>1 DEF OutcomeInv, Unmade
<1>7. QuestionInv'
  BY <1>1, Slots DEF QuestionInv
<1>8. GotInv'
  BY <1>1 DEF GotInv
<1>9. NothingCarriedOver'
  BY <1>1, Slots DEF NothingCarriedOver
<1>10. ToldIsSaved'
  BY <1>1 DEF ToldIsSaved
<1>11. AskedOnce'
  BY <1>1, Slots DEF AskedOnce, GotInv, InTurn
<1>. QED
  BY <1>2, <1>3, <1>4, <1>5, <1>6, <1>7, <1>8, <1>9, <1>10, <1>11, TypesAre

LEMMA ReplyIInv ==
  ASSUME IInv, NEW r \in Requests, Reply(r)
  PROVE  IInv'
<1>. USE DEF IInv
<1>1. /\ at[r] = "concluding" /\ outcome[r] = "answer"
      /\ \A q \in Requests : (at')[q] = IF q = r THEN "returned" ELSE at[q]
      /\ \A h \in Helpers : (turn')[h] = IF h = helper[r] THEN None ELSE turn[h]
      /\ \A h \in Helpers \ {helper[r]} : (messages')[h] = messages[h]
      /\ UNCHANGED <<current, stale, summary, clarify, warnings, kind, helper,
                     snapshot, outcome, broken, got>>
  BY DEF TypeOK, Reply, Add, Unlock, Goto, requestVars
<1>2. /\ Contains(saved', Answer(r))
      /\ \A q \in Requests : Contains(saved, Answer(q)) => Contains(saved', Answer(q))
      /\ messages' \in [Helpers -> Seq(Message)] /\ saved' \in Seq(Message)
  BY Slots, Added DEF HelperInv, Helped, InTurn, Question, Answer, Message, Turns, Reply
<1>3. Types'
  <2>1. at' \in [Requests -> Places]
    BY TypesOf DEF Types, Places, Reply, Unlock, Goto
  <2>2. turn' \in [Helpers -> Requests \cup {None}]
    BY TypesOf DEF Types, Reply, Unlock
  <2>. QED
    BY <1>1, <1>2, <2>1, <2>2, TypesOf DEF Types
<1>4. TurnInv'
  BY <1>1, Slots DEF TurnInv, HelperInv, InTurn, Helped
<1>5. HelperInv'
  BY <1>1 DEF HelperInv, InTurn, Helped, Unmade
<1>6. SnapshotInv'
  BY <1>1, Slots DEF SnapshotInv, TurnInv, HelperInv, InTurn, Helped
<1>7. OutcomeInv'
  BY <1>1, <1>2 DEF OutcomeInv, Unmade
<1>8. QuestionInv'
  BY <1>1, <1>2, Slots DEF QuestionInv
<1>9. GotInv'
  BY <1>1, <1>2, Slots DEF GotInv, InTurn
<1>10. NothingCarriedOver'
  BY <1>1, Slots DEF NothingCarriedOver
<1>11. ToldIsSaved'
  BY <1>1, <1>2, Slots DEF ToldIsSaved, GotInv
<1>12. AskedOnce'
  BY <1>1, Slots DEF AskedOnce, GotInv, InTurn
<1>. QED
  BY <1>3, <1>4, <1>5, <1>6, <1>7, <1>8, <1>9, <1>10, <1>11, <1>12, TypesAre

LEMMA TakeClarifyIInv ==
  ASSUME IInv, NEW r \in Requests, TakeClarify(r)
  PROVE  IInv'
<1>. USE DEF IInv
<1>1. /\ at[r] = "returned" /\ kind[r] = "sync"
      /\ \A q \in Requests : (at')[q] = IF q = r THEN "took" ELSE at[q]
      /\ \A h \in Helpers : (clarify')[h] = IF h = helper[r] THEN None ELSE clarify[h]
      /\ \A q \in Requests \ {r} : (got')[q] = got[q]
      /\ (got')[r].clarify = clarify[helper[r]] /\ (got')[r].reply = got[r].reply
      /\ UNCHANGED <<current, stale, messages, summary, turn, warnings, saved, kind,
                     helper, snapshot, outcome, broken>>
  BY DEF TypeOK, TakeClarify, Goto, requestVars
<1>2. Types'
  <2>1. at' \in [Requests -> Places]
    BY TypesOf DEF Types, Places, TakeClarify, Goto
  <2>2. clarify' \in [Helpers -> Requests \cup {None}]
    BY TypesOf DEF Types, TakeClarify
  <2>3. got' \in [Requests -> Taken]
    <3>1. got' = [got EXCEPT ![r].clarify = clarify[helper[r]]]
      BY DEF TakeClarify
    <3>2. clarify[helper[r]] \in Requests \cup {None}
      BY <1>1, Slots DEF HelperInv, Helped
    <3>. QED
      BY <3>1, <3>2, GotSet
  <2>. QED
    BY <1>1, <2>1, <2>2, <2>3, TypesOf DEF Types
<1>3. TurnInv'
  BY <1>1, Slots DEF TurnInv, InTurn
<1>4. HelperInv'
  BY <1>1 DEF HelperInv, Helped, Unmade
<1>5. SnapshotInv'
  BY <1>1 DEF SnapshotInv
<1>6. OutcomeInv'
  BY <1>1 DEF OutcomeInv, After, Unmade
<1>7. QuestionInv'
  BY <1>1, Slots DEF QuestionInv, After
<1>8. GotInv'
  BY <1>1, Slots DEF GotInv, QuestionInv, HelperInv, Helped
<1>9. NothingCarriedOver'
  BY <1>1, Slots DEF NothingCarriedOver
<1>10. ToldIsSaved'
  BY <1>1 DEF ToldIsSaved, GotInv
<1>11. AskedOnce'
  <2>1. helper[r] \in Helpers
    BY <1>1, Slots DEF HelperInv, Helped
  <2>2. ASSUME NEW s \in Requests, NEW q \in Requests, (got')[s].clarify = q
        PROVE  /\ helper[q] = helper[s] /\ (clarify')[helper[q]] # q
               /\ outcome[q] = "asks" /\ (at')[q] \in After
               /\ \A p \in Requests : (got')[p].clarify = q => p = s
    <3>1. q # None
      BY Slots
    <3>2. CASE s = r
      <4>1. clarify[helper[r]] = q
        BY <1>1, <2>2, <3>2
      <4>2. helper[q] = helper[r] /\ outcome[q] = "asks" /\ at[q] \in After
        BY <2>1, <3>1, <4>1 DEF NothingCarriedOver, QuestionInv
      <4>3. (clarify')[helper[q]] = None
        BY <1>1, <2>1, <4>2
      <4>4. \A p \in Requests : got[p].clarify # q
        BY <3>1, <4>1, <4>2 DEF AskedOnce
      <4>5. (at')[q] \in After
        BY <1>1, <4>2 DEF After
      <4>. QED
        BY <1>1, <3>1, <3>2, <4>2, <4>3, <4>4, <4>5
    <3>3. CASE s # r
      <4>1. got[s].clarify = q
        BY <1>1, <2>2, <3>3
      <4>2. /\ helper[q] = helper[s] /\ clarify[helper[q]] # q
            /\ outcome[q] = "asks" /\ at[q] \in After
            /\ \A p \in Requests : got[p].clarify = q => p = s
        BY <3>1, <4>1 DEF AskedOnce, After
      <4>3. clarify[helper[r]] # q
        BY <2>1, <3>1, <4>2 DEF NothingCarriedOver
      <4>4. helper[q] \in Helpers
        BY <3>1, <4>1, <4>2, Slots DEF GotInv
      <4>5. (clarify')[helper[q]] # q
        BY <1>1, <3>1, <4>2, <4>4
      <4>6. (at')[q] \in After
        BY <1>1, <4>2 DEF After
      <4>. QED
        BY <1>1, <4>2, <4>3, <4>5, <4>6
    <3>. QED
      BY <3>2, <3>3
  <2>3. \A s \in Requests : (got')[s].clarify \in Requests \cup {None}
    <3>1. \A s \in Requests : (got')[s] \in Taken
      BY <1>2 DEF Types
    <3>. QED
      BY <3>1 DEF Taken
  <2>. QED
    BY <1>1, <2>2, <2>3 DEF AskedOnce, After
<1>. QED
  BY <1>2, <1>3, <1>4, <1>5, <1>6, <1>7, <1>8, <1>9, <1>10, <1>11, TypesAre

LEMMA TakeWarningsIInv ==
  ASSUME IInv, NEW r \in Requests, TakeWarnings(r)
  PROVE  IInv'
<1>. USE DEF IInv
<1>1. /\ at[r] = "took" /\ kind[r] = "sync"
      /\ \A q \in Requests : (at')[q] = IF q = r THEN "done" ELSE at[q]
      /\ \A h \in Helpers : (warnings')[h] = IF h = helper[r] THEN None ELSE warnings[h]
      /\ \A q \in Requests \ {r} : (got')[q] = got[q]
      /\ (got')[r].clarify = got[r].clarify /\ (got')[r].reply = Response(r, got[r].clarify)
      /\ UNCHANGED <<current, stale, messages, summary, turn, clarify, saved, kind,
                     helper, snapshot, outcome, broken>>
  BY DEF TypeOK, TakeWarnings, Finish, Goto, requestVars
<1>2. Types'
  <2>1. at' \in [Requests -> Places]
    BY TypesOf DEF Types, Places, TakeWarnings, Goto
  <2>2. warnings' \in [Helpers -> Requests \cup {None}]
    BY TypesOf DEF Types, TakeWarnings
  <2>3. got' \in [Requests -> Taken]
    BY Slots, GotSet DEF TakeWarnings, Finish
  <2>. QED
    BY <1>1, <2>1, <2>2, <2>3, TypesOf DEF Types
<1>3. TurnInv'
  BY <1>1, Slots DEF TurnInv, InTurn
<1>4. HelperInv'
  BY <1>1 DEF HelperInv, Helped, Unmade
<1>5. SnapshotInv'
  BY <1>1 DEF SnapshotInv
<1>6. OutcomeInv'
  BY <1>1 DEF OutcomeInv, After, Unmade
<1>7. QuestionInv'
  BY <1>1, Slots DEF QuestionInv, After
<1>8. GotInv'
  BY <1>1, Slots DEF GotInv, HelperInv, Helped, Response
<1>9. NothingCarriedOver'
  BY <1>1, Slots DEF NothingCarriedOver, HelperInv
<1>10. ToldIsSaved'
  BY <1>1, Slots DEF ToldIsSaved, GotInv, OutcomeInv, After, Response
<1>11. AskedOnce'
  BY <1>1, Slots DEF AskedOnce, GotInv, InTurn
<1>. QED
  BY <1>2, <1>3, <1>4, <1>5, <1>6, <1>7, <1>8, <1>9, <1>10, <1>11, TypesAre

LEMMA StreamTakesWarningsIInv ==
  ASSUME IInv, NEW r \in Requests, StreamTakesWarnings(r)
  PROVE  IInv'
<1>. USE DEF IInv
<1>1. /\ at[r] = "returned" /\ kind[r] = "stream"
      /\ \A q \in Requests : (at')[q] = IF q = r THEN "took" ELSE at[q]
      /\ \A h \in Helpers : (warnings')[h] = IF h = helper[r] THEN None ELSE warnings[h]
      /\ UNCHANGED <<current, stale, messages, summary, turn, clarify, saved, kind,
                     helper, snapshot, outcome, broken, got>>
  BY DEF TypeOK, StreamTakesWarnings, Goto, requestVars
<1>2. Types'
  <2>1. at' \in [Requests -> Places]
    BY TypesOf DEF Types, Places, StreamTakesWarnings, Goto
  <2>2. warnings' \in [Helpers -> Requests \cup {None}]
    BY TypesOf DEF Types, StreamTakesWarnings
  <2>. QED
    BY <1>1, <2>1, <2>2, TypesOf DEF Types
<1>3. TurnInv'
  BY <1>1, Slots DEF TurnInv, InTurn
<1>4. HelperInv'
  BY <1>1 DEF HelperInv, Helped, Unmade
<1>5. SnapshotInv'
  BY <1>1 DEF SnapshotInv
<1>6. OutcomeInv'
  BY <1>1 DEF OutcomeInv, After, Unmade
<1>7. QuestionInv'
  BY <1>1, Slots DEF QuestionInv, After
<1>8. GotInv'
  BY <1>1 DEF GotInv
<1>9. NothingCarriedOver'
  BY SMTT(60), <1>1, Slots DEF NothingCarriedOver
<1>10. ToldIsSaved'
  BY <1>1 DEF ToldIsSaved
<1>11. AskedOnce'
  BY <1>1, Slots DEF AskedOnce, GotInv, InTurn
<1>. QED
  BY <1>2, <1>3, <1>4, <1>5, <1>6, <1>7, <1>8, <1>9, <1>10, <1>11, TypesAre

LEMMA StreamGoneIInv ==
  ASSUME IInv, NEW r \in Requests, StreamGone(r)
  PROVE  IInv'
<1>. USE DEF IInv
<1>1. /\ at[r] = "took" /\ kind[r] = "stream" /\ broken[r]
      /\ \A q \in Requests : (at')[q] = IF q = r THEN "done" ELSE at[q]
      /\ \A q \in Requests \ {r} : (got')[q] = got[q]
      /\ (got')[r].clarify = None /\ (got')[r].reply = "gone"
      /\ UNCHANGED <<current, stale, messages, summary, turn, clarify, warnings,
                     saved, kind, helper, snapshot, outcome, broken>>
  <2>1. Response(r, None) = "gone"
    BY DEF StreamGone, Response
  <2>. QED
    BY <2>1 DEF TypeOK, StreamGone, Finish, Goto, helperVars, requestVars
<1>2. Types'
  <2>1. at' \in [Requests -> Places]
    BY TypesOf DEF Types, Places, StreamGone, Goto
  <2>2. got' \in [Requests -> Taken]
    BY GotSet DEF StreamGone, Finish
  <2>. QED
    BY <1>1, <2>1, <2>2, TypesOf DEF Types
<1>3. TurnInv'
  BY <1>1, Slots DEF TurnInv, InTurn
<1>4. HelperInv'
  BY <1>1 DEF HelperInv, Helped, Unmade
<1>5. SnapshotInv'
  BY <1>1 DEF SnapshotInv
<1>6. OutcomeInv'
  BY <1>1 DEF OutcomeInv, After, Unmade
<1>7. QuestionInv'
  BY <1>1, Slots DEF QuestionInv, After
<1>8. GotInv'
  BY <1>1 DEF GotInv
<1>9. NothingCarriedOver'
  BY <1>1, Slots DEF NothingCarriedOver, QuestionInv, OutcomeInv, InTurn
<1>10. ToldIsSaved'
  BY <1>1 DEF ToldIsSaved
<1>11. AskedOnce'
  BY <1>1, Slots DEF AskedOnce, GotInv, InTurn
<1>. QED
  BY <1>2, <1>3, <1>4, <1>5, <1>6, <1>7, <1>8, <1>9, <1>10, <1>11, TypesAre

LEMMA StreamTakesClarifyIInv ==
  ASSUME IInv, NEW r \in Requests, StreamTakesClarify(r)
  PROVE  IInv'
<1>. USE DEF IInv
<1>1. /\ at[r] = "took" /\ kind[r] = "stream"
      /\ \A q \in Requests : (at')[q] = IF q = r THEN "done" ELSE at[q]
      /\ \A h \in Helpers : (clarify')[h] = IF h = helper[r] THEN None ELSE clarify[h]
      /\ \A q \in Requests \ {r} : (got')[q] = got[q]
      /\ (got')[r].clarify = clarify[helper[r]] /\ (got')[r].reply = Response(r,
           clarify[helper[r]])
      /\ UNCHANGED <<current, stale, messages, summary, turn, warnings, saved, kind,
                     helper, snapshot, outcome, broken>>
  BY DEF TypeOK, StreamTakesClarify, Finish, Goto, requestVars
<1>2. Types'
  <2>1. at' \in [Requests -> Places]
    BY TypesOf DEF Types, Places, StreamTakesClarify, Goto
  <2>2. clarify' \in [Helpers -> Requests \cup {None}]
    BY TypesOf DEF Types, StreamTakesClarify
  <2>3. got' \in [Requests -> Taken]
    <3>1. got' = [got EXCEPT ![r] = [clarify |-> clarify[helper[r]],
                                     reply |-> Response(r, clarify[helper[r]])]]
      BY DEF StreamTakesClarify, Finish
    <3>2. clarify[helper[r]] \in Requests \cup {None}
      BY <1>1, Slots DEF HelperInv, Helped
    <3>3. Response(r, clarify[helper[r]]) \in Replies
      BY GotSet
    <3>. QED
      BY <3>1, <3>2, <3>3, GotSet
  <2>. QED
    BY <1>1, <2>1, <2>2, <2>3, TypesOf DEF Types
<1>3. TurnInv'
  BY <1>1, Slots DEF TurnInv, InTurn
<1>4. HelperInv'
  BY <1>1 DEF HelperInv, Helped, Unmade
<1>5. SnapshotInv'
  BY <1>1 DEF SnapshotInv
<1>6. OutcomeInv'
  BY <1>1 DEF OutcomeInv, After, Unmade
<1>7. QuestionInv'
  BY <1>1, Slots DEF QuestionInv, After
<1>8. GotInv'
  BY <1>1, Slots DEF GotInv, QuestionInv, HelperInv, Helped, Response
<1>9. NothingCarriedOver'
  BY <1>1, Slots DEF NothingCarriedOver, InTurn
<1>10. ToldIsSaved'
  <2>. SUFFICES ASSUME NEW q \in Requests
                PROVE  /\ (got')[q].reply = "answer" => Contains(saved', Answer(q))
                       /\ (got')[q].reply = "clarify" => Contains(saved',
                            Answer((got')[q].clarify))
    BY DEF ToldIsSaved
  <2>1. CASE q # r
    BY <1>1, <2>1 DEF ToldIsSaved
  <2>2. CASE q = r
    <3>1. helper[r] \in Helpers
      BY <1>1, Slots DEF HelperInv, Helped
    <3>2. clarify[helper[r]] # None => Contains(saved, Answer(clarify[helper[r]]))
      BY <3>1 DEF QuestionInv
    <3>3. /\ outcome[r] # "none"
          /\ outcome[r] \in {"answer", "asks"} => Contains(saved, Answer(r))
      BY <1>1 DEF OutcomeInv, After
    <3>. QED
      BY <1>1, <2>2, <3>2, <3>3, Slots DEF Response
  <2>. QED
    BY <2>1, <2>2
<1>11. AskedOnce'
  <2>1. helper[r] \in Helpers
    BY <1>1, Slots DEF HelperInv, Helped
  <2>2. ASSUME NEW s \in Requests, NEW q \in Requests, (got')[s].clarify = q
        PROVE  /\ helper[q] = helper[s] /\ (clarify')[helper[q]] # q
               /\ outcome[q] = "asks" /\ (at')[q] \in After
               /\ \A p \in Requests : (got')[p].clarify = q => p = s
    <3>1. q # None
      BY Slots
    <3>2. CASE s = r
      <4>1. clarify[helper[r]] = q
        BY <1>1, <2>2, <3>2
      <4>2. helper[q] = helper[r] /\ outcome[q] = "asks" /\ at[q] \in After
        BY <2>1, <3>1, <4>1 DEF NothingCarriedOver, QuestionInv
      <4>3. (clarify')[helper[q]] = None
        BY <1>1, <2>1, <4>2
      <4>4. \A p \in Requests : got[p].clarify # q
        BY <3>1, <4>1, <4>2 DEF AskedOnce
      <4>5. (at')[q] \in After
        BY <1>1, <4>2 DEF After
      <4>. QED
        BY <1>1, <3>1, <3>2, <4>2, <4>3, <4>4, <4>5
    <3>3. CASE s # r
      <4>1. got[s].clarify = q
        BY <1>1, <2>2, <3>3
      <4>2. /\ helper[q] = helper[s] /\ clarify[helper[q]] # q
            /\ outcome[q] = "asks" /\ at[q] \in After
            /\ \A p \in Requests : got[p].clarify = q => p = s
        BY <3>1, <4>1 DEF AskedOnce, After
      <4>3. clarify[helper[r]] # q
        BY <2>1, <3>1, <4>2 DEF NothingCarriedOver
      <4>4. helper[q] \in Helpers
        BY <3>1, <4>1, <4>2, Slots DEF GotInv
      <4>5. (clarify')[helper[q]] # q
        BY <1>1, <3>1, <4>2, <4>4
      <4>6. (at')[q] \in After
        BY <1>1, <4>2 DEF After
      <4>. QED
        BY <1>1, <4>2, <4>3, <4>5, <4>6
    <3>. QED
      BY <3>2, <3>3
  <2>3. \A s \in Requests : (got')[s].clarify \in Requests \cup {None}
    <3>1. \A s \in Requests : (got')[s] \in Taken
      BY <1>2 DEF Types
    <3>. QED
      BY <3>1 DEF Taken
  <2>. QED
    BY <1>1, <2>2, <2>3 DEF AskedOnce, After
<1>. QED
  BY <1>2, <1>3, <1>4, <1>5, <1>6, <1>7, <1>8, <1>9, <1>10, <1>11, TypesAre

\* A request of Request(r) does one of these.
LEMMA RequestIInv ==
  ASSUME IInv, NEW r \in Requests, Request(r)
  PROVE  IInv'
<1>1. CASE Lookup(r) \/ Touch(r) \/ CreateFails(r) \/ HistoryFails(r) \/ Insert(r)
  BY <1>1, LookupIInv, TouchIInv, CreateFailsIInv, InsertIInv
<1>2. CASE \/ \E table \in Tables : ReadHistory(r, table)
           \/ \E table \in Tables \cup {<<>>} : Seed(r, table)
  BY <1>2, ReadHistoryIInv, SeedIInv
<1>3. CASE Lock(r) \/ Snapshot(r) \/ NotCompressed(r) \/ Reject(r)
  BY <1>3, LockIInv, SnapshotIInv, NotCompressedIInv, RejectIInv
<1>4. CASE \E keep \in KeepAtLeast .. KeepAtMost : Compress(r, keep)
  BY <1>4, CompressIInv
<1>5. CASE \E fails \in BOOLEAN : StreamCached(r, fails)
  BY <1>5, StreamCachedIInv
<1>6. CASE \E how \in {"answer", "error", "asks"}, fails \in BOOLEAN : Generate(r, how, fails)
  BY <1>6, GenerateIInv
<1>7. CASE \E some \in BOOLEAN : SetWarnings(r, some)
  BY <1>7, SetWarningsIInv
<1>8. CASE Clarify(r) \/ Fail(r) \/ Reply(r)
  BY <1>8, ClarifyIInv, FailIInv, ReplyIInv
<1>9. CASE TakeClarify(r) \/ TakeWarnings(r)
  BY <1>9, TakeClarifyIInv, TakeWarningsIInv
<1>10. CASE StreamTakesWarnings(r) \/ StreamGone(r) \/ StreamTakesClarify(r)
  BY <1>10, StreamTakesWarningsIInv, StreamGoneIInv, StreamTakesClarifyIInv
<1>. QED
  BY <1>1, <1>2, <1>3, <1>4, <1>5, <1>6, <1>7, <1>8, <1>9, <1>10 DEF Request

\* The janitor and the clock touch nothing but current and stale.
LEMMA IdleIInv ==
  ASSUME IInv, EvictIdle \/ \E h \in Helpers : GoesIdle(h)
  PROVE  IInv'
<1>. USE DEF IInv
<1>1. /\ current' \in {current, None}
      /\ UNCHANGED <<messages, summary, turn, clarify, warnings, saved, at, kind, helper,
                     snapshot, outcome, broken, got>>
  BY DEF EvictIdle, GoesIdle, helperVars, requestVars
<1>2. stale' \in [Helpers -> BOOLEAN]
  <2>1. stale' = stale \/ \E h \in Helpers : stale' = [stale EXCEPT ![h] = TRUE]
    BY DEF EvictIdle, GoesIdle, helperVars
  <2>. QED
    BY <2>1, TypesOf DEF Types
<1>3. Types'
  BY <1>1, <1>2, TypesOf DEF Types
<1>4. TurnInv' /\ SnapshotInv' /\ OutcomeInv' /\ QuestionInv' /\ GotInv'
  BY <1>1 DEF TurnInv, SnapshotInv, OutcomeInv, QuestionInv, GotInv
<1>5. HelperInv'
  BY <1>1, Slots DEF HelperInv
<1>6. NothingCarriedOver' /\ AskedOnce' /\ ToldIsSaved'
  BY <1>1 DEF NothingCarriedOver, AskedOnce, ToldIsSaved
<1>. QED
  BY <1>3, <1>4, <1>5, <1>6, TypesAre

LEMMA InitIInv == Init => IInv
<1>. SUFFICES ASSUME Init
              PROVE  IInv
  OBVIOUS
<1>1. /\ None \notin Helpers /\ Old \in Helpers /\ Requests \subseteq Helpers
      /\ \A q \in Requests : q # Old
  BY ChatTurnAssumption DEF ChatTurnAssumption, Helpers
<1>2. <<>> \in Seq(Message) /\ <<Question(Old), Answer(Old)>> \in Seq(Message)
  <2>1. Question(Old) \in Message /\ Answer(Old) \in Message
    BY DEF Question, Answer, Message, Turns
  <2>. QED
    BY <2>1
<1>3. saved \in Seq(Message)
  BY <1>2 DEF Init
<1>4. /\ current \in Helpers \cup {None}
      /\ stale \in [Helpers -> BOOLEAN]
      /\ messages \in [Helpers -> Seq(Message)] /\ summary \in [Helpers -> Seq(Message)]
  BY <1>1, <1>2, <1>3 DEF Init
<1>5. got \in [Requests -> [clarify : Requests \cup {None},
                            reply : {"none", "answer", "clarify", "error", "gone", "history"}]]
  BY DEF Init
<1>6. TypeOK
  BY <1>1, <1>3, <1>4, <1>5 DEF Init, TypeOK, InTurn
<1>7. TurnInv /\ HelperInv /\ SnapshotInv
  BY <1>1 DEF Init, TurnInv, HelperInv, SnapshotInv, InTurn, Helped
<1>8. OutcomeInv /\ QuestionInv /\ GotInv
  BY DEF Init, OutcomeInv, QuestionInv, GotInv
<1>9. NothingCarriedOver /\ AskedOnce /\ ToldIsSaved
  BY DEF Init, NothingCarriedOver, AskedOnce, ToldIsSaved
<1>. QED
  BY <1>6, <1>7, <1>8, <1>9 DEF IInv

LEMMA NextIInv == IInv /\ [Next]_vars => IInv'
<1>. SUFFICES ASSUME IInv, [Next]_vars
              PROVE  IInv'
  OBVIOUS
<1>1. CASE EvictIdle \/ \E h \in Helpers : GoesIdle(h)
  BY <1>1, IdleIInv
<1>2. CASE \E r \in Requests : Request(r)
  BY <1>2, RequestIInv
<1>3. CASE UNCHANGED vars
  BY <1>3 DEF vars, helperVars, IInv, TypeOK, TurnInv, HelperInv, SnapshotInv, OutcomeInv,
     QuestionInv, GotInv, NothingCarriedOver, AskedOnce, ToldIsSaved
<1>. QED
  BY <1>1, <1>2, <1>3 DEF Next, Over
-----------------------------------------------------------------------------
\* The whole of what is needed about the turns holds in every reachable state.
THEOREM InductiveInvariant == Spec => []IInv
<1>. QED
  BY InitIInv, NextIInv, PTL DEF Spec

\* Every variable keeps its type, and a request is in a turn exactly as long as
\* it holds the turn lock of its helper (generation.go).
THEOREM TypeCorrect == Spec => []TypeOK
<1>1. IInv => TypeOK
  BY DEF IInv
<1>. QED
  BY <1>1, InductiveInvariant, PTL

\* Only the second look under the write lock and the janitor change which
\* helper the session has, so that a live one is never replaced.
THEOREM LiveHelpersStay == Spec => LiveHelperStays
<1>1. [Next]_vars => [current # None /\ current' # current
                        => current' = None /\ stale[current]]_vars
  <2>. SUFFICES ASSUME Next, current # None, current' # current
                PROVE  current' = None /\ stale[current]
    BY DEF vars
  <2>1. CASE EvictIdle
    BY <2>1 DEF EvictIdle
  <2>2. CASE (\E h \in Helpers : GoesIdle(h)) \/ Over
    BY <2>2 DEF GoesIdle, Over, vars
  <2>3. ASSUME NEW r \in Requests, Request(r)
        PROVE  FALSE
    <3>1. CASE Insert(r)
      BY <3>1 DEF Insert
    <3>. QED
      BY <2>3, <3>1 DEF Request, Lookup, Touch, ReadHistory, HistoryFails, CreateFails, Seed, Lock, Snapshot,
         NotCompressed, Compress, Reject, StreamCached, Generate, SetWarnings, Clarify, Fail,
         Reply, TakeClarify, TakeWarnings, StreamTakesWarnings, StreamGone, StreamTakesClarify
  <2>. QED
    BY <2>1, <2>2, <2>3 DEF Next
<1>. QED
  BY <1>1, PTL DEF Spec, LiveHelperStays
-----------------------------------------------------------------------------
(* The history of a helper, beside what IInv says of the turns. *)

Own(h) == Only(Known(h), Said(h))

\* Where a request may have saved a message.
Spoken == InTurn \cup After

\* Whose messages a helper knows or the persistence was handed, has spoken.
SpokenInv ==
  /\ \A h \in Helpers : \A i \in 1 .. Len(Known(h)) :
       Known(h)[i].turn = Old \/ at[Known(h)[i].turn] \in Spoken
  /\ \A i \in 1 .. Len(saved) : saved[i].turn = Old \/ at[saved[i].turn] \in Spoken

\* A helper that is still being made has nothing summed up.
FreshInv == \A r \in Requests : at[r] \in Unmade => summary[r] = <<>>

\* The last that has been said on a helper is the question of its turn.
LastInv == \A r \in Requests : at[r] \in InTurn =>
  Len(Own(helper[r])) > 0 /\ Own(helper[r])[Len(Own(helper[r]))] = Question(r)

HistoryInv == SpokenInv /\ FreshInv /\ LastInv /\ TurnsInOrder /\ NothingForgotten

LEMMA KnownType ==
  ASSUME TypeOK
  PROVE  /\ \A h \in Helpers : Known(h) \in Seq(Message)
         /\ \A h \in Helpers : Own(h) \in Seq(Message)
         /\ saved \in Seq(Message)
         /\ \A m \in Message : m.turn = Old \/ m.turn \in Requests
<1>1. \A h \in Helpers : Known(h) \in Seq(Message)
  <2>1. \A h \in Helpers : summary[h] \in Seq(Message) /\ messages[h] \in Seq(Message)
    BY DEF TypeOK
  <2>2. ASSUME NEW s \in Seq(Message), NEW t \in Seq(Message) PROVE s \o t \in Seq(Message)
    OBVIOUS
  <2>. QED
    BY <2>1, <2>2 DEF Known
<1>2. \A h \in Helpers : Own(h) \in Seq(Message)
  BY <1>1, OnlyType DEF Own
<1>. QED
  BY <1>1, <1>2 DEF TypeOK, Message, Turns

LEMMA OwnTurns ==
  ASSUME TypeOK, SpokenInv, NEW h \in Helpers, NEW i \in 1 .. Len(Own(h))
  PROVE  /\ Own(h)[i] \in Message /\ Own(h)[i].turn \in Requests
         /\ helper[Own(h)[i].turn] = h /\ at[Own(h)[i].turn] \in Spoken
<1>1. PICK j \in 1 .. Len(Known(h)) : Own(h)[i] = Known(h)[j] /\ Known(h)[j] \in Said(h)
  BY KnownType, OnlyFrom DEF Own
<1>2. Known(h)[j] \in Message
  BY KnownType
<1>. QED
  BY <1>1, <1>2, KnownType DEF Said, SpokenInv

\* What is said on a helper does not depend on the requests that have not spoken.
LEMMA SaidSame ==
  ASSUME TypeOK, TypeOK', NEW s \in Seq(Message), NEW h \in Helpers,
         \A i \in 1 .. Len(s) : s[i].turn = Old \/ at[s[i].turn] \in Spoken,
         \A q \in Requests : at[q] \in Spoken => (helper')[q] = helper[q]
  PROVE  Only(s, Said(h)') = Only(s, Said(h))
<1>1. ASSUME NEW i \in 1 .. Len(s) PROVE s[i] \in Said(h) <=> s[i] \in Said(h)'
  <2>1. s[i] \in Message
    OBVIOUS
  <2>2. s[i].turn = Old \/ (s[i].turn \in Requests /\ at[s[i].turn] \in Spoken)
    BY <2>1, KnownType
  <2>. QED
    BY <2>1, <2>2 DEF Said
<1>. QED
  BY <1>1, OnlySame

\* TurnsInOrder and LastInv look at nothing but this.
LEMMA OrderKept ==
  ASSUME TypeOK, TypeOK', HistoryInv,
         \A h \in Helpers : Own(h)' = Own(h),
         \A q \in Requests : at[q] \in Spoken => (helper')[q] = helper[q],
         \A q \in Requests : (at')[q] \in InTurn => at[q] \in InTurn,
         \A q \in Requests : at[q] \in Spoken /\ (at')[q] \notin InTurn /\
           (outcome')[q] \in {"answer", "asks"}
                               => at[q] \notin InTurn /\ outcome[q] = (outcome')[q]
  PROVE  TurnsInOrder' /\ LastInv'
<1>1. TurnsInOrder'
  <2>1. SUFFICES ASSUME NEW h \in Helpers, NEW i \in 1 .. Len(Own(h))
        PROVE  LET own == Own(h) r == own[i].turn IN
               IF own[i].user
               THEN /\ \A j \in 1 .. i - 1 : own[j].turn # r
                    /\ ((at')[r] \notin InTurn /\ (outcome')[r] \in {"answer", "asks"}) =>
                         (i < Len(own) /\ own[i + 1] = Answer(r))
                    /\ (at')[r] \in InTurn => i = Len(own)
               ELSE i > 1 => own[i - 1] = Question(r)
    BY DEF TurnsInOrder, Own
  <2>2. Own(h)[i].turn \in Requests /\ at[Own(h)[i].turn] \in Spoken
    BY OwnTurns DEF HistoryInv
  <2>3. LET own == Own(h) r == own[i].turn IN
               IF own[i].user
               THEN /\ \A j \in 1 .. i - 1 : own[j].turn # r
                    /\ (at[r] \notin InTurn /\ outcome[r] \in {"answer", "asks"}) =>
                         (i < Len(own) /\ own[i + 1] = Answer(r))
                    /\ at[r] \in InTurn => i = Len(own)
               ELSE i > 1 => own[i - 1] = Question(r)
    BY DEF HistoryInv, TurnsInOrder, Own
  <2>. QED
    BY <2>2, <2>3
<1>2. LastInv'
  <2>1. \A q \in Requests : at[q] \in InTurn => helper[q] \in Helpers /\ at[q] \in Spoken
    BY Slots DEF TypeOK, Spoken
  <2>. QED
    BY <2>1 DEF HistoryInv, LastInv
<1>. QED
  BY <1>1, <1>2

\* A step that says nothing.
LEMMA Quiet ==
  ASSUME TypeOK, TypeOK', HistoryInv, saved' = saved,
         \A h \in Helpers : Known(h)' = Known(h),
         \A q \in Requests : at[q] \in Spoken => (at')[q] \in Spoken /\
           (helper')[q] = helper[q],
         \A q \in Requests : (at')[q] \in InTurn => at[q] \in InTurn,
         \A q \in Requests : at[q] \in Spoken /\ (at')[q] \notin InTurn /\
           (outcome')[q] \in {"answer", "asks"}
                               => at[q] \notin InTurn /\ outcome[q] = (outcome')[q],
         \A q \in Requests : (at')[q] \in Unmade => at[q] \in Unmade /\
           (summary')[q] = summary[q]
  PROVE  HistoryInv'
<1>1. SpokenInv'
  <2>1. \A h \in Helpers : \A i \in 1 .. Len(Known(h)) :
          Known(h)[i].turn = Old \/ Known(h)[i].turn \in Requests
    BY KnownType
  <2>2. \A i \in 1 .. Len(saved) : saved[i].turn = Old \/ saved[i].turn \in Requests
    BY KnownType
  <2>. QED
    BY <2>1, <2>2 DEF HistoryInv, SpokenInv
<1>2. FreshInv'
  BY DEF HistoryInv, FreshInv
<1>3. \A h \in Helpers : Own(h)' = Own(h)
  BY KnownType, SaidSame DEF HistoryInv, SpokenInv, Own
<1>4. \A h \in Helpers : Only(saved, Said(h)') = Only(saved, Said(h))
  BY KnownType, SaidSame DEF HistoryInv, SpokenInv
<1>5. NothingForgotten'
  BY <1>3, <1>4 DEF HistoryInv, NothingForgotten, Own, SaidBefore
<1>6. TurnsInOrder' /\ LastInv'
  BY <1>3, OrderKept
<1>. QED
  BY <1>1, <1>2, <1>5, <1>6 DEF HistoryInv

LEMMA ConcatAppend ==
  ASSUME NEW s \in Seq(Message), NEW t \in Seq(Message), NEW e \in Message
  PROVE  s \o Append(t, e) = Append(s \o t, e)
<1>1. <<e>> \in Seq(Message) /\ s \o t \in Seq(Message)
  OBVIOUS
<1>2. Append(t, e) = t \o <<e>> /\ Append(s \o t, e) = (s \o t) \o <<e>>
  BY <1>1, AppendIsConcat
<1>. QED
  BY <1>1, <1>2, ConcatAssociative

\* A request says something, on its helper.
Speaks(r, e) == /\ e.turn = r /\ helper[r] \in Helpers
                /\ Add(helper[r], e)
                /\ UNCHANGED <<summary, helper>>
                /\ (at')[r] \in Spoken
                /\ \A q \in Requests \ {r} : (at')[q] = at[q] /\ (outcome')[q] = outcome[q]

LEMMA Speak ==
  ASSUME TypeOK, TypeOK', HistoryInv, NEW r \in Requests, NEW e \in Message, Speaks(r, e)
  PROVE  /\ SpokenInv' /\ FreshInv' /\ NothingForgotten'
         /\ \A h \in Helpers : Own(h)' = IF h = helper[r] THEN Append(Own(h), e) ELSE Own(h)
<1>. PICK g \in Helpers : g = helper[r]
  BY DEF Speaks
<1>0. /\ g \in Helpers /\ Known(g) \in Seq(Message) /\ saved \in Seq(Message)
      /\ summary[g] \in Seq(Message) /\ messages[g] \in Seq(Message)
  BY KnownType DEF Speaks, TypeOK
<1>1. saved' = Append(saved, e)
  BY DEF Speaks, Add
<1>2. Known(g)' = Append(Known(g), e)
  <2>1. (messages')[g] = Append(messages[g], e) /\ (summary')[g] = summary[g]
    BY <1>0 DEF Speaks, Add, TypeOK
  <2>2. summary[g] \o Append(messages[g], e) = Append(summary[g] \o messages[g], e)
    BY <1>0, ConcatAppend
  <2>. QED
    BY <2>1, <2>2 DEF Known
<1>3. \A h \in Helpers \ {g} : Known(h)' = Known(h)
  BY <1>0 DEF Speaks, Add, TypeOK, Known
<1>4. \A h \in Helpers : Said(h)' = Said(h)
  BY DEF Speaks, Said
<1>5. e \in Said(g) /\ \A h \in Helpers \ {g} : e \notin Said(h)
  <2>1. e.turn # Old
    BY ChatTurnAssumption DEF Speaks, ChatTurnAssumption
  <2>. QED
    BY <2>1 DEF Speaks, Said
<1>6. e \notin SaidBefore
  BY ChatTurnAssumption DEF Speaks, SaidBefore, ChatTurnAssumption
<1>7. Own(g)' = Append(Own(g), e)
  <2>1. Own(g)' = Only(Known(g)', Said(g)')
    BY DEF Own
  <2>2. Only(Append(Known(g), e), Said(g)) = Append(Only(Known(g), Said(g)), e)
    BY <1>0, <1>5, OnlyAppend
  <2>. QED
    BY <1>0, <1>2, <1>4, <2>1, <2>2 DEF Own
<1>8. \A h \in Helpers \ {g} : Own(h)' = Own(h)
  BY <1>3, <1>4 DEF Own
<1>9. NothingForgotten'
  <2>1. \A h \in Helpers : Only(saved', Said(h)) =
          IF e \in Said(h) THEN Append(Only(saved, Said(h)), e) ELSE Only(saved, Said(h))
    BY <1>0, <1>1, OnlyAppend
  <2>2. \A h \in Helpers : Own(h)' = Only(saved', Said(h))
    BY <1>0, <1>4, <1>5, <1>7, <1>8, <2>1 DEF HistoryInv, NothingForgotten, Own
  <2>3. Only(saved', SaidBefore) = Only(saved, SaidBefore)
    BY <1>0, <1>1, <1>6, OnlyAppend
  <2>4. \A h \in Helpers : Only(Known(h)', SaidBefore) = Only(Known(h), SaidBefore)
    <3>1. Only(Append(Known(g), e), SaidBefore) = Only(Known(g), SaidBefore)
      BY <1>0, <1>6, OnlyAppend
    <3>. QED
      BY <1>2, <1>3, <3>1
  <2>. QED
    BY <1>4, <2>2, <2>3, <2>4 DEF HistoryInv, NothingForgotten, Own, SaidBefore
<1>10. SpokenInv'
  <2>1. ASSUME NEW s \in Seq(Message),
               \A i \in 1 .. Len(s) : s[i].turn = Old \/ at[s[i].turn] \in Spoken
        PROVE  /\ \A i \in 1 .. Len(s) : s[i].turn = Old \/ (at')[s[i].turn] \in Spoken
               /\ \A i \in 1 .. Len(Append(s, e)) :
                    Append(s, e)[i].turn = Old \/ (at')[Append(s, e)[i].turn] \in Spoken
    <3>1. \A i \in 1 .. Len(s) : s[i].turn = Old \/ (at')[s[i].turn] \in Spoken
      BY <2>1, KnownType DEF Speaks
    <3>2. /\ Len(Append(s, e)) = Len(s) + 1 /\ Append(s, e)[Len(s) + 1] = e /\ Len(s) \in Nat
          /\ \A i \in 1 .. Len(s) : Append(s, e)[i] = s[i]
      OBVIOUS
    <3>3. (at')[e.turn] \in Spoken
      BY DEF Speaks
    <3>. QED
      BY <3>1, <3>2, <3>3
  <2>2. \A i \in 1 .. Len(saved') : (saved')[i].turn = Old \/ (at')[(saved')[i].turn] \in Spoken
    BY <1>0, <1>1, <2>1 DEF HistoryInv, SpokenInv
  <2>3. ASSUME NEW h \in Helpers
        PROVE  \A i \in 1 .. Len(Known(h)') :
                 (Known(h)')[i].turn = Old \/ (at')[(Known(h)')[i].turn] \in Spoken
    <3>1. CASE h = g
      BY <1>0, <1>2, <2>1, <3>1 DEF HistoryInv, SpokenInv
    <3>2. CASE h # g
      BY <1>3, <2>1, <3>2, KnownType DEF HistoryInv, SpokenInv
    <3>. QED
      BY <3>1, <3>2
  <2>. QED
    BY <2>2, <2>3 DEF SpokenInv
<1>11. FreshInv'
  <2>1. (at')[r] \notin Unmade
    BY DEF Speaks, Spoken, InTurn, After, Unmade
  <2>. QED
    BY <2>1 DEF HistoryInv, FreshInv, Speaks
<1>. QED
  BY <1>7, <1>8, <1>9, <1>10, <1>11

\* The place a request has in the history of a helper, spelt out for one.
OrderAt(own, i, where, how) ==
  IF own[i].user
  THEN /\ \A j \in 1 .. i - 1 : own[j].turn # own[i].turn
       /\ (where \notin InTurn /\ how \in {"answer", "asks"}) =>
            (i < Len(own) /\ own[i + 1] = Answer(own[i].turn))
       /\ where \in InTurn => i = Len(own)
  ELSE i > 1 => own[i - 1] = Question(own[i].turn)

LEMMA OrderIs ==
  TurnsInOrder <=> \A h \in Helpers : \A i \in 1 .. Len(Own(h)) :
                     OrderAt(Own(h), i, at[Own(h)[i].turn], outcome[Own(h)[i].turn])
  BY DEF TurnsInOrder, Own, OrderAt

LEMMA OrderIsNext ==
  TurnsInOrder' <=> \A h \in Helpers : \A i \in 1 .. Len(Own(h)') :
                     OrderAt(Own(h)', i, (at')[(Own(h)')[i].turn],
                       (outcome')[(Own(h)')[i].turn])
  BY DEF TurnsInOrder, Own, OrderAt

\* The helpers on which nothing has been said.
LEMMA OrderElsewhere ==
  ASSUME TypeOK, HistoryInv, NEW r \in Requests, NEW e \in Message, Speaks(r, e),
         NEW h \in Helpers \ {helper[r]}, Own(h)' = Own(h), NEW i \in 1 .. Len(Own(h)')
  PROVE  OrderAt(Own(h)', i, (at')[(Own(h)')[i].turn], (outcome')[(Own(h)')[i].turn])
<1>1. Own(h)[i].turn \in Requests \ {r}
  BY OwnTurns DEF HistoryInv
<1>2. OrderAt(Own(h), i, at[Own(h)[i].turn], outcome[Own(h)[i].turn])
  BY OrderIs DEF HistoryInv
<1>. QED
  BY <1>1, <1>2 DEF Speaks

LEMMA OneMore ==
  ASSUME NEW s \in Seq(Message), NEW e \in Message
  PROVE  /\ Len(Append(s, e)) = Len(s) + 1 /\ Len(s) \in Nat /\ Append(s, e)[Len(s) + 1] = e
         /\ \A i \in 1 .. Len(s) : Append(s, e)[i] = s[i]
  OBVIOUS

\* A turn begins: no other is under way on the helper.
LEMMA Asking ==
  ASSUME TypeOK, TypeOK', HistoryInv, NEW r \in Requests, Speaks(r, Question(r)),
         at[r] \notin Spoken, (at')[r] \in InTurn,
         \A q \in Requests : helper[q] = helper[r] => at[q] \notin InTurn
  PROVE  HistoryInv'
<1>. PICK g \in Helpers : g = helper[r]
  BY DEF Speaks
<1>. DEFINE s == Own(g)
            t == Own(g)'
<1>0. /\ Question(r) \in Message /\ Question(r).turn = r /\ Question(r).user = TRUE
      /\ g \in Helpers /\ s \in Seq(Message)
  BY KnownType DEF Question, Message, Turns, Speaks
<1>1. /\ SpokenInv' /\ FreshInv' /\ NothingForgotten'
      /\ t = Append(s, Question(r))
      /\ \A h \in Helpers \ {g} : Own(h)' = Own(h)
  BY <1>0, Speak
<1>2. \A i \in 1 .. Len(s) : /\ s[i].turn \in Requests \ {r}
                             /\ at[s[i].turn] \notin InTurn
                             /\ OrderAt(s, i, at[s[i].turn], outcome[s[i].turn])
  BY <1>0, OwnTurns, OrderIs DEF HistoryInv
<1>3. \A i \in 1 .. Len(s) : (at')[s[i].turn] = at[s[i].turn] /\
        (outcome')[s[i].turn] = outcome[s[i].turn]
  BY <1>2 DEF Speaks
<1>. HIDE DEF s, t
<1>4. /\ Len(t) = Len(s) + 1 /\ Len(s) \in Nat /\ t[Len(s) + 1] = Question(r)
      /\ \A i \in 1 .. Len(s) : t[i] = s[i]
  BY <1>0, <1>1, OneMore
<1>5. ASSUME NEW i \in 1 .. Len(t)
      PROVE  OrderAt(t, i, (at')[t[i].turn], (outcome')[t[i].turn])
  <2>1. CASE i \in 1 .. Len(s)
    <3>1. OrderAt(s, i, at[s[i].turn], outcome[s[i].turn]) /\ at[s[i].turn] \notin InTurn
      BY <1>2, <2>1
    <3>2. /\ \A j \in 1 .. i - 1 : t[j] = s[j]
          /\ i < Len(s) => t[i + 1] = s[i + 1]
          /\ i > 1 => t[i - 1] = s[i - 1]
          /\ t[i] = s[i] /\ i < Len(t)
      BY <1>4, <2>1
    <3>. QED
      BY <1>3, <1>4, <2>1, <3>1, <3>2 DEF OrderAt
  <2>2. CASE i = Len(s) + 1
    <3>1. t[i] = Question(r) /\ i = Len(t) /\ \A j \in 1 .. i - 1 : t[j].turn # r
      BY <1>2, <1>4, <2>2
    <3>. QED
      BY <1>0, <3>1 DEF OrderAt
  <2>. QED
    BY <1>4, <2>1, <2>2
<1>6. TurnsInOrder'
  BY <1>0, <1>1, <1>5, OrderIsNext, OrderElsewhere DEF t
<1>7. LastInv'
  <2>1. ASSUME NEW q \in Requests, NEW h \in Helpers, (at')[q] \in InTurn, (helper')[q] = h
        PROVE  Len(Own(h)') > 0 /\ (Own(h)')[Len(Own(h)')] = Question(q)
    <3>1. CASE q = r
      BY <1>4, <2>1, <3>1 DEF Speaks, t
    <3>2. CASE q # r
      <4>1. at[q] \in InTurn /\ h \in Helpers \ {g} /\ helper[q] = h
        BY <2>1, <3>2 DEF Speaks
      <4>. QED
        BY <1>1, <4>1 DEF HistoryInv, LastInv
    <3>. QED
      BY <3>1, <3>2
  <2>2. \A q \in Requests : (at')[q] \in InTurn => (helper')[q] \in Helpers
    BY Slots DEF TypeOK
  <2>. QED
    BY <2>1, <2>2 DEF LastInv
<1>. QED
  BY <1>1, <1>6, <1>7 DEF HistoryInv

\* A turn ends with its answer, next to its question.
LEMMA Answering ==
  ASSUME TypeOK, TypeOK', HistoryInv, NEW r \in Requests, Speaks(r, Answer(r)),
         at[r] \in InTurn, (at')[r] \notin InTurn,
         \A q \in Requests \ {r} : helper[q] = helper[r] => at[q] \notin InTurn
  PROVE  HistoryInv'
<1>. PICK g \in Helpers : g = helper[r]
  BY DEF Speaks
<1>. DEFINE s == Own(g)
            t == Own(g)'
<1>0. /\ Answer(r) \in Message /\ Answer(r).turn = r /\ Answer(r).user = FALSE
      /\ Question(r).turn = r
      /\ g \in Helpers /\ s \in Seq(Message)
  BY KnownType DEF Question, Answer, Message, Turns, Speaks
<1>1. /\ SpokenInv' /\ FreshInv' /\ NothingForgotten'
      /\ t = Append(s, Answer(r))
      /\ \A h \in Helpers \ {g} : Own(h)' = Own(h)
  BY <1>0, Speak
<1>2. \A i \in 1 .. Len(s) : /\ s[i].turn \in Requests
                             /\ helper[s[i].turn] = g
                             /\ OrderAt(s, i, at[s[i].turn], outcome[s[i].turn])
  BY <1>0, OwnTurns, OrderIs DEF HistoryInv
<1>3. Len(s) > 0 /\ s[Len(s)] = Question(r)
  BY DEF HistoryInv, LastInv
<1>. HIDE DEF s, t
<1>4. /\ Len(t) = Len(s) + 1 /\ Len(s) \in Nat /\ t[Len(s) + 1] = Answer(r)
      /\ \A i \in 1 .. Len(s) : t[i] = s[i]
  BY <1>0, <1>1, OneMore
<1>5. ASSUME NEW i \in 1 .. Len(t)
      PROVE  OrderAt(t, i, (at')[t[i].turn], (outcome')[t[i].turn])
  <2>1. CASE i \in 1 .. Len(s)
    <3>1. OrderAt(s, i, at[s[i].turn], outcome[s[i].turn])
      BY <1>2, <2>1
    <3>2. /\ \A j \in 1 .. i - 1 : t[j] = s[j]
          /\ i < Len(s) => t[i + 1] = s[i + 1]
          /\ i > 1 => t[i - 1] = s[i - 1]
          /\ t[i] = s[i] /\ i < Len(t)
      BY <1>4, <2>1
    <3>3. CASE s[i].turn # r
      <4>1. /\ (at')[s[i].turn] = at[s[i].turn] /\ at[s[i].turn] \notin InTurn
            /\ (outcome')[s[i].turn] = outcome[s[i].turn]
        BY <1>2, <2>1, <3>3 DEF Speaks
      <4>. QED
        BY <1>4, <2>1, <3>1, <3>2, <4>1 DEF OrderAt
    <3>4. CASE s[i].turn = r
      <4>1. s[i].user => i = Len(s) /\ t[i + 1] = Answer(r) /\ \A j \in 1 .. i - 1 :
              s[j].turn # r
        BY <1>4, <2>1, <3>1, <3>4 DEF OrderAt
      <4>. QED
        BY <3>1, <3>2, <3>4, <4>1 DEF OrderAt
    <3>. QED
      BY <3>3, <3>4
  <2>2. CASE i = Len(s) + 1
    <3>1. t[i] = Answer(r) /\ t[i - 1] = Question(r)
      BY <1>3, <1>4, <2>2
    <3>. QED
      BY <1>0, <3>1 DEF OrderAt
  <2>. QED
    BY <1>4, <2>1, <2>2
<1>6. TurnsInOrder'
  BY <1>0, <1>1, <1>5, OrderIsNext, OrderElsewhere DEF t
<1>7. LastInv'
  <2>1. ASSUME NEW q \in Requests, NEW h \in Helpers, (at')[q] \in InTurn, (helper')[q] = h
        PROVE  Len(Own(h)') > 0 /\ (Own(h)')[Len(Own(h)')] = Question(q)
    <3>1. q # r
      BY <2>1
    <3>2. at[q] \in InTurn /\ h \in Helpers \ {g} /\ helper[q] = h
      BY <2>1, <3>1 DEF Speaks
    <3>. QED
      BY <1>1, <3>2 DEF HistoryInv, LastInv
  <2>2. \A q \in Requests : (at')[q] \in InTurn => (helper')[q] \in Helpers
    BY Slots DEF TypeOK
  <2>. QED
    BY <2>1, <2>2 DEF LastInv
<1>. QED
  BY <1>1, <1>6, <1>7 DEF HistoryInv

\* A helper that is being made gets what the table shows, or nothing.
LEMMA SeedHistory ==
  ASSUME IInv, TypeOK', HistoryInv, NEW r \in Requests,
         NEW table \in Tables \cup {<<>>}, Seed(r, table)
  PROVE  HistoryInv'
<1>1. /\ at[r] = "creating" /\ r \in Helpers
      /\ \A q \in Requests : (at')[q] = IF q = r THEN "seeded" ELSE at[q]
      /\ \A h \in Helpers : (messages')[h] = IF h = r THEN table ELSE messages[h]
      /\ UNCHANGED <<summary, saved, helper, outcome>>
  BY Slots DEF IInv, TypeOK, Seed, Goto, requestVars
<1>2. TypeOK /\ summary[r] = <<>> /\ \A q \in Requests : helper[q] # r
  BY <1>1 DEF IInv, HistoryInv, FreshInv, HelperInv, Unmade
<1>3. \A h \in Helpers : Said(h)' = Said(h)
  BY <1>1 DEF Said
<1>4. \A h \in Helpers \ {r} : Known(h)' = Known(h) /\ Own(h)' = Own(h)
  BY <1>1, <1>3 DEF Known, Own
<1>5. Known(r)' = table /\ table \in Seq(Message)
  <2>1. table \in Seq(Message) /\ <<>> \o table = table
    BY <1>2, TablesType, ConcatEmptySeq
  <2>. QED
    BY <1>1, <1>2, <2>1 DEF Known
<1>6. Said(r) = {}
  BY <1>2, KnownType DEF Said
<1>7. Own(r) = <<>> /\ Own(r)' = <<>> /\ Only(saved, Said(r)) = <<>>
  <2>1. Known(r)' \in Seq(Message) /\ Known(r) \in Seq(Message) /\ saved \in Seq(Message)
    BY <1>1, <1>2, <1>5, KnownType
  <2>2. \A s \in Seq(Message) : Only(s, Said(r)) = <<>>
    BY <1>6, OnlyNone
  <2>. QED
    BY <1>1, <1>3, <2>1, <2>2 DEF Own
<1>8. NothingForgotten'
  <2>1. \A h \in Helpers : Own(h)' = Only(saved, Said(h))
    BY <1>1, <1>4, <1>7 DEF HistoryInv, NothingForgotten, Own
  <2>2. Only(Known(r)', SaidBefore) \in {<<>>, Only(saved, SaidBefore)}
    BY <1>2, <1>5, TablesType
  <2>. QED
    BY <1>1, <1>3, <1>4, <2>1, <2>2 DEF HistoryInv, NothingForgotten, Own, SaidBefore
<1>9. SpokenInv'
  <2>1. "creating" \notin Spoken
    BY DEF Spoken, InTurn, After
  <2>2. \A q \in Requests : at[q] \in Spoken => (at')[q] = at[q]
    BY <1>1, <2>1
  <2>3. \A i \in 1 .. Len(saved) : saved[i].turn = Old \/ (at')[saved[i].turn] \in Spoken
    BY <1>2, <2>2, KnownType DEF HistoryInv, SpokenInv
  <2>4. \A h \in Helpers \ {r} : \A i \in 1 .. Len(Known(h)) :
          Known(h)[i].turn = Old \/ (at')[Known(h)[i].turn] \in Spoken
    BY <1>2, <2>2, KnownType DEF HistoryInv, SpokenInv
  <2>5. \A i \in 1 .. Len(Known(r)') :
          (Known(r)')[i].turn = Old \/ (at')[(Known(r)')[i].turn] \in Spoken
    <3>1. \A k \in 1 .. Len(table) : \E i \in 1 .. Len(saved) : table[k] = saved[i]
      BY <1>2, TablesType
    <3>. QED
      BY <1>5, <2>3, <3>1
  <2>. QED
    BY <1>1, <1>4, <2>3, <2>4, <2>5 DEF SpokenInv
<1>10. FreshInv'
  BY <1>1 DEF HistoryInv, FreshInv, Unmade
<1>11. TurnsInOrder' /\ LastInv'
  <2>1. \A h \in Helpers : Own(h)' = Own(h)
    BY <1>4, <1>7
  <2>. QED
    BY <1>1, <1>2, <2>1, OrderKept DEF InTurn, Spoken, After
<1>. QED
  BY <1>8, <1>9, <1>10, <1>11 DEF HistoryInv

\* Under the write lock the helper is published, or dropped with its history.
LEMMA InsertHistory ==
  ASSUME IInv, TypeOK', HistoryInv, NEW r \in Requests, Insert(r)
  PROVE  HistoryInv'
<1>1. /\ at[r] = "seeded" /\ r \in Helpers
      /\ \A q \in Requests \ {r} : (at')[q] = at[q] /\ (helper')[q] = helper[q]
      /\ (at')[r] \in {"done", "ready"}
      /\ (helper')[r] = IF current = None THEN r ELSE current
      /\ \A h \in Helpers \ {r} : (messages')[h] = messages[h]
      /\ (messages')[r] = IF (helper')[r] = r THEN messages[r] ELSE <<>>
      /\ UNCHANGED <<summary, saved, outcome>>
  BY Slots DEF IInv, TypeOK, Insert, Goto, AfterInsert, requestVars
<1>2. TypeOK /\ summary[r] = <<>> /\ \A q \in Requests : helper[q] # r
  BY <1>1 DEF IInv, HistoryInv, FreshInv, HelperInv, Unmade
<1>3. \A q \in Requests : at[q] \in Spoken => (at')[q] = at[q] /\ (helper')[q] = helper[q]
  BY <1>1 DEF Spoken, InTurn, After
<1>4. \A h \in Helpers \ {r} : Known(h)' = Known(h)
  BY <1>1 DEF Known
<1>5. CASE (helper')[r] = r
  <2>1. \A h \in Helpers : Known(h)' = Known(h)
    BY <1>1, <1>4, <1>5 DEF Known
  <2>. QED
    BY <1>1, <1>2, <1>3, <2>1, Quiet DEF InTurn, Unmade
<1>6. CASE (helper')[r] # r
  <2>1. Known(r)' = <<>>
    <3>1. <<>> \o <<>> = <<>>
      BY ConcatEmptySeq, EmptySeq
    <3>. QED
      BY <1>1, <1>2, <1>6, <3>1 DEF Known
  <2>2. Said(r) = {} /\ Said(r)' = {}
    BY <1>1, <1>2, <1>6, KnownType DEF Said
  <2>3. \A h \in Helpers : Own(h)' = Own(h)
    <3>1. ASSUME NEW h \in Helpers \ {r} PROVE Own(h)' = Own(h)
      BY <1>2, <1>3, <1>4, KnownType, SaidSame DEF HistoryInv, SpokenInv, Own
    <3>2. Own(r)' = <<>>
      BY <2>1, OnlyEmpty DEF Own
    <3>3. Own(r) = <<>>
      <4>1. Known(r) \in Seq(Message)
        BY <1>1, <1>2, KnownType
      <4>. QED
        BY <2>2, <4>1, OnlyNone DEF Own
    <3>. QED
      BY <3>1, <3>2, <3>3
  <2>4. NothingForgotten'
    <3>1. \A h \in Helpers : Only(saved, Said(h)') = Only(saved, Said(h))
      BY <1>2, <1>3, KnownType, SaidSame DEF HistoryInv, SpokenInv
    <3>2. Only(Known(r)', SaidBefore) = <<>>
      BY <2>1, OnlyEmpty
    <3>. QED
      BY <1>1, <1>4, <2>3, <3>1, <3>2 DEF HistoryInv, NothingForgotten, Own, SaidBefore
  <2>5. SpokenInv'
    <3>1. \A i \in 1 .. Len(saved) : saved[i].turn = Old \/ (at')[saved[i].turn] \in Spoken
      BY <1>2, <1>3, KnownType DEF HistoryInv, SpokenInv
    <3>2. \A h \in Helpers \ {r} : \A i \in 1 .. Len(Known(h)) :
            Known(h)[i].turn = Old \/ (at')[Known(h)[i].turn] \in Spoken
      BY <1>2, <1>3, KnownType DEF HistoryInv, SpokenInv
    <3>3. Len(Known(r)') = 0
      BY <2>1
    <3>. QED
      BY <1>1, <1>4, <3>1, <3>2, <3>3 DEF SpokenInv
  <2>6. FreshInv'
    BY <1>1 DEF HistoryInv, FreshInv, Unmade
  <2>7. TurnsInOrder' /\ LastInv'
    BY <1>1, <1>2, <1>3, <2>3, OrderKept DEF InTurn
  <2>. QED
    BY <2>4, <2>5, <2>6, <2>7 DEF HistoryInv
<1>. QED
  BY <1>5, <1>6

\* A request goes on and says nothing.
Moves(r) ==
  \/ /\ at[r] \notin Spoken /\ (at')[r] \notin InTurn
     /\ (at')[r] \in Unmade => at[r] \in Unmade
  \/ /\ at[r] \in InTurn /\ (at')[r] \in InTurn /\ helper' = helper
  \/ /\ at[r] \in InTurn /\ (at')[r] \in After /\ helper' = helper
     /\ (outcome')[r] \notin {"answer", "asks"}
  \/ /\ at[r] \in After /\ (at')[r] \in After /\ helper' = helper /\ outcome' = outcome

LEMMA Moving ==
  ASSUME TypeOK, TypeOK', HistoryInv, NEW r \in Requests, saved' = saved, Moves(r),
         \A h \in Helpers : Known(h)' = Known(h),
         \A q \in Requests \ {r} : (at')[q] = at[q] /\ (helper')[q] = helper[q] /\
           (outcome')[q] = outcome[q],
         \A q \in Requests : (at')[q] \in Unmade => (summary')[q] = summary[q]
  PROVE  HistoryInv'
<1>1. /\ \A p \in InTurn : p \in Spoken /\ p \notin Unmade /\ p \notin After
      /\ \A p \in After : p \in Spoken /\ p \notin Unmade
      /\ \A p \in Spoken : p \in InTurn \/ p \in After
  BY DEF Spoken, InTurn, Unmade, After
<1>2. \A q \in Requests : at[q] \in Spoken => (at')[q] \in Spoken /\ (helper')[q] = helper[q]
  BY <1>1 DEF Moves
<1>3. \A q \in Requests : (at')[q] \in InTurn => at[q] \in InTurn
  BY <1>1 DEF Moves
<1>4. \A q \in Requests : at[q] \in Spoken /\ (at')[q] \notin InTurn /\
        (outcome')[q] \in {"answer", "asks"}
                            => at[q] \notin InTurn /\ outcome[q] = (outcome')[q]
  BY <1>1 DEF Moves
<1>5. \A q \in Requests : (at')[q] \in Unmade => at[q] \in Unmade /\ (summary')[q] = summary[q]
  BY <1>1 DEF Moves
<1>. QED
  BY <1>2, <1>3, <1>4, <1>5, Quiet

\* What a request saves is added to the history of its helper, of which it has
\* the turn lock.
LEMMA LockHistory ==
  ASSUME IInv, TypeOK', HistoryInv, NEW r \in Requests, Lock(r)
  PROVE  HistoryInv'
<1>1. /\ at[r] = "ready" /\ (at')[r] = "asked" /\ turn[helper[r]] = None
      /\ \A q \in Requests \ {r} : (at')[q] = at[q]
      /\ UNCHANGED <<summary, helper, outcome>> /\ Add(helper[r], Question(r))
  BY DEF IInv, TypeOK, Lock, Goto, requestVars
<1>2. TypeOK /\ helper[r] \in Helpers
  BY <1>1, Slots DEF IInv, HelperInv, Helped
<1>3. Speaks(r, Question(r))
  BY <1>1, <1>2 DEF Speaks, Question, Spoken, InTurn
<1>4. \A q \in Requests : helper[q] = helper[r] => at[q] \notin InTurn
  BY <1>1, <1>2, Slots DEF IInv, TurnInv
<1>. QED
  BY <1>1, <1>2, <1>3, <1>4, Asking DEF Spoken, InTurn, After

LEMMA AnswerHistory ==
  ASSUME IInv, TypeOK', HistoryInv, NEW r \in Requests,
         at[r] \in InTurn, Unlock(r), UNCHANGED <<summary, helper>>, Add(helper[r], Answer(r)),
         \A q \in Requests \ {r} : (outcome')[q] = outcome[q]
  PROVE  HistoryInv'
<1>1. /\ (at')[r] = "returned"
      /\ \A q \in Requests \ {r} : (at')[q] = at[q]
  BY DEF IInv, TypeOK, Unlock, Goto
<1>2. TypeOK /\ helper[r] \in Helpers
  BY Slots DEF IInv, HelperInv, Helped
<1>3. Speaks(r, Answer(r))
  BY <1>1, <1>2 DEF Speaks, Answer, Spoken, After
<1>4. \A q \in Requests \ {r} : helper[q] = helper[r] => at[q] \notin InTurn
  BY <1>2, Slots DEF IInv, TurnInv
<1>. QED
  BY <1>1, <1>2, <1>3, <1>4, Answering DEF InTurn

\* The summary and what is left, put together, are what they were.
LEMMA CompressHistory ==
  ASSUME IInv, TypeOK', HistoryInv, NEW r \in Requests,
         NEW keep \in KeepAtLeast .. KeepAtMost, Compress(r, keep)
  PROVE  HistoryInv'
<1>1. /\ at[r] = "compressing" /\ (at')[r] = "prepared"
      /\ \A q \in Requests \ {r} : (at')[q] = at[q]
      /\ UNCHANGED <<saved, helper, outcome>>
  BY DEF IInv, TypeOK, Compress, Goto
<1>2. TypeOK /\ helper[r] \in Helpers
  BY <1>1, Slots DEF IInv, HelperInv, Helped, InTurn
<1>. PICK g \in Helpers : g = helper[r]
  BY <1>2
<1>3. /\ summary[g] \in Seq(Message) /\ messages[g] \in Seq(Message)
      /\ snapshot[r] = Len(messages[g]) /\ keep \in Nat /\ 0 < keep /\ keep < snapshot[r]
  <2>1. summary[g] \in Seq(Message) /\ messages[g] \in Seq(Message)
    BY <1>2 DEF TypeOK
  <2>2. snapshot[r] = Len(messages[g])
    BY <1>1 DEF IInv, SnapshotInv
  <2>3. keep \in Nat /\ 0 < keep /\ keep < snapshot[r]
    BY ChatTurnAssumption DEF Compress, ChatTurnAssumption
  <2>. QED
    BY <2>1, <2>2, <2>3
<1>. DEFINE n == Len(messages[g])
            cut == n - keep
            old == SubSeq(messages[g], 1, cut)
            new == SubSeq(messages[g], cut + 1, n)
<1>4. /\ (messages')[g] = new /\ (summary')[g] = summary[g] \o old
      /\ \A h \in Helpers \ {g} : (messages')[h] = messages[h] /\ (summary')[h] = summary[h]
  <2>1. /\ messages' = [messages EXCEPT ![g] = new]
        /\ summary' = [summary EXCEPT ![g] = summary[g] \o old]
    BY <1>3 DEF Compress
  <2>. HIDE DEF new, old
  <2>. QED
    BY <1>2, <2>1 DEF TypeOK
<1>5. n \in Nat /\ cut \in 1 .. n /\ cut + 1 \in 1 .. n
  BY <1>3
<1>6. old \in Seq(Message) /\ new \in Seq(Message)
  BY <1>3, Cut
<1>7. old \o new = messages[g]
  <2>1. 1 \in 1 .. n + 1 /\ cut \in 1 - 1 .. n /\ n \in cut .. n
    BY <1>5
  <2>2. old \o new = SubSeq(messages[g], 1, n)
    BY <1>3, <2>1, ConcatAdjacentSubSeq
  <2>. QED
    BY <1>3, <2>2, SubSeqFull
<1>. HIDE DEF n, cut, old, new
<1>8. (summary[g] \o old) \o new = summary[g] \o messages[g]
  <2>0. ASSUME NEW s \in Seq(Message), NEW t \in Seq(Message), NEW u \in Seq(Message)
        PROVE  (s \o t) \o u = s \o (t \o u)
    BY ConcatAssociative
  <2>1. (summary[g] \o old) \o new = summary[g] \o (old \o new)
    BY <1>3, <1>6, <2>0
  <2>. QED
    BY <1>7, <2>1
<1>9. \A h \in Helpers : Known(h)' = Known(h)
  BY <1>4, <1>8 DEF Known
<1>10. \A q \in Requests : (at')[q] \in Unmade => (summary')[q] = summary[q]
  <2>1. \A q \in Requests : (at')[q] \in Unmade => at[q] \in Unmade
    BY <1>1 DEF Unmade
  <2>2. \A q \in Requests : at[q] \in Unmade => q # g
    BY DEF IInv, HelperInv
  <2>. QED
    BY <1>2, <1>4, <2>1, <2>2, Slots
<1>11. Moves(r)
  BY <1>1 DEF Moves, InTurn
<1>. QED
  BY <1>1, <1>2, <1>9, <1>10, <1>11, Moving

\* The other steps of a request say nothing and know nothing more.
LEMMA SilentHistory ==
  ASSUME IInv, TypeOK', HistoryInv, NEW r \in Requests,
         UNCHANGED <<saved, messages, summary>>, Moves(r),
         \A q \in Requests \ {r} : (at')[q] = at[q] /\ (helper')[q] = helper[q] /\
           (outcome')[q] = outcome[q]
  PROVE  HistoryInv'
<1>1. \A h \in Helpers : Known(h)' = Known(h)
  BY DEF Known
<1>. QED
  BY <1>1, Moving DEF IInv

LEMMA RequestHistory ==
  ASSUME IInv, TypeOK', HistoryInv, NEW r \in Requests, Request(r)
  PROVE  HistoryInv'
<1>. USE DEF helperVars, requestVars, Goto
<1>0. TypeOK
  BY DEF IInv
<1>1. CASE \/ Lookup(r) \/ Touch(r) \/ CreateFails(r) \/ HistoryFails(r)
           \/ \E table \in Tables : ReadHistory(r, table)
  <2>1. /\ UNCHANGED <<saved, messages, summary, outcome>> /\ at[r] \in {"start", "found",
             "creating"}
        /\ (at')[r] \in {"found", "creating", "ready", "done"} /\ ((at')[r] = "creating" =>
             at[r] = "start")
        /\ \A q \in Requests \ {r} : (at')[q] = at[q] /\ (helper')[q] = helper[q]
    BY <1>0, <1>1 DEF TypeOK, Lookup, Touch, ReadHistory, HistoryFails, CreateFails
  <2>2. Moves(r)
    BY <2>1 DEF Moves, Spoken, InTurn, After, Unmade
  <2>. QED
    BY <2>1, <2>2, SilentHistory
<1>2. CASE Insert(r) \/ Lock(r)
  BY <1>2, InsertHistory, LockHistory
<1>3. CASE \E table \in Tables \cup {<<>>} : Seed(r, table)
  BY <1>3, SeedHistory
<1>4. CASE \E keep \in KeepAtLeast .. KeepAtMost : Compress(r, keep)
  BY <1>4, CompressHistory
<1>5. CASE Snapshot(r) \/ NotCompressed(r) \/ \E some \in BOOLEAN : SetWarnings(r, some)
  <2>1. /\ UNCHANGED <<saved, messages, summary, outcome, helper>> /\ at[r] \in {"asked",
             "compressing", "generating"}
        /\ (at')[r] \in {"compressing", "prepared", "concluding"}
        /\ \A q \in Requests \ {r} : (at')[q] = at[q]
    BY <1>0, <1>5 DEF TypeOK, Snapshot, NotCompressed, SetWarnings
  <2>2. Moves(r)
    BY <2>1 DEF Moves, InTurn
  <2>. QED
    BY <2>1, <2>2, SilentHistory
<1>6. CASE \E how \in {"answer", "error", "asks"}, fails \in BOOLEAN : Generate(r, how, fails)
  <2>1. /\ UNCHANGED <<saved, messages, summary, helper>> /\ at[r] = "prepared" /\
             (at')[r] = "generating"
        /\ \A q \in Requests \ {r} : (at')[q] = at[q] /\ (outcome')[q] = outcome[q]
    BY <1>0, <1>6 DEF TypeOK, Generate
  <2>2. Moves(r)
    BY <2>1 DEF Moves, InTurn
  <2>. QED
    BY <2>1, <2>2, SilentHistory
<1>7. CASE Reject(r) \/ Fail(r)
  <2>1. /\ UNCHANGED <<saved, messages, summary, helper>> /\ at[r] \in {"prepared",
             "concluding"}
        /\ (at')[r] = "returned" /\ (outcome')[r] \in {"rejected", "error"}
        /\ \A q \in Requests \ {r} : (at')[q] = at[q] /\ (outcome')[q] = outcome[q]
    BY <1>0, <1>7 DEF TypeOK, Reject, Fail, Unlock
  <2>2. Moves(r)
    BY <2>1 DEF Moves, InTurn, After
  <2>. QED
    BY <2>1, <2>2, SilentHistory
<1>8. CASE Clarify(r) \/ Reply(r) \/ \E fails \in BOOLEAN : StreamCached(r, fails)
  <2>1. /\ at[r] \in {"prepared", "concluding"} /\ Unlock(r) /\ UNCHANGED <<summary, helper>>
        /\ Add(helper[r], Answer(r)) /\ \A q \in Requests \ {r} : (outcome')[q] = outcome[q]
    BY <1>0, <1>8 DEF TypeOK, Clarify, Reply, StreamCached
  <2>. QED
    BY <2>1, AnswerHistory DEF InTurn
<1>9. CASE \/ TakeClarify(r) \/ TakeWarnings(r) \/ StreamTakesWarnings(r)
           \/ StreamGone(r) \/ StreamTakesClarify(r)
  <2>1. /\ UNCHANGED <<saved, messages, summary, helper, outcome>> /\ at[r] \in {"returned",
             "took"}
        /\ (at')[r] \in {"took", "done"}
        /\ \A q \in Requests \ {r} : (at')[q] = at[q]
    BY <1>0, <1>9 DEF TypeOK, TakeClarify, TakeWarnings, StreamTakesWarnings, StreamGone,
       StreamTakesClarify
  <2>2. Moves(r)
    BY <2>1 DEF Moves, After
  <2>. QED
    BY <2>1, <2>2, SilentHistory
<1>. QED
  BY <1>1, <1>2, <1>3, <1>4, <1>5, <1>6, <1>7, <1>8, <1>9 DEF Request

LEMMA NextHistory ==
  ASSUME IInv, IInv', HistoryInv, [Next]_vars
  PROVE  HistoryInv'
<1>0. TypeOK /\ TypeOK'
  BY DEF IInv
<1>1. CASE \E r \in Requests : Request(r)
  BY <1>0, <1>1, RequestHistory
<1>2. CASE EvictIdle \/ (\E h \in Helpers : GoesIdle(h)) \/ UNCHANGED vars
  <2>1. UNCHANGED <<messages, summary, saved, at, helper, outcome>>
    BY <1>2 DEF EvictIdle, GoesIdle, vars, helperVars, requestVars
  <2>2. \A h \in Helpers : Known(h)' = Known(h)
    BY <2>1 DEF Known
  <2>. QED
    BY <1>0, <2>1, <2>2, Quiet
<1>. QED
  BY <1>1, <1>2 DEF Next, Over

LEMMA InitHistory == Init => HistoryInv
<1>. SUFFICES ASSUME Init
              PROVE  HistoryInv
  OBVIOUS
<1>0. TypeOK
  BY InitIInv DEF IInv
<1>1. \A h \in Helpers : Known(h) \in {<<>>, saved}
  <2>1. <<>> \o saved = saved /\ <<>> \o <<>> = <<>>
    BY <1>0, KnownType, ConcatEmptySeq, EmptySeq
  <2>. QED
    BY <2>1 DEF Init, Known
<1>2. \A h \in Helpers : Said(h) = {}
  BY ChatTurnAssumption DEF Init, Said, Message, Turns, Helpers, ChatTurnAssumption
<1>3. \A h \in Helpers : Own(h) = <<>> /\ Only(saved, Said(h)) = <<>>
  <2>1. \A s \in Seq(Message) : Only(s, {}) = <<>>
    BY OnlyNone
  <2>. QED
    BY <1>0, <1>2, <2>1, KnownType DEF Own
<1>4. NothingForgotten
  BY <1>1, <1>3, OnlyEmpty DEF NothingForgotten, Own
<1>5. TurnsInOrder /\ LastInv
  <2>1. \A h \in Helpers : Len(Own(h)) = 0
    BY <1>3
  <2>2. \A r \in Requests : at[r] \notin InTurn
    BY DEF Init, InTurn
  <2>. QED
    BY <2>1, <2>2, OrderIs DEF LastInv
<1>6. SpokenInv
  <2>1. \A i \in 1 .. Len(saved) : saved[i].turn = Old
    BY DEF Init, Question, Answer
  <2>. QED
    BY <1>1, <2>1 DEF SpokenInv
<1>7. FreshInv
  BY <1>0, Slots DEF Init, FreshInv
<1>. QED
  BY <1>4, <1>5, <1>6, <1>7 DEF HistoryInv

\* The history of a helper is whole turns in the order they were taken, and
\* compressing it, while requests come and go, forgets nothing (generation.go,
\* helper.go).
THEOREM HistoryStaysWhole == Spec => []HistoryWhole
<1>1. Init => HistoryInv
  BY InitHistory
<1>2. IInv /\ IInv' /\ HistoryInv /\ [Next]_vars => HistoryInv'
  BY NextHistory
<1>3. HistoryInv => HistoryWhole
  BY DEF HistoryInv, HistoryWhole
<1>. QED
  BY <1>1, <1>2, <1>3, InductiveInvariant, PTL DEF Spec

\* What a client has been told is known to the helper that told it.
LEMMA ToldIsKnown ==
  ASSUME IInv, HistoryInv
  PROVE  ToldIsKept
<1>. DEFINE kept(r, q) == Contains(saved, Answer(q)) /\ Contains(Known(helper[r]), Answer(q))
<1>1. ASSUME NEW r \in Requests, NEW q \in Requests, helper[r] \in Helpers, helper[q] = helper[r],
             Contains(saved, Answer(q))
      PROVE  kept(r, q)
  <2>. PICK h \in Helpers : h = helper[r]
    BY <1>1
  <2>1. Answer(q) \in Said(h)
    BY <1>1, ChatTurnAssumption DEF Answer, Said, Message, Turns, ChatTurnAssumption
  <2>2. Known(h) \in Seq(Message) /\ saved \in Seq(Message)
    BY KnownType DEF IInv
  <2>3. Only(Known(h), Said(h)) = Only(saved, Said(h))
    BY DEF HistoryInv, NothingForgotten
  <2>4. Contains(Only(saved, Said(h)), Answer(q))
    BY <1>1, <2>1, <2>2, OnlyKeeps
  <2>5. Contains(Known(h), Answer(q))
    BY <2>1, <2>2, <2>3, <2>4, OnlyKeeps
  <2>. QED
    BY <1>1, <2>5
<1>2. ASSUME NEW r \in Requests, got[r].reply = "answer" PROVE kept(r, r)
  <2>1. helper[r] \in Helpers /\ Contains(saved, Answer(r))
    BY <1>2, Slots DEF IInv, GotInv, ToldIsSaved
  <2>. QED
    BY <1>1, <2>1
<1>3. ASSUME NEW r \in Requests, got[r].reply = "clarify" PROVE kept(r, got[r].clarify)
  <2>1. /\ helper[r] \in Helpers /\ got[r].clarify \in Requests
        /\ helper[got[r].clarify] = helper[r] /\ Contains(saved, Answer(got[r].clarify))
    BY <1>3, Slots DEF IInv, GotInv, AskedOnce
  <2>. QED
    BY <1>1, <2>1
<1>. QED
  BY <1>2, <1>3 DEF ToldIsKept

\* A clarifying question or a warning lies on a helper only until the request
\* whose turn left it has come for it; a question is asked once, and whatever
\* a client is told was handed over to be saved and is known to the next turn
\* on that helper, however often its history was compressed.
THEOREM NothingIsMistaken == Spec => []NothingMistaken
<1>1. IInv /\ HistoryInv => NothingMistaken
  BY ToldIsKnown DEF IInv, NothingMistaken
<1>2. Init => HistoryInv
  BY InitHistory
<1>3. IInv /\ IInv' /\ HistoryInv /\ [Next]_vars => HistoryInv'
  BY NextHistory
<1>. QED
  BY <1>1, <1>2, <1>3, InductiveInvariant, PTL DEF Spec
=============================================================================
