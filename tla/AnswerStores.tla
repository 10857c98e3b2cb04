----------------------------- MODULE AnswerStores -----------------------------
(***************************************************************************)
(* internal/cache from the inside: the exact cache (an LRU list), the      *)
(* refusals, and the entries of the semantic cache, each with a limit and  *)
(* a time to live of its own, behind Lookup and Store of the Coordinator.  *)
(* AnswerCache has the interleavings of these with uploads for one         *)
(* question; here there are several questions and a clock.                 *)
(*                                                                         *)
(* A key is a namespace and a question.  Whose vectors are close enough    *)
(* is given, and an embedding may fail.                                    *)
(***************************************************************************)
EXTENDS Places, Sequences, SequencesExt

CONSTANTS Keys,                  \* <<namespace, question>>
          Close,                 \* {question, question} at or above the threshold
          Streamed,              \* keys that are asked for by streams, too
          MaxWorking,            \* bound on generations under way
          MaxExact, MaxSemantic, \* entries
          ExactTTL, Jitter,      \* time to live, and how far it is moved
          RefusalTTL, RefusalJitter, SemanticTTL,
          MaxClock,              \* bound on the clock
          None

Entries == [key : Keys, made : Nat, expires : Nat]
Hits == [level : {"exact", "negative", "semantic"}, key : Keys, of : Keys, age : Nat]

StoresAssumption ==
  /\ {MaxExact, MaxSemantic, ExactTTL, RefusalTTL} \subseteq Nat \ {0}
  /\ {Jitter, RefusalJitter, SemanticTTL, MaxClock} \subseteq Nat
  /\ Jitter <= ExactTTL /\ RefusalJitter <= RefusalTTL
  /\ MaxWorking \in Nat /\ Streamed \subseteq Keys
  /\ \A k, l \in Keys : k[1] = l[1] /\ k[2] = l[2] => k = l
  /\ None \notin Nat /\ None \notin Hits

VARIABLES clock,
          exact,                 \* the list, the entry last used in front
          refused,               \* [key -> when its refusal expires, or None]
          semantic,              \* the entries, the oldest in front
          flights, streams,      \* [key -> generations under way: merged by Do, and streams]
          hit,                   \* what the last Lookup has given
          used,                  \* history: keys in the order of use, the last in front, but
                                 \*   for those found expired
          overlapped             \* history: keys of which two generations have overlapped, and
                                 \*   the last of them did not end with an answer

generations == <<flights, streams, overlapped>>
storesVars == <<clock, exact, refused, semantic, hit, used, generations>>

Working(k) == flights[k] + streams[k]

StoresTypeOK ==
  /\ clock \in 0 .. MaxClock
  /\ exact \in Seq(Entries) /\ semantic \in Seq([key : Keys, made : 0 .. clock])
  /\ refused \in [Keys -> Nat \cup {None}]
  /\ flights \in [Keys -> 0 .. 1] /\ streams \in [Keys -> Nat]
  /\ hit \in Hits \cup {None}
  /\ used \in Seq(Keys) /\ overlapped \subseteq Keys

Init == /\ clock = 0 /\ exact = <<>> /\ refused = [k \in Keys |-> None] /\ semantic = <<>>
        /\ flights = [k \in Keys |-> 0] /\ streams = flights /\ overlapped = {}
        /\ hit = None /\ used = <<>>

Tick == /\ clock < MaxClock /\ clock' = clock + 1 /\ hit' = None
        /\ UNCHANGED <<exact, refused, semantic, used, generations>>
-----------------------------------------------------------------------------
Listed(k) == \E i \in DOMAIN exact : exact[i].key = k
Place(k) == CHOOSE i \in DOMAIN exact : exact[i].key = k
Entry(k) == exact[Place(k)]
Without(k) == IF Listed(k) THEN RemoveAt(exact, Place(k)) ELSE exact
Live(k) == Listed(k) /\ clock <= Entry(k).expires
RefusalLive(k) == refused[k] # None /\ clock <= refused[k]

Unused(k) == IF \E i \in DOMAIN used : used[i] = k
             THEN RemoveAt(used, CHOOSE i \in DOMAIN used : used[i] = k) ELSE used
Forget(k) == used' = Unused(k)
Use(k) == used' = <<k>> \o Unused(k)

\* exactCache.Get: what has expired goes, what is found comes to the front.
GetExact(k) == /\ exact' = IF Live(k) THEN <<Entry(k)>> \o Without(k) ELSE Without(k)
               /\ IF Live(k) THEN Use(k) ELSE IF Listed(k) THEN Forget(k) ELSE UNCHANGED used

\* negativeCache.Get.
GetRefusal(k) == refused' = [refused EXCEPT ![k] = IF RefusalLive(k) THEN @ ELSE None]

\* The entries of the namespace that are alive and close enough.
Similar(k) == {i \in DOMAIN semantic :
  /\ semantic[i].key[1] = k[1] /\ clock - semantic[i].made <= SemanticTTL
  /\ semantic[i].key[2] = k[2] \/ {semantic[i].key[2], k[2]} \in Close}

\* The best of them: one of the question itself before any other, of equals the first.
Best(k) == LET own == {i \in Similar(k) : semantic[i].key = k}
               best == IF own = {} THEN Similar(k) ELSE own
           IN CHOOSE i \in best : \A j \in best : i <= j

UnderWay == FoldFunction(LAMBDA a, b : a + b, 0, [k \in Keys |-> Working(k)])

\* A generation begins; Do lets one request for a key generate, and the
\* others wait for it.
Begin(k, stream) ==
  /\ UnderWay < MaxWorking /\ (stream \/ flights[k] = 0)
  /\ flights' = IF stream THEN flights ELSE [flights EXCEPT ![k] = @ + 1]
  /\ streams' = IF stream THEN [streams EXCEPT ![k] = @ + 1] ELSE streams
  /\ overlapped' = IF Working(k) = 0 THEN overlapped \ {k} ELSE overlapped \cup {k}

\* Coordinator.Lookup, by Do or by a stream, which is not merged with others.
Lookup(k, stream, embeds) ==
  /\ GetExact(k)
  /\ IF Live(k) THEN UNCHANGED refused ELSE GetRefusal(k)
  /\ IF Live(k) THEN hit' = [level |-> "exact", key |-> k, of |-> k, age |-> clock - Entry(k).made]
     ELSE IF RefusalLive(k) THEN hit' = [level |-> "negative", key |-> k, of |-> k, age |-> 0]
     ELSE IF embeds /\ Similar(k) # {}
     THEN LET e == semantic[Best(k)]
          IN hit' = [level |-> "semantic", key |-> k, of |-> e.key, age |-> clock - e.made]
     ELSE hit' = None
  /\ IF hit' = None THEN Begin(k, stream) ELSE UNCHANGED generations
  /\ UNCHANGED <<clock, semantic>>

\* exactCache.Set: in front, and the last one goes if there are too many.
SetExact(k, ttl) ==
  LET entry == [key |-> k, made |-> clock, expires |-> clock + ttl]
      list == <<entry>> \o Without(k)
  IN /\ exact' = IF Len(list) > MaxExact THEN SubSeq(list, 1, MaxExact) ELSE list
     /\ Use(k)

\* semanticCache.Store: without the expired, and without the oldest if that is not enough.
SetSemantic(k) ==
  LET places == InOrder({i \in DOMAIN semantic : clock - semantic[i].made <= SemanticTTL})
      alive == [n \in DOMAIN places |-> semantic[places[n]]]
      room == IF Len(alive) >= MaxSemantic THEN Tail(alive) ELSE alive
  IN semantic' = Append(room, [key |-> k, made |-> clock])

\* Mutant: the refusal of before is not cleared.
ClearKept(k) == UNCHANGED refused

\* negativeCache.Clear.
Clear(k) == refused' = [refused EXCEPT ![k] = None]

End(k, stream) ==
  /\ IF stream THEN streams[k] > 0 /\ streams' = [streams EXCEPT ![k] = @ - 1] /\ UNCHANGED flights
     ELSE flights[k] > 0 /\ flights' = [flights EXCEPT ![k] = @ - 1] /\ UNCHANGED streams

\* Coordinator.Store of an answer.
StoreAnswer(k, stream, ttl, embeds) ==
  /\ End(k, stream)
  /\ SetExact(k, ttl)
  /\ IF embeds THEN SetSemantic(k) ELSE UNCHANGED semantic
  /\ Clear(k)
  /\ overlapped' = IF Working(k) = 1 THEN overlapped \ {k} ELSE overlapped
  /\ hit' = None /\ UNCHANGED clock

\* A refusal: the expired ones go first.
StoreRefusal(k, stream, ttl) ==
  /\ End(k, stream)
  /\ refused' = [x \in Keys |-> IF x = k THEN clock + ttl ELSE IF RefusalLive(x) THEN refused[x] ELSE None]
  /\ hit' = None /\ UNCHANGED <<clock, exact, semantic, used, overlapped>>

\* The generation fails, or its answer is empty: nothing is stored.
StoreNothing(k, stream) == /\ End(k, stream)
                           /\ hit' = None /\ UNCHANGED <<clock, exact, refused, semantic, used, overlapped>>
-----------------------------------------------------------------------------
Ask(k, stream) ==
  \/ \E embeds \in BOOLEAN :
       \/ Lookup(k, stream, embeds)
       \/ \E ttl \in ExactTTL - Jitter .. ExactTTL + Jitter : StoreAnswer(k, stream, ttl, embeds)
  \/ \E ttl \in RefusalTTL - RefusalJitter .. RefusalTTL + RefusalJitter : StoreRefusal(k, stream, ttl)
  \/ StoreNothing(k, stream)

Next == Tick \/ \E k \in Keys : Ask(k, FALSE) \/ (k \in Streamed /\ Ask(k, TRUE))
-----------------------------------------------------------------------------
(***************************************************************************)
(* The stores keep to their limits, and the exact cache has the questions  *)
(* that were used last, in that order.  A question is answered and refused *)
(* at one time only if two generations of it overlapped, which takes a     *)
(* stream (Do merges the others), and the last of them brought no answer.  *)
(* A hit is of the namespace that asked, of the question or a close one,   *)
(* and younger than its level allows (coordinator.go: refusals do not take *)
(* the place of answers).                                                  *)
(***************************************************************************)
StoresSound ==
  /\ Len(exact) <= MaxExact /\ Len(semantic) <= MaxSemantic
  /\ [i \in DOMAIN exact |-> exact[i].key] = SubSeq(used, 1, Len(exact))
  /\ \A k \in Keys : Live(k) /\ RefusalLive(k) => k \in overlapped
  /\ hit # None =>
       /\ hit.of[1] = hit.key[1]
       /\ hit.of = hit.key \/ (hit.level = "semantic" /\ {hit.of[2], hit.key[2]} \in Close)
       /\ hit.level = "exact" => hit.age <= ExactTTL + Jitter
       /\ hit.level = "semantic" => hit.age <= SemanticTTL
=============================================================================
