------------------------------- MODULE Retrieval -------------------------------
(***************************************************************************)
(* What comes of the two searches of a turn: internal/rag/retrieve.go      *)
(* merges their rankings (RRF), and internal/llm/rag_support.go drops what *)
(* is too far from the question.  A document is its id; the vector search  *)
(* ranks by distance, so how many of its first are near enough says all of *)
(* the distances that matters.                                             *)
(***************************************************************************)
EXTENDS Places, Sequences, SequencesExt

CONSTANTS Docs,              \* ids
          TopK,              \* of the vector search, of the keyword search, of the merge
          K,                 \* of the score 1/(K + rank)
          FallbackTopN,      \* what is kept if nothing is near enough
          None

\* What both searches rank last comes before what one ranks first (5 and 60).
RetrievalAssumption == {TopK, K, FallbackTopN} \subseteq Nat \ {0} /\ TopK < K + 2

VARIABLES vec, near,         \* result of the vector search, how many of it are near enough
          kw,                \* result of the keyword search
          fused, kept        \* what RetrieveDocuments and filterByRelevance return, as far as built

searches == <<vec, near, kw>>
retrievalVars == <<searches, fused, kept>>

Rankings == UNION {{s \in [1 .. n -> Docs] : IsInjective(s)} : n \in 0 .. TopK}
Found == ToSet(vec) \cup ToSet(kw)

RetrievalTypeOK == /\ vec \in Rankings /\ kw \in Rankings /\ near \in 0 .. Len(vec)
                   /\ fused \in Rankings /\ kept \in Rankings \cup {None}

\* A search that fails, or has nothing to search for, finds nothing.
Init == /\ vec \in Rankings /\ kw \in Rankings /\ near \in 0 .. Len(vec)
        /\ fused = <<>> /\ kept = None
-----------------------------------------------------------------------------
(* rrf; a score is a fraction *)

RankIn(s, d) == CHOOSE i \in DOMAIN s : s[i] = d

\* Mutant: the first rank counts whole.
ScoreSteep(d) ==
  LET a == IF d \in ToSet(vec) THEN RankIn(vec, d) ELSE 0
      b == IF d \in ToSet(kw) THEN RankIn(kw, d) ELSE 0
  IN IF a = 0 THEN [num |-> 1, den |-> b] ELSE IF b = 0 THEN [num |-> 1, den |-> a]
     ELSE [num |-> a + b, den |-> a * b]

Score(d) ==
  LET a == K + IF d \in ToSet(vec) THEN RankIn(vec, d) ELSE 0
      b == K + IF d \in ToSet(kw) THEN RankIn(kw, d) ELSE 0
  IN IF d \notin ToSet(vec) THEN [num |-> 1, den |-> b] ELSE IF d \notin ToSet(kw) THEN [num |-> 1, den |-> a]
     ELSE [num |-> a + b, den |-> a * b]

Below(d, e) == Score(d).num * Score(e).den < Score(e).num * Score(d).den

Merged == Len(fused) = TopK \/ ToSet(fused) = Found

\* The best that is left; scores that are equal come in any order.
Merge(d) ==
  /\ kept = None /\ vec # <<>> /\ kw # <<>> /\ ~Merged
  /\ d \in Found \ ToSet(fused) /\ \A e \in Found \ ToSet(fused) : ~Below(d, e)
  /\ fused' = Append(fused, d)
  /\ UNCHANGED <<searches, kept>>

\* Only one search has found something.
TakeOne == /\ kept = None /\ (vec = <<>> \/ kw = <<>>) /\ fused # vec \o kw
           /\ fused' = vec \o kw
           /\ UNCHANGED <<searches, kept>>
-----------------------------------------------------------------------------
(* filterByRelevance *)

\* The copy of the keyword search replaces the other, and has no distance.
HasDistance(d) == d \notin ToSet(kw)

NearEnough(d) == ~HasDistance(d) \/ RankIn(vec, d) <= near

AllOf(s) == [i \in 1 .. (IF FallbackTopN < Len(s) THEN FallbackTopN ELSE Len(s)) |-> s[i]]

Filtered == LET places == InOrder({i \in DOMAIN fused : NearEnough(fused[i])})
            IN IF places # <<>> THEN [n \in DOMAIN places |-> fused[places[n]]] ELSE AllOf(fused)

Filter == /\ kept = None /\ Merged
          /\ kept' = Filtered
          /\ UNCHANGED <<searches, fused>>
-----------------------------------------------------------------------------
Next == (\E d \in Docs : Merge(d)) \/ TakeOne \/ Filter
-----------------------------------------------------------------------------
(***************************************************************************)
(* What both searches found comes before what one found, and is not cut    *)
(* off; what one found keeps its order.  The filter keeps every keyword    *)
(* hit; and if it would leave nothing, it keeps the nearest: the list it   *)
(* then cuts is the vector search's, ordered by distance (rag_support.go,  *)
(* "already in the order of the distance"), which a merged list is not.    *)
(***************************************************************************)
RetrievalSound ==
  LET both == ToSet(vec) \cap ToSet(kw)
      before(d, e) == /\ d \in ToSet(fused)
                      /\ e \in ToSet(fused) => RankIn(fused, d) < RankIn(fused, e)
  IN kept # None =>
       /\ \A d \in both, e \in Found \ both : before(d, e)
       /\ \A s \in {vec, kw} : \A i, j \in DOMAIN s :
            i < j /\ {s[i], s[j]} \cap both = {} => (s[j] \in ToSet(fused) => before(s[i], s[j]))
       /\ ToSet(kw) \cap ToSet(fused) \subseteq ToSet(kept)
       /\ near = 0 /\ ToSet(kw) \cap ToSet(fused) = {} => kept = AllOf(vec)
       /\ kept = <<>> => Found = {}
=============================================================================
