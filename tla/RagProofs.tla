------------------------------ MODULE RagProofs ------------------------------
(***************************************************************************)
(* Proofs about the answers of the RAG model: the answer caches beside     *)
(* uploads (AnswerCache), for any number of requests and uploads, and what *)
(* a turn is made of (Rag), for any number of turns, questions, documents  *)
(* and keys.                                                               *)
(*                                                                         *)
(* Of the two invariants of AnswerCache neither is inductive.  That one    *)
(* synchronous request generates follows from where the holder of the      *)
(* flight may stand.  That nothing old is cached needs the whole way of a  *)
(* document: from the directory, whose file uploads replace, through the   *)
(* RAGQuery a request has in hand and its answer, to the three caches,     *)
(* which each upload empties one after the other while late requests, and  *)
(* only they, fill them again.                                             *)
(*                                                                         *)
(* The parts of Rag share no state: AnsweringInv, StoresInv, SearchInv and *)
(* MemoryInv are inductive for one each, and are put together at the end.  *)
(***************************************************************************)
EXTENDS AnswerCache, Rag, Places, FiniteSetTheorems, SequenceTheorems, WellFoundedInduction, TLAPS

\* The places of a request that leads the flight for the question.
Leading == {"leading", "embeddingAgain", "querying", "building", "retrieving", "answering",
            "storing", "embeddingAnswer", "flown"}
\* The places only a synchronous request comes to.
Joined == {"joining", "waiting", "leading", "embeddingAgain", "flown"}

\* The flight belongs to the one synchronous request that generates.
FlightInv == /\ \A r \in Requests : flight = r <=> kind[r] = "sync" /\ at[r] \in Leading
             /\ \A r \in Requests : at[r] \in Joined => kind[r] = "sync"
             /\ \A r \in Requests : at[r] = "waiting" => flight # None

\* Before its generation has begun a request has no document.
Fresh == {"start", "embedding", "joining", "waiting", "leading", "embeddingAgain", "querying"}
UsingInv == \A r \in Requests : at[r] \in Fresh => using[r] = None

\* What is going to the semantic cache is no refusal.
NoRefusal == \A r \in Requests : at[r] = "embeddingAnswer" => ~answer[r].refusal

\* A request that has overlapped no upload runs while none is under way.
OverlapInv == \A r \in Busy : ~late[r] => Active = {}

\* What one of the uploads under way has purged comes back only from a request
\* that overlaps it.
Purged ==
  \A u \in Uploads :
    /\ upload[u] \in {"invalidated", "exactPurged", "negativePurged"} =>
         query = NoQuery \/ query.late
    /\ upload[u] \in {"exactPurged", "negativePurged"} => exact = NoAnswer \/ exact.late
    /\ upload[u] = "negativePurged" => negative = NoAnswer \/ negative.late

\* Once an upload of the last ones has succeeded, what is cached was late, or
\* was cached since with a document that is there; and a request that is not
\* late is about to cache such a thing.
There(document) == document \in files \cup {None}
Clean(e) == e.late \/ (Active = {} /\ e.era = batch /\ There(e.ver))
Current == renewed =>
  /\ query = NoQuery \/ query.late \/ (Active = {} /\ There(query.ver))
  /\ exact = NoAnswer \/ Clean(exact)
  /\ negative = NoAnswer \/ Clean(negative)
  /\ \A e \in semantic : Clean(e)
  /\ \A r \in Requests : ~late[r] =>
       /\ at[r] \in {"building", "retrieving", "answering"} => There(using[r])
       /\ at[r] \in {"storing", "embeddingAnswer"} => There(answer[r].ver)

IInv == /\ TypeOK
        /\ FlightInv
        /\ UsingInv
        /\ NoRefusal
        /\ OverlapInv
        /\ Purged
        /\ Current
-----------------------------------------------------------------------------
LEMMA InitIInv == Init => IInv
  BY AnswerCacheAssumption
     DEF AnswerCacheAssumption, Init, IInv, TypeOK, FlightInv, UsingInv, NoRefusal,
         OverlapInv, Purged, Current, Clean, There, Active, There, Active, Busy, Documents, NoQuery, NoAnswer, Answers,
         Leading, Joined

\* What is cached of an answer is the answer, with the mark of its request.
LEMMA EntryIs ==
  ASSUME TypeOK, NEW r \in Requests
  PROVE  /\ Entry(r) \in Answers
         /\ Entry(r).ver = answer[r].ver
         /\ Entry(r).refusal = answer[r].refusal
         /\ Entry(r).late = late[r]
         /\ Entry(r).era = batch
         /\ Entry(r) # NoAnswer
  BY AnswerCacheAssumption
     DEF TypeOK, Answers, Entry, NoAnswer, Documents, AnswerCacheAssumption

LEMMA NoAnswerType ==
  /\ NoAnswer \in Answers /\ ~NoAnswer.refusal
  /\ [NoAnswer EXCEPT !.from = "error"] \in Answers
  BY DEF NoAnswer, Answers

\* A request that finds an answer has got what was cached; else it goes on.
LEMMA LookupLocalIInv ==
  ASSUME IInv, NEW r \in Requests, LookupLocal(r)
  PROVE  IInv'
<1>. USE DEF IInv
<1>1. TypeOK'
  BY DEF TypeOK, LookupLocal, Goto, Hit, docVars, caches
<1>2. FlightInv'
  BY DEF TypeOK, FlightInv, Leading, Joined, LookupLocal, Goto, Hit
<1>3. UsingInv'
  BY DEF TypeOK, UsingInv, Fresh, LookupLocal, Goto, Hit
<1>4. NoRefusal'
  BY DEF TypeOK, NoRefusal, LookupLocal, Goto, Hit
<1>5. OverlapInv'
  BY DEF TypeOK, OverlapInv, Busy, Active, LookupLocal, Goto, Hit, docVars
<1>6. Current'
  BY DEF TypeOK, Current, Clean, There, Active, LookupLocal, Goto, Hit, docVars, caches
<1>7. Purged'
  BY DEF Purged, LookupLocal, docVars, caches
<1>. QED
  BY <1>1, <1>2, <1>3, <1>4, <1>5, <1>6, <1>7

LEMMA LookupSemanticIInv ==
  ASSUME IInv, NEW r \in Requests, LookupSemantic(r)
  PROVE  IInv'
<1>. USE DEF IInv
<1>1. TypeOK'
  BY DEF TypeOK, LookupSemantic, Goto, Hit, Missed, docVars, caches
<1>2. FlightInv'
  BY DEF TypeOK, FlightInv, Leading, Joined, LookupSemantic, Goto, Hit, Missed
<1>3. UsingInv'
  BY DEF TypeOK, UsingInv, Fresh, LookupSemantic, Goto, Hit
<1>4. NoRefusal'
  BY DEF TypeOK, NoRefusal, LookupSemantic, Goto, Hit, Missed
<1>5. OverlapInv'
  BY DEF TypeOK, OverlapInv, Busy, Active, LookupSemantic, Goto, Hit, docVars
<1>6. Current'
  BY DEF TypeOK, Current, Clean, There, Active, LookupSemantic, Goto, Hit, Missed, docVars, caches
<1>7. Purged'
  BY DEF Purged, LookupSemantic, docVars, caches
<1>. QED
  BY <1>1, <1>2, <1>3, <1>4, <1>5, <1>6, <1>7

\* The first request to join takes the flight, which nobody had.
LEMMA JoinIInv ==
  ASSUME IInv, NEW r \in Requests, Join(r)
  PROVE  IInv'
<1>. USE DEF IInv
<1>1. TypeOK'
  BY DEF TypeOK, Join, Goto, docVars, caches
<1>2. FlightInv'
  BY AnswerCacheAssumption
     DEF TypeOK, FlightInv, Leading, Joined, Join, Goto, AnswerCacheAssumption
<1>3. UsingInv'
  BY DEF TypeOK, UsingInv, Fresh, Join, Goto
<1>4. NoRefusal'
  BY DEF TypeOK, NoRefusal, Join, Goto
<1>5. OverlapInv'
  BY DEF TypeOK, OverlapInv, Busy, Active, Join, Goto, docVars
<1>6. Current'
  BY DEF TypeOK, Current, Clean, There, Active, Join, Goto, docVars, caches
<1>7. Purged'
  BY DEF Purged, Join, docVars, caches
<1>. QED
  BY <1>1, <1>2, <1>3, <1>4, <1>5, <1>6, <1>7

\* With the flight end all who waited for it.
LEMMA FlightEndsIInv ==
  ASSUME IInv, NEW r \in Requests, FlightEnds(r)
  PROVE  IInv'
<1>. USE DEF IInv
<1>1. FlightInv'
  BY AnswerCacheAssumption DEF FlightInv, Leading, Joined, FlightEnds, AnswerCacheAssumption
<1>2. UsingInv'
  BY DEF UsingInv, Fresh, FlightEnds
<1>3. NoRefusal'
  BY DEF TypeOK, NoRefusal, FlightEnds
<1>4. OverlapInv'
  BY DEF OverlapInv, Busy, Active, FlightEnds, docVars
<1>5. Current'
  BY DEF Current, Clean, There, Active, FlightEnds, docVars, caches
<1>6. TypeOK' /\ Purged'
  BY DEF TypeOK, Purged, FlightEnds, docVars, caches
<1>. QED
  BY <1>1, <1>2, <1>3, <1>4, <1>5, <1>6

\* A RAGQuery that is cached brings its mark with it.
LEMMA FindQueryIInv ==
  ASSUME IInv, NEW r \in Requests, FindQuery(r)
  PROVE  IInv'
<1>. USE DEF IInv
<1>1. TypeOK'
  BY DEF TypeOK, FindQuery, Goto, docVars, caches
<1>2. FlightInv'
  BY DEF TypeOK, FlightInv, Leading, Joined, FindQuery, Goto
<1>3. UsingInv'
  BY DEF TypeOK, UsingInv, Fresh, FindQuery, Goto
<1>4. NoRefusal'
  BY DEF TypeOK, NoRefusal, FindQuery, Goto
<1>5. OverlapInv'
  BY DEF TypeOK, OverlapInv, Busy, Active, FindQuery, Goto, docVars
<1>6. Current'
  BY DEF TypeOK, Current, Clean, There, Active, Fresh, FindQuery, Goto, docVars, caches, UsingInv
<1>7. Purged'
  BY DEF Purged, FindQuery, docVars, caches
<1>. QED
  BY <1>1, <1>2, <1>3, <1>4, <1>5, <1>6, <1>7

\* The directory is read: in a quiet moment it shows what is there.
LEMMA BuildQueryIInv ==
  ASSUME IInv, NEW r \in Requests, NEW document \in Documents, BuildQuery(r, document)
  PROVE  IInv'
<1>. USE DEF IInv
<1>1. TypeOK'
  BY DEF TypeOK, BuildQuery, Goto, docVars, caches
<1>2. FlightInv'
  BY DEF TypeOK, FlightInv, Leading, Joined, BuildQuery, Goto
<1>3. UsingInv'
  BY DEF TypeOK, UsingInv, Fresh, BuildQuery, Goto
<1>4. NoRefusal'
  BY DEF TypeOK, NoRefusal, BuildQuery, Goto
<1>5. OverlapInv'
  BY DEF TypeOK, OverlapInv, Busy, Active, BuildQuery, Goto, docVars
<1>6. Current'
  BY DEF TypeOK, Current, Clean, There, Active, BuildQuery, Goto, docVars, caches
<1>7. Purged'
  BY DEF Purged, BuildQuery, docVars, caches
<1>. QED
  BY <1>1, <1>2, <1>3, <1>4, <1>5, <1>6, <1>7

\* So is the file for a summary.
LEMMA ReadWholeIInv ==
  ASSUME IInv, NEW r \in Requests, NEW document \in Documents, ReadWhole(r, document)
  PROVE  IInv'
<1>. USE DEF IInv
<1>1. TypeOK'
  BY DEF TypeOK, ReadWhole, Goto, docVars, caches
<1>2. FlightInv'
  BY DEF TypeOK, FlightInv, Leading, Joined, ReadWhole, Goto
<1>3. UsingInv'
  BY DEF TypeOK, UsingInv, Fresh, ReadWhole, Goto
<1>4. NoRefusal'
  BY DEF TypeOK, NoRefusal, ReadWhole, Goto
<1>5. OverlapInv'
  BY DEF TypeOK, OverlapInv, Busy, Active, ReadWhole, Goto, docVars
<1>6. Current'
  BY DEF TypeOK, Current, Clean, There, Active, ReadWhole, Goto, docVars, caches
<1>7. Purged'
  BY DEF Purged, ReadWhole, docVars, caches
<1>. QED
  BY <1>1, <1>2, <1>3, <1>4, <1>5, <1>6, <1>7

\* An answer without documents is of no old one.
LEMMA WithoutDocumentsIInv ==
  ASSUME IInv, NEW r \in Requests, WithoutDocuments(r)
  PROVE  IInv'
<1>. USE DEF IInv
<1>1. TypeOK'
  BY DEF TypeOK, WithoutDocuments, Goto, docVars, caches
<1>2. FlightInv'
  BY DEF TypeOK, FlightInv, Leading, Joined, WithoutDocuments, Goto
<1>3. UsingInv'
  BY DEF TypeOK, UsingInv, Fresh, WithoutDocuments, Goto
<1>4. NoRefusal'
  BY DEF TypeOK, NoRefusal, WithoutDocuments, Goto
<1>5. OverlapInv'
  BY DEF TypeOK, OverlapInv, Busy, Active, WithoutDocuments, Goto, docVars
<1>6. Current'
  BY DEF TypeOK, Current, Clean, There, Active, WithoutDocuments, Goto, docVars, caches
<1>7. Purged'
  BY DEF Purged, WithoutDocuments, docVars, caches
<1>. QED
  BY <1>1, <1>2, <1>3, <1>4, <1>5, <1>6, <1>7

\* A request on its way that has overlapped no upload has them all to itself.
LEMMA LateOrAlone ==
  ASSUME IInv, NEW r \in Requests, at[r] \notin {"start", "done"}, ~late[r]
  PROVE  /\ Active = {}
         /\ \A u \in Uploads : upload[u] \in {"idle", "ended", "failed"}
  BY DEF IInv, OverlapInv, Busy, Active

\* What is inserted while an upload goes on is marked, by OverlapInv.
LEMMA InsertQueryIInv ==
  ASSUME IInv, NEW r \in Requests, InsertQuery(r)
  PROVE  IInv'
<1>. USE DEF IInv
<1>1. TypeOK'
  BY DEF TypeOK, InsertQuery, Goto, docVars
<1>2. FlightInv'
  BY DEF FlightInv, Leading, Joined, InsertQuery, Goto
<1>3. UsingInv'
  BY DEF TypeOK, UsingInv, Fresh, InsertQuery, Goto
<1>4. NoRefusal'
  BY DEF TypeOK, NoRefusal, InsertQuery, Goto
<1>5. OverlapInv'
  BY DEF TypeOK, OverlapInv, Busy, Active, InsertQuery, Goto, docVars
<1>. /\ at[r] = "building" /\ UNCHANGED <<docVars, exact, negative, semantic, answer>>
     /\ at' = [at EXCEPT ![r] = "retrieving"]
  BY DEF InsertQuery, Goto
<1>6. Purged'
  BY LateOrAlone DEF Purged, InsertQuery, docVars
<1>7. Current'
  <2>1. CASE query = NoQuery
    <3>1. query' = [ver |-> using[r], late |-> late[r]] /\ UNCHANGED <<using, late>>
      BY <2>1 DEF InsertQuery
    <3>2. renewed /\ ~late[r] => Active = {} /\ There(using[r])
      BY LateOrAlone DEF Current
    <3>3. renewed => query'.late \/ (Active = {} /\ There(query'.ver))
      BY <3>1, <3>2
    <3>. QED
      BY <3>1, <3>2, <3>3 DEF TypeOK, Current, Clean, There, Active, docVars
  <2>2. CASE query # NoQuery
    <3>1. /\ using' = [using EXCEPT ![r] = query.ver] /\ UNCHANGED query
          /\ late' = [late EXCEPT ![r] = @ \/ query.late]
      BY <2>2 DEF InsertQuery
    <3>2. renewed => query.late \/ There(query.ver)
      BY <2>2 DEF Current
    <3>. QED
      BY <3>1, <3>2 DEF TypeOK, Current, Clean, There, Active, docVars
  <2>. QED
    BY <2>1, <2>2
<1>. QED
  BY <1>1, <1>2, <1>3, <1>4, <1>5, <1>6, <1>7

LEMMA RetrieveIInv ==
  ASSUME IInv, NEW r \in Requests, Retrieve(r)
  PROVE  IInv'
<1>. USE DEF IInv
<1>1. TypeOK'
  BY DEF TypeOK, Retrieve, Goto, docVars, caches
<1>2. FlightInv'
  BY DEF FlightInv, Leading, Joined, Retrieve, Goto
<1>3. UsingInv'
  BY DEF UsingInv, Fresh, Retrieve, Goto
<1>4. NoRefusal'
  BY DEF TypeOK, NoRefusal, Retrieve, Goto
<1>5. OverlapInv'
  BY DEF OverlapInv, Busy, Active, Retrieve, Goto, docVars
<1>6. Current'
  BY DEF Current, Clean, There, Active, Retrieve, Goto, docVars, caches
<1>7. Purged'
  BY DEF Purged, Retrieve, docVars, caches
<1>. QED
  BY <1>1, <1>2, <1>3, <1>4, <1>5, <1>6, <1>7

LEMMA AnswerArrivesIInv ==
  ASSUME IInv, NEW r \in Requests, NEW b \in BOOLEAN, AnswerArrives(r, b)
  PROVE  IInv'
<1>. USE DEF IInv
<1>1. TypeOK'
  <2>1. [NoAnswer EXCEPT !.ver = using[r], !.refusal = b, !.from = "model"] \in Answers
    BY NoAnswerType DEF TypeOK, Answers
  <2>2. answer' \in [Requests -> Answers]
    BY <2>1 DEF TypeOK, AnswerArrives
  <2>. QED
    BY <2>2 DEF TypeOK, AnswerArrives, Goto, docVars, caches
<1>2. FlightInv'
  BY DEF FlightInv, Leading, Joined, AnswerArrives, Goto
<1>3. UsingInv'
  BY DEF UsingInv, Fresh, AnswerArrives, Goto
<1>4. NoRefusal'
  BY DEF TypeOK, NoRefusal, AnswerArrives, Goto
<1>5. OverlapInv'
  BY DEF OverlapInv, Busy, Active, AnswerArrives, Goto, docVars
<1>6. Current'
  BY DEF TypeOK, Current, Clean, There, Active, AnswerArrives, Goto, docVars, caches
<1>7. Purged'
  BY DEF Purged, AnswerArrives, docVars, caches
<1>. QED
  BY <1>1, <1>2, <1>3, <1>4, <1>5, <1>6, <1>7

LEMMA GenerationFailsIInv ==
  ASSUME IInv, NEW r \in Requests, GenerationFails(r)
  PROVE  IInv'
<1>. USE DEF IInv
<1>1. TypeOK'
  BY NoAnswerType DEF TypeOK, GenerationFails, Goto, Generated, docVars, caches
<1>2. FlightInv'
  BY DEF FlightInv, Leading, Joined, GenerationFails, Goto, Generated
<1>3. UsingInv'
  BY DEF UsingInv, Fresh, GenerationFails, Goto, Generated
<1>4. NoRefusal'
  BY DEF TypeOK, NoRefusal, GenerationFails, Goto, Generated
<1>5. OverlapInv'
  BY DEF OverlapInv, Busy, Active, GenerationFails, Goto, docVars
<1>6. Current'
  BY DEF Current, Clean, There, Active, GenerationFails, Goto, Generated, docVars, caches
<1>7. Purged'
  BY DEF Purged, GenerationFails, docVars, caches
<1>. QED
  BY <1>1, <1>2, <1>3, <1>4, <1>5, <1>6, <1>7

\* What is stored while an upload goes on is marked, by OverlapInv.
LEMMA StoreLocalIInv ==
  ASSUME IInv, NEW r \in Requests, StoreLocal(r)
  PROVE  IInv'
<1>. USE DEF IInv
<1>1. TypeOK'
  BY EntryIs DEF TypeOK, StoreLocal, Goto, Generated, docVars
<1>2. FlightInv'
  BY DEF TypeOK, FlightInv, Leading, Joined, StoreLocal, Goto, Generated
<1>3. UsingInv'
  BY DEF TypeOK, UsingInv, Fresh, StoreLocal, Goto, Generated
<1>4. NoRefusal'
  BY DEF TypeOK, NoRefusal, StoreLocal, Goto, Generated
<1>5. OverlapInv'
  BY DEF TypeOK, OverlapInv, Busy, Active, StoreLocal, Goto, docVars
<1>. /\ at[r] = "storing" /\ UNCHANGED <<docVars, query, semantic, using, answer, late>>
     /\ exact' \in {exact, Entry(r)} /\ negative' \in {negative, Entry(r)}
     /\ \E place \in {"embeddingAnswer", "flown", "done"} : at' = [at EXCEPT ![r] = place]
  BY DEF StoreLocal, Goto, Generated
<1>6. Purged'
  BY LateOrAlone, EntryIs DEF Purged, docVars
<1>7. Current'
  <2>1. renewed => Clean(Entry(r))
    BY LateOrAlone, EntryIs DEF Current, Clean
  <2>. QED
    BY <2>1 DEF TypeOK, Current, Clean, There, Active, docVars
<1>. QED
  BY <1>1, <1>2, <1>3, <1>4, <1>5, <1>6, <1>7

LEMMA StoreSemanticIInv ==
  ASSUME IInv, NEW r \in Requests, NEW b \in BOOLEAN, StoreSemantic(r, b)
  PROVE  IInv'
<1>. USE DEF IInv
<1>1. TypeOK'
  BY EntryIs, NoAnswerType DEF TypeOK, NoRefusal, StoreSemantic, Goto, Generated, docVars
<1>2. FlightInv'
  BY DEF FlightInv, Leading, Joined, StoreSemantic, Goto, Generated
<1>3. UsingInv'
  BY DEF UsingInv, Fresh, StoreSemantic, Goto, Generated
<1>4. NoRefusal'
  BY DEF TypeOK, NoRefusal, StoreSemantic, Goto, Generated
<1>5. OverlapInv'
  BY DEF OverlapInv, Busy, Active, StoreSemantic, Goto, docVars
<1>6. Current'
  <2>1. renewed => Clean(Entry(r))
    BY LateOrAlone, EntryIs DEF Current, Clean, StoreSemantic
  <2>2. /\ UNCHANGED <<docVars, query, exact, using, answer, late>>
        /\ negative' = NoAnswer /\ semantic' \subseteq semantic \cup {Entry(r)}
        /\ \E place \in {"flown", "done"} : at' = [at EXCEPT ![r] = place]
    BY DEF StoreSemantic, Goto, Generated
  <2>. QED
    BY <2>1, <2>2 DEF TypeOK, Current, Clean, There, Active, docVars
<1>7. Purged'
  BY DEF Purged, StoreSemantic, docVars
<1>. QED
  BY <1>1, <1>2, <1>3, <1>4, <1>5, <1>6, <1>7

\* What is left of the caches was there before.
LEMMA ExpireIInv ==
  ASSUME IInv, Expire
  PROVE  IInv'
<1>. USE DEF IInv
<1>1. TypeOK'
  BY NoAnswerType DEF TypeOK, Expire, docVars
<1>2. OverlapInv'
  BY DEF OverlapInv, Busy, Active, Expire, docVars
<1>3. Current'
  BY DEF Current, Clean, There, Active, Expire, docVars
<1>4. FlightInv' /\ UsingInv' /\ NoRefusal' /\ Purged'
  BY DEF FlightInv, UsingInv, NoRefusal, Purged, Expire, docVars
<1>. QED
  BY <1>1, <1>2, <1>3, <1>4

\* From here on whoever is on its way overlaps the upload.
LEMMA UploadBeginsIInv ==
  ASSUME IInv, NEW u \in Uploads, NEW gone \in SUBSET Documents, UploadBegins(u, gone)
  PROVE  IInv'
<1>. USE DEF IInv
<1>1. /\ late' \in [Requests -> BOOLEAN]
      /\ \A r \in Busy : late'[r]
      /\ \A r \in Requests : late[r] => late'[r]
  <2>1. late' = [r \in Requests |-> late[r] \/ r \in Busy] /\ Busy \subseteq Requests
    BY DEF UploadBegins, Busy
  <2>2. late \in [Requests -> BOOLEAN]
    BY DEF TypeOK
  <2>. QED
    BY <2>1, <2>2, Zenon
<1>2. /\ UNCHANGED <<files, query, exact, negative, semantic, flight, at, kind, using, answer>>
      /\ upload' = [upload EXCEPT ![u] = "removing"] /\ upload[u] = "idle"
  BY DEF UploadBegins, Stage, caches, uploadRest
<1>3. Busy' = Busy
  BY <1>2 DEF Busy
<1>4. TypeOK'
  <2>1. batch' \in Documents /\ renewed' \in BOOLEAN /\ indexed' \subseteq Documents
    BY DEF TypeOK, UploadBegins, Documents
  <2>. QED
    BY <1>1, <1>2, <2>1 DEF TypeOK
<1>5. OverlapInv'
  BY <1>1, <1>3 DEF OverlapInv
<1>6. Purged'
  BY <1>2 DEF Purged, TypeOK
<1>7. Current'
  <2>1. SUFFICES ASSUME renewed'
                 PROVE  Current'
    BY DEF Current
  <2>2. Active # {} /\ renewed /\ batch' = batch
    BY <2>1 DEF UploadBegins
  <2>3. /\ query = NoQuery \/ query.late
        /\ exact = NoAnswer \/ exact.late
        /\ negative = NoAnswer \/ negative.late
        /\ \A e \in semantic : e.late
    BY <2>2 DEF Current, Clean
  <2>4. \A r \in Requests : at[r] \notin {"start", "done"} => late'[r]
    BY <1>1 DEF Busy
  <2>. QED
    BY <1>2, <2>3, <2>4 DEF Current, Clean
<1>8. FlightInv' /\ UsingInv' /\ NoRefusal'
  BY <1>2 DEF FlightInv, UsingInv, NoRefusal
<1>. QED
  BY <1>4, <1>5, <1>6, <1>7, <1>8

\* While an upload is under way nothing that is not late is cached or in hand,
\* so that the files may come and go.
LEMMA UnderWay ==
  ASSUME IInv, Active # {}, renewed
  PROVE  /\ query = NoQuery \/ query.late
         /\ exact = NoAnswer \/ exact.late
         /\ negative = NoAnswer \/ negative.late
         /\ \A e \in semantic : e.late
         /\ \A r \in Busy : late[r]
  BY DEF IInv, Current, Clean, OverlapInv

\* A step of an upload that touches the files or the index, and no cache.
LEMMA FilesChange ==
  ASSUME IInv, NEW u \in Active, NEW stage, upload' = [upload EXCEPT ![u] = stage],
         stage \in {"removed", "written", "indexed", "failed"},
         files' \subseteq Documents, indexed' \subseteq Documents,
         UNCHANGED <<batch, renewed, caches, uploadRest, late>>
  PROVE  IInv'
<1>. USE DEF IInv
<1>1. /\ u \in Uploads /\ Active # {} /\ DOMAIN upload = Uploads
      /\ \A v \in Uploads : upload'[v] = IF v = u THEN stage ELSE upload[v]
  BY DEF Active, TypeOK
<1>2. TypeOK'
  BY DEF TypeOK, caches, uploadRest
<1>3. \A r \in Busy : late[r]
  BY <1>1 DEF OverlapInv
<1>4. OverlapInv'
  BY <1>3 DEF OverlapInv, Busy, uploadRest
<1>5. Purged'
  BY <1>1 DEF Purged, caches
<1>6. Current'
  <2>1. SUFFICES ASSUME renewed
                 PROVE  Current'
    BY DEF Current
  <2>2. \A r \in Requests : at[r] \notin {"start", "done"} => late[r]
    BY <1>3 DEF Busy
  <2>. QED
    BY <1>1, <2>1, <2>2, UnderWay DEF Current, Clean, caches, uploadRest
<1>7. FlightInv' /\ UsingInv' /\ NoRefusal'
  BY DEF FlightInv, UsingInv, NoRefusal, uploadRest
<1>. QED
  BY <1>2, <1>4, <1>5, <1>6, <1>7

LEMMA RemoveFilesIInv ==
  ASSUME IInv, NEW u \in Uploads, RemoveFiles(u)
  PROVE  IInv'
<1>1. u \in Active /\ indexed \subseteq Documents
  BY DEF RemoveFiles, Stage, Active, IInv, TypeOK
<1>. QED
  BY <1>1, FilesChange DEF RemoveFiles, Stage

LEMMA WriteFileIInv ==
  ASSUME IInv, NEW u \in Uploads, WriteFile(u)
  PROVE  IInv'
<1>1. /\ u \in Active /\ indexed \subseteq Documents
      /\ files \cup {u} \subseteq Documents
  BY DEF WriteFile, Stage, Active, IInv, TypeOK, Documents
<1>. QED
  BY <1>1, FilesChange DEF WriteFile, Stage

LEMMA IndexIInv ==
  ASSUME IInv, NEW u \in Uploads, Index(u)
  PROVE  IInv'
<1>1. /\ u \in Active /\ files \subseteq Documents
      /\ indexed \cup {u} \subseteq Documents
  BY DEF Index, Stage, Active, IInv, TypeOK, Documents
<1>. QED
  BY <1>1, FilesChange DEF Index, Stage

\* An upload that fails does not purge, and does not count as one that has.
LEMMA UploadFailsIInv ==
  ASSUME IInv, NEW u \in Uploads, NEW there \in SUBSET Documents, NEW built \in BOOLEAN,
         UploadFails(u, there, built)
  PROVE  IInv'
<1>1. /\ u \in Active /\ files' \subseteq Documents
      /\ indexed' \subseteq Documents
  BY DEF UploadFails, Active, IInv, TypeOK, Documents
<1>. QED
  BY <1>1, FilesChange DEF UploadFails

\* A purge: of the other caches nothing changes.
LEMMA InvalidateUserIInv ==
  ASSUME IInv, NEW u \in Uploads, InvalidateUser(u)
  PROVE  IInv'
<1>. USE DEF IInv
<1>1. TypeOK'
  BY DEF TypeOK, NoQuery, InvalidateUser, Stage, uploadRest
<1>2. u \in Active /\ u \in Active'
  BY DEF InvalidateUser, Stage, Active, TypeOK
<1>3. OverlapInv'
  BY <1>2 DEF OverlapInv, Busy, InvalidateUser, uploadRest
<1>4. Current'
  BY <1>2 DEF Current, Clean, There, InvalidateUser, uploadRest
<1>5. Purged'
  BY DEF Purged, TypeOK, InvalidateUser, Stage
<1>6. FlightInv' /\ UsingInv' /\ NoRefusal'
  BY DEF FlightInv, UsingInv, NoRefusal, InvalidateUser, uploadRest
<1>. QED
  BY <1>1, <1>3, <1>4, <1>5, <1>6

LEMMA PurgeExactIInv ==
  ASSUME IInv, NEW u \in Uploads, PurgeExact(u)
  PROVE  IInv'
<1>. USE DEF IInv
<1>1. TypeOK'
  BY NoAnswerType DEF TypeOK, PurgeExact, Stage, uploadRest
<1>2. u \in Active /\ u \in Active'
  BY DEF PurgeExact, Stage, Active, TypeOK
<1>3. OverlapInv'
  BY <1>2 DEF OverlapInv, Busy, PurgeExact, uploadRest
<1>4. Current'
  BY <1>2 DEF Current, Clean, There, PurgeExact, uploadRest
<1>5. Purged'
  BY DEF Purged, TypeOK, PurgeExact, Stage
<1>6. FlightInv' /\ UsingInv' /\ NoRefusal'
  BY DEF FlightInv, UsingInv, NoRefusal, PurgeExact, uploadRest
<1>. QED
  BY <1>1, <1>3, <1>4, <1>5, <1>6

LEMMA PurgeNegativeIInv ==
  ASSUME IInv, NEW u \in Uploads, PurgeNegative(u)
  PROVE  IInv'
<1>. USE DEF IInv
<1>1. TypeOK'
  BY NoAnswerType DEF TypeOK, PurgeNegative, Stage, uploadRest
<1>2. u \in Active /\ u \in Active'
  BY DEF PurgeNegative, Stage, Active, TypeOK
<1>3. OverlapInv'
  BY <1>2 DEF OverlapInv, Busy, PurgeNegative, uploadRest
<1>4. Current'
  BY <1>2 DEF Current, Clean, There, PurgeNegative, uploadRest
<1>5. Purged'
  BY DEF Purged, TypeOK, PurgeNegative, Stage
<1>6. FlightInv' /\ UsingInv' /\ NoRefusal'
  BY DEF FlightInv, UsingInv, NoRefusal, PurgeNegative, uploadRest
<1>. QED
  BY <1>1, <1>3, <1>4, <1>5, <1>6

\* The last purge: everything cached is marked.
LEMMA PurgeSemanticIInv ==
  ASSUME IInv, NEW u \in Uploads, PurgeSemantic(u)
  PROVE  IInv'
<1>. USE DEF IInv
<1>1. TypeOK'
  BY DEF TypeOK, PurgeSemantic, UploadEnds, Stage, uploadRest
<1>2. u \in Active
  BY DEF PurgeSemantic, UploadEnds, Stage, Active
<1>3. \A r \in Requests : at[r] \notin {"start", "done"} => late[r]
  BY <1>2 DEF OverlapInv, Busy
<1>4. OverlapInv'
  BY <1>3 DEF OverlapInv, Busy, PurgeSemantic, UploadEnds, uploadRest
<1>5. Current'
  BY <1>3 DEF Current, Clean, Purged, PurgeSemantic, UploadEnds, Stage, uploadRest
<1>6. Purged'
  BY DEF Purged, TypeOK, PurgeSemantic, UploadEnds, Stage
<1>7. FlightInv' /\ UsingInv' /\ NoRefusal'
  BY DEF FlightInv, UsingInv, NoRefusal, PurgeSemantic, UploadEnds, uploadRest
<1>. QED
  BY <1>1, <1>4, <1>5, <1>6, <1>7

LEMMA NextIInv == IInv /\ [Next]_vars => IInv'
<1>. SUFFICES ASSUME IInv, [Next]_vars
              PROVE  IInv'
  OBVIOUS
<1>1. ASSUME NEW r \in Requests, Request(r)
      PROVE  IInv'
  <2>1. CASE LookupLocal(r)
    BY <2>1, LookupLocalIInv
  <2>2. CASE LookupSemantic(r)
    BY <2>2, LookupSemanticIInv
  <2>3. CASE Join(r)
    BY <2>3, JoinIInv
  <2>4. CASE FlightEnds(r)
    BY <2>4, FlightEndsIInv
  <2>5. CASE FindQuery(r)
    BY <2>5, FindQueryIInv
  <2>6. CASE \E document \in Documents : BuildQuery(r, document) \/ ReadWhole(r, document)
    BY <2>6, BuildQueryIInv, ReadWholeIInv
  <2>7. CASE InsertQuery(r)
    BY <2>7, InsertQueryIInv
  <2>8. CASE Retrieve(r)
    BY <2>8, RetrieveIInv
  <2>13. CASE WithoutDocuments(r)
    BY <2>13, WithoutDocumentsIInv
  <2>9. CASE \E refusal \in BOOLEAN : AnswerArrives(r, refusal)
    BY <2>9, AnswerArrivesIInv
  <2>10. CASE GenerationFails(r)
    BY <2>10, GenerationFailsIInv
  <2>11. CASE StoreLocal(r)
    BY <2>11, StoreLocalIInv
  <2>12. CASE \E embedded \in BOOLEAN : StoreSemantic(r, embedded)
    BY <2>12, StoreSemanticIInv
  <2>. QED
    BY <1>1, <2>1, <2>2, <2>3, <2>4, <2>5, <2>6, <2>7, <2>8, <2>9, <2>10, <2>11, <2>12, <2>13
       DEF Request
<1>2. ASSUME NEW u \in Uploads, Upload(u)
      PROVE  IInv'
  <2>1. CASE \E gone \in SUBSET Documents : UploadBegins(u, gone)
    BY <2>1, UploadBeginsIInv
  <2>2. CASE RemoveFiles(u)
    BY <2>2, RemoveFilesIInv
  <2>3. CASE WriteFile(u)
    BY <2>3, WriteFileIInv
  <2>4. CASE Index(u)
    BY <2>4, IndexIInv
  <2>5. CASE \E there \in SUBSET Documents, built \in BOOLEAN : UploadFails(u, there, built)
    BY <2>5, UploadFailsIInv
  <2>6. CASE InvalidateUser(u)
    BY <2>6, InvalidateUserIInv
  <2>7. CASE PurgeExact(u)
    BY <2>7, PurgeExactIInv
  <2>8. CASE PurgeNegative(u)
    BY <2>8, PurgeNegativeIInv
  <2>9. CASE PurgeSemantic(u)
    BY <2>9, PurgeSemanticIInv
  <2>. QED
    BY <1>2, <2>1, <2>2, <2>3, <2>4, <2>5, <2>6, <2>7, <2>8, <2>9 DEF Upload
<1>3. CASE Expire
  BY <1>3, ExpireIInv
<1>4. CASE UNCHANGED vars
  BY <1>4
     DEF IInv, TypeOK, FlightInv, UsingInv, NoRefusal, OverlapInv, Busy, Active, Purged,
         Current, Clean, There, vars, docVars, caches
<1>5. CASE Over
  BY <1>4, <1>5 DEF Over
<1>. QED
  BY <1>1, <1>2, <1>3, <1>4, <1>5 DEF Next
-----------------------------------------------------------------------------
(* The theorems *)

\* Everything the invariant says holds in every state of every behaviour.
THEOREM InductiveInvariant == Spec => []IInv
<1>1. Init => IInv
  BY InitIInv
<1>2. IInv /\ [Next]_vars => IInv'
  BY NextIInv
<1>. QED
  BY <1>1, <1>2, PTL DEF Spec

\* The state of caches, flight and upload is of its type; a refusal is never in
\* the exact or the semantic cache, nor anything else in the negative one.
THEOREM TypeCorrect == Spec => []TypeOK
<1>1. IInv => TypeOK
  BY DEF IInv
<1>. QED
  BY <1>1, InductiveInvariant, PTL

\* However many requests ask the question at once, and whatever expires or is
\* purged under them, one of the synchronous ones generates, and those who wait
\* wait for a flight that is still on (Coordinator.Do).
THEOREM OneGenerates == Spec => []OneGeneration
<1>1. IInv => OneGeneration
  BY AnswerCacheAssumption
     DEF IInv, FlightInv, OneGeneration, Generating, Leading, TypeOK, AnswerCacheAssumption
<1>. QED
  BY <1>1, InductiveInvariant, PTL

\* When uploads are over of which one has succeeded, no cache holds anything
\* that was cached before them, nor, but from requests that overlapped one, an
\* answer or a RAGQuery of a document that is gone; whatever uploads overlap or
\* fail, and whether or not a search finds the documents (UploadRagFile,
\* InvalidateUser, InvalidateAll).
THEOREM NothingOldComesBack == Spec => []StaleOnlyFromOverlap
<1>1. IInv => StaleOnlyFromOverlap
  BY DEF IInv, Current, Clean, There, StaleOnlyFromOverlap, Outdated, Cached, NoQuery
<1>. QED
  BY <1>1, InductiveInvariant, PTL
-----------------------------------------------------------------------------
(* Numbers, orders and places, for the parts of Rag.                           *)

\* Arithmetic the solver does not find by itself.
LEMMA Monotone ==
  ASSUME NEW k \in Nat, NEW a \in Int, NEW b \in Int, a <= b
  PROVE  k * a <= k * b /\ k * (b - a) = k * b - k * a /\ k * (b - a) \in Nat
<1>1. b - a \in Nat
  OBVIOUS
<1>2. k * (b - a) \in Nat
  BY <1>1, SMT
<1>3. k * (b - a) = k * b - k * a
  BY SMT
<1>. QED
  BY <1>2, <1>3

\* Induction over the naturals, from the well-founded order of the library.
LEMMA Induction ==
  ASSUME NEW T, 0 \in T, \A n \in Nat : n \in T => n + 1 \in T
  PROVE  Nat \subseteq T
<1>. DEFINE R == OpToRel(<, Nat)
            U == Nat \ T
<1>1. SUFFICES ASSUME U # {} PROVE FALSE
  OBVIOUS
<1>2. PICK x \in U : \A y \in U : <<y, x>> \notin R
  BY <1>1, NatLessThanWellFounded, WFMin
<1>3. \A y \in U : ~(y < x)
  BY <1>2 DEF OpToRel
<1>4. x # 0 /\ x - 1 \in Nat /\ x - 1 < x
  OBVIOUS
<1>5. x - 1 \in T
  BY <1>3, <1>4
<1>. QED
  BY <1>4, <1>5

\* The members of T that stand below x.
Below(T, R, x) == {y \in T : <<y, x>> \in R}
\* A strict total order.
Ordered(T, R) ==
  /\ \A x \in T : <<x, x>> \notin R
  /\ \A x, y \in T : x # y => <<x, y>> \in R \/ <<y, x>> \in R
  /\ \A x, y, z \in T : <<x, y>> \in R /\ <<y, z>> \in R => <<x, z>> \in R

\* Of a finite set in strict order every place is taken, and by one member.
LEMMA Ranked ==
  ASSUME NEW T, IsFiniteSet(T), NEW R, Ordered(T, R)
  PROVE  /\ \A x \in T : Cardinality(Below(T, R, x)) \in 0 .. Cardinality(T) - 1
         /\ \A x, y \in T : <<x, y>> \in R =>
              Cardinality(Below(T, R, x)) < Cardinality(Below(T, R, y))
         /\ \A k \in 0 .. Cardinality(T) - 1 : \E x \in T : Cardinality(Below(T, R, x)) = k
<1>. DEFINE rank == [x \in T |-> Cardinality(Below(T, R, x))]
            n == Cardinality(T)
<1>1. n \in Nat
  BY FS_CardinalityType
<1>2. \A x \in T : IsFiniteSet(Below(T, R, x)) /\ Cardinality(Below(T, R, x)) \in Nat
  <2>. TAKE x \in T
  <2>1. Below(T, R, x) \in SUBSET T
    BY DEF Below
  <2>. QED
    BY <2>1, FS_Subset, FS_CardinalityType
<1>3. ASSUME NEW x \in T
      PROVE  Cardinality(Below(T, R, x)) \in 0 .. n - 1
  <2>1. Below(T, R, x) \in SUBSET T /\ x \notin Below(T, R, x)
    BY DEF Below, Ordered
  <2>2. Cardinality(Below(T, R, x)) <= n /\ Cardinality(Below(T, R, x)) # n
    BY <2>1, FS_Subset
  <2>. QED
    BY <1>1, <1>2, <2>2
<1>4. ASSUME NEW x \in T, NEW y \in T, <<x, y>> \in R
      PROVE  Cardinality(Below(T, R, x)) < Cardinality(Below(T, R, y))
  <2>1. /\ Below(T, R, x) \in SUBSET Below(T, R, y)
        /\ x \in Below(T, R, y) /\ x \notin Below(T, R, x)
    BY <1>4 DEF Below, Ordered
  <2>2. /\ Cardinality(Below(T, R, x)) <= Cardinality(Below(T, R, y))
        /\ Cardinality(Below(T, R, x)) # Cardinality(Below(T, R, y))
    BY <1>2, <2>1, FS_Subset
  <2>. QED
    BY <1>2, <2>2
<1>5. rank \in Injection(T, 0 .. n - 1)
  <2>1. rank \in [T -> 0 .. n - 1]
    BY <1>3
  <2>2. \A x, y \in T : x # y => rank[x] # rank[y]
    <3>. SUFFICES ASSUME NEW x \in T, NEW y \in T, x # y
                  PROVE  rank[x] # rank[y]
      OBVIOUS
    <3>1. <<x, y>> \in R \/ <<y, x>> \in R
      BY DEF Ordered
    <3>. QED
      BY <1>2, <1>4, <3>1
  <2>. QED
    BY <2>1, <2>2 DEF Injection, IsInjective
<1>6. IsFiniteSet(0 .. n - 1) /\ Cardinality(0 .. n - 1) = n
  BY <1>1, FS_Interval
<1>7. rank \in Surjection(T, 0 .. n - 1)
  BY <1>5, <1>6, FS_Injection
<1>8. \A k \in 0 .. n - 1 : \E x \in T : rank[x] = k
  BY <1>7 DEF Surjection
<1>. QED
  BY <1>3, <1>4, <1>8

\* InOrder lists every member once.
LEMMA InOrderOf ==
  ASSUME NEW m \in Nat, NEW D \in SUBSET (1 .. m)
  PROVE  /\ IsFiniteSet(D) /\ Cardinality(D) \in 0 .. m
         /\ DOMAIN InOrder(D) = 1 .. Cardinality(D) /\ Len(InOrder(D)) = Cardinality(D)
         /\ \A n \in 1 .. Cardinality(D) : InOrder(D)[n] \in D
         /\ \A n, k \in 1 .. Cardinality(D) : n # k => InOrder(D)[n] # InOrder(D)[k]
<1>. DEFINE R == {p \in D \X D : p[1] < p[2]}
            rank(i) == Cardinality({j \in D : j < i})
            place(n) == CHOOSE i \in D : rank(i) = n - 1
<1>5. InOrder(D) = [n \in 1 .. Cardinality(D) |-> place(n)]
  BY DEF InOrder
<1>1. IsFiniteSet(D) /\ Cardinality(D) \in 0 .. m
  <2>1. IsFiniteSet(1 .. m) /\ Cardinality(1 .. m) = m
    BY FS_Interval
  <2>2. IsFiniteSet(D) /\ Cardinality(D) <= m /\ Cardinality(D) \in Nat
    BY <2>1, FS_Subset, FS_CardinalityType
  <2>. QED
    BY <2>2
<1>. PICK c \in Nat : c = Cardinality(D)
  BY <1>1
<1>2. Ordered(D, R)
  <2>1. \A i, j \in D : <<i, j>> \in R <=> i < j
    OBVIOUS
  <2>. HIDE DEF R
  <2>. QED
    BY <2>1 DEF Ordered
<1>3. \A i \in D : rank(i) = Cardinality(Below(D, R, i))
  <2>1. \A i \in D : {j \in D : j < i} = Below(D, R, i)
    BY DEF Below
  <2>. QED
    BY <2>1
<1>. HIDE DEF R, rank
<1>4. \A n \in 1 .. c : \E i \in D : rank(i) = n - 1
  <2>1. \A k \in 0 .. c - 1 : \E i \in D : Cardinality(Below(D, R, i)) = k
    BY <1>1, <1>2, Ranked
  <2>2. \A n \in 1 .. c : n - 1 \in 0 .. c - 1
    OBVIOUS
  <2>. QED
    BY <1>3, <2>1, <2>2
<1>6. \A n \in 1 .. c : place(n) \in D /\ rank(place(n)) = n - 1
  BY <1>4
<1>. HIDE DEF place
<1>7. /\ DOMAIN InOrder(D) = 1 .. c /\ Len(InOrder(D)) = c
      /\ \A n \in 1 .. c : InOrder(D)[n] = place(n)
  BY <1>5
<1>8. \A n, k \in 1 .. c : n # k => place(n) # place(k)
  BY <1>6
<1>. QED
  BY <1>1, <1>6, <1>7, <1>8

-----------------------------------------------------------------------------
(* The intent of a question and the way to its answer (Intent, RagTurn). *)

\* What the components call the size of a set is the size of the set.
LEMMA AnsweringCounts ==
  \A S : (Answering!IsFiniteSet(S) <=> IsFiniteSet(S)) /\ Answering!Cardinality(S) = Cardinality(S)
  BY DEF Answering!IsFiniteSet, IsFiniteSet, Answering!Cardinality, Cardinality

LEMMA RulesAreSafe ==
  ASSUME NEW q \in Answering!Questions
  PROVE  Answering!RulesSafe(q)
<1>1. q.length \in Int
  BY DEF Answering!Questions, Answering!Lengths
<1>2. q.words \subseteq Answering!Lists
  BY DEF Answering!Questions
<1>3. "pronoun" \in q.words => Answering!Sure("question") # Answering!Sure("chat")
  BY DEF Answering!Sure
<1>. QED
  BY <1>1, <1>2 DEF Answering!RulesSafe, Answering!RuleIntent, Answering!ShouldRewrite, Answering!Has,
     Answering!IsMeta, Answering!WantsSummary, Answering!Sure, Answering!Unsure

\* A rule is sure of its intent or it is not.
LEMMA RuleIs ==
  ASSUME NEW q \in Answering!Questions
  PROVE  LET r == Answering!RuleIntent(q)
         IN /\ r.intent \in Answering!Intents /\ r.sure \in BOOLEAN
            /\ r.sure => r = Answering!Sure(r.intent)
  BY DEF Answering!RuleIntent, Answering!Sure, Answering!Unsure, Answering!Intents

Judged == {q \in Posed : cache[q] # Nothing}

\* What t is to do for its question was given by the rules or by a judgement
\* that was fresh; and the rules were not sure when the model is asked.
Decided(t) ==
  LET r == Answering!RuleIntent(question[t]) IN
  /\ turnAt[t] = "judging" => ~r.sure
  /\ intent[t] # Nothing /\ r.sure => intent[t] = r.intent
  /\ intent[t] # Nothing /\ ~r.sure => \E j \in judged : /\ j.question = question[t] /\ j.intent = intent[t]
                                                         /\ since[t] - j.at \in 0 .. VerdictTTL
  /\ turnAt[t] \notin {"new", "judging"} => intent[t] # Nothing

\* What t has on its way to the prompt.
OnItsWay(t) ==
  /\ turnAt[t] \in {"extracting", "retrieving"} /\ Answering!Has(question[t], "pronoun") =>
       rewritten[t] \/ "rewrite" \in failed[t]
  /\ prompt[t] = "documents" /\ Answering!Has(question[t], "pronoun") => rewritten[t] \/ "rewrite" \in failed[t]
  /\ prompt[t] = "plain" /\ failed[t] \cap {"query", "retrieve"} = {} =>
       \/ Answering!RuleIntent(question[t]) = Answering!Sure("chat")
       \/ \E j \in judged : j.question = question[t] /\ j.intent = "chat" /\ ~j.failed

AnsweringInv ==
  /\ Answering!RagTypeOK
  /\ IsFiniteSet(Judged)
  /\ \A q \in Judged : \E j \in judged : j.question = q /\ j.intent = cache[q].intent /\ j.at = cache[q].at
  /\ \A j \in judged : j.failed => j.intent = "question"
  /\ \A t \in RagTurns : Decided(t) /\ OnItsWay(t)

LEMMA AnsweringInit ==
  ASSUME Answering!RagAssumption, Answering!Init
  PROVE  AnsweringInv
<1>1. Judged = {}
  BY DEF Judged, Answering!Init
<1>2. IsFiniteSet(Judged) /\ Cardinality(Judged) = 0
  BY <1>1, FS_EmptySet
<1>3. Cardinality({q \in Posed : cache[q] # Nothing}) = 0
  BY <1>2 DEF Judged
<1>4. Answering!RagTypeOK
  BY <1>3, AnsweringCounts DEF Answering!Init, Answering!RagTypeOK, Answering!RagAssumption
<1>5. \A t \in RagTurns : Decided(t) /\ OnItsWay(t)
  BY DEF Answering!Init, Decided, OnItsWay
<1>. QED
  BY <1>1, <1>2, <1>4, <1>5 DEF AnsweringInv, Answering!Init

LEMMA AnsweringBound ==
  ASSUME Answering!RagAssumption, AnsweringInv
  PROVE  Answering!RagTypeOK /\ Answering!DocumentsUnlessLost /\ Answering!VerdictFresh
<1>1. Answering!DocumentsUnlessLost
  BY DEF AnsweringInv, OnItsWay, Answering!DocumentsUnlessLost
<1>2. Answering!VerdictFresh
  BY DEF AnsweringInv, Decided, Answering!VerdictFresh
<1>. QED
  BY <1>1, <1>2 DEF AnsweringInv

\* A step of t that leaves its intent alone, and does what is asked of it.
LEMMA MovesOn ==
  ASSUME AnsweringInv, NEW t \in RagTurns, UNCHANGED Answering!turnRest,
         turnAt[t] \notin {"new", "judging"},
         \E place \in {"querying", "rewriting", "extracting", "retrieving", "answering", "answered", "error"} :
           turnAt' = [turnAt EXCEPT ![t] = place],
         \/ UNCHANGED prompt
         \/ \E what \in {"plain", "summary", "documents"} : prompt' = [prompt EXCEPT ![t] = what],
         \/ UNCHANGED failed
         \/ \E step \in {"read", "query", "rewrite", "extract", "retrieve"} :
              failed' = [failed EXCEPT ![t] = @ \cup {step}],
         \/ UNCHANGED rewritten
         \/ \E again \in BOOLEAN : rewritten' = [rewritten EXCEPT ![t] = again],
         OnItsWay(t)'
  PROVE  AnsweringInv'
<1>1. UNCHANGED <<verdictClock, cache, question, history, intent, judged, since>>
  BY DEF Answering!turnRest, Answering!inputs
<1>2. Answering!RagTypeOK'
  <2>1. UNCHANGED Cardinality({q \in Posed : cache[q] # Nothing})
    BY <1>1
  <2>. QED
    BY <1>1, <2>1, AnsweringCounts DEF AnsweringInv, Answering!RagTypeOK
<1>3. \A s \in RagTurns : Decided(s)'
  BY <1>1 DEF AnsweringInv, Decided, Answering!RagTypeOK
<1>4. \A s \in RagTurns : s # t => OnItsWay(s)'
  BY <1>1 DEF AnsweringInv, OnItsWay, Answering!RagTypeOK
<1>. QED
  BY <1>1, <1>2, <1>3, <1>4 DEF AnsweringInv, Judged

\* The steps after the intent.
LEMMA RoutedInv ==
  ASSUME Answering!RagAssumption, AnsweringInv, NEW t \in RagTurns,
         \/ Answering!Summarise(t) \/ Answering!CannotRead(t) \/ Answering!Route(t)
         \/ Answering!Query(t) \/ Answering!NoQuery(t)
  PROVE  AnsweringInv'
<1>. DEFINE Steps == {"judge", "read", "query", "rewrite", "extract", "retrieve"}
<1>1. /\ turnAt \in [RagTurns -> {"new", "judging", "routing", "querying", "rewriting", "extracting",
                                  "retrieving", "answering", "answered", "error"}]
      /\ prompt \in [RagTurns -> {"none", "plain", "summary", "documents"}]
      /\ failed \in [RagTurns -> SUBSET Steps]
      /\ rewritten \in [RagTurns -> BOOLEAN]
      /\ Answering!RagTypeOK /\ Decided(t) /\ OnItsWay(t)
  BY DEF AnsweringInv, Answering!RagTypeOK
<1>. USE DEF Answering!Goto, Answering!Fails, Answering!AnswerFrom
<1>2. CASE Answering!Summarise(t)
  <2>1. OnItsWay(t)'
    BY <1>1, <1>2 DEF OnItsWay, Answering!Summarise, Answering!turnRest, Answering!inputs
  <2>. QED
    BY <1>1, <1>2, <2>1, MovesOn DEF Answering!Summarise
<1>3. CASE Answering!CannotRead(t)
  <2>1. OnItsWay(t)'
    BY <1>1, <1>3 DEF OnItsWay, Answering!CannotRead, Answering!turnRest, Answering!inputs
  <2>. QED
    BY <1>1, <1>3, <2>1, MovesOn DEF Answering!CannotRead
<1>4. CASE Answering!Route(t)
  <2>1. UNCHANGED <<question, judged, intent, rewritten, failed>>
    BY <1>4 DEF Answering!Route, Answering!turnRest, Answering!inputs
  <2>2. CASE intent[t] = "chat"
    <3>1. \/ Answering!RuleIntent(question[t]) = Answering!Sure("chat")
          \/ \E j \in judged : j.question = question[t] /\ j.intent = "chat" /\ ~j.failed
      <4>1. question[t] \in Answering!Questions
        BY <1>1 DEF Answering!RagTypeOK, Answering!RagAssumption
      <4>2. intent[t] # Nothing
        BY <1>1, <1>4 DEF Decided, Answering!Route
      <4>3. CASE Answering!RuleIntent(question[t]).sure
        BY <1>1, <2>2, <4>1, <4>2, <4>3, RuleIs DEF Decided
      <4>4. CASE ~Answering!RuleIntent(question[t]).sure
        <5>1. PICK j \in judged : j.question = question[t] /\ j.intent = "chat"
          BY <1>1, <2>2, <4>2, <4>4 DEF Decided
        <5>. QED
          BY <5>1 DEF AnsweringInv
      <4>. QED
        BY <4>3, <4>4
    <3>2. turnAt' = [turnAt EXCEPT ![t] = "answering"] /\ prompt' = [prompt EXCEPT ![t] = "plain"]
      BY <1>4, <2>2 DEF Answering!Route
    <3>3. OnItsWay(t)'
      BY <1>1, <2>1, <3>1, <3>2 DEF OnItsWay
    <3>. QED
      BY <1>1, <1>4, <3>2, <3>3, MovesOn DEF Answering!Route
  <2>3. CASE intent[t] # "chat"
    <3>2. turnAt' = [turnAt EXCEPT ![t] = "querying"] /\ UNCHANGED prompt
      BY <1>4, <2>3 DEF Answering!Route
    <3>3. OnItsWay(t)'
      BY <1>1, <2>1, <3>2 DEF OnItsWay
    <3>. QED
      BY <1>1, <1>4, <3>2, <3>3, MovesOn DEF Answering!Route
  <2>. QED
    BY <2>2, <2>3
<1>5. CASE Answering!Query(t)
  <2>1. OnItsWay(t)'
    BY <1>1, <1>5 DEF OnItsWay, Answering!Query, Answering!turnRest, Answering!inputs
  <2>. QED
    BY <1>1, <1>5, <2>1, MovesOn DEF Answering!Query
<1>6. CASE Answering!NoQuery(t)
  <2>1. OnItsWay(t)'
    BY <1>1, <1>6 DEF OnItsWay, Answering!NoQuery, Answering!turnRest, Answering!inputs
  <2>. QED
    BY <1>1, <1>6, <2>1, MovesOn DEF Answering!NoQuery
<1>. QED
  BY <1>2, <1>3, <1>4, <1>5, <1>6

\* The steps of the search, and the answer.
LEMMA SearchedInv ==
  ASSUME Answering!RagAssumption, AnsweringInv, NEW t \in RagTurns,
         \/ Answering!Rewrite(t) \/ Answering!RewriteFails(t) \/ Answering!Extract(t) \/ Answering!ExtractFails(t)
         \/ Answering!Retrieve(t) \/ Answering!RetrieveNothing(t) \/ Answering!Answer(t) \/ Answering!AnswerFails(t)
  PROVE  AnsweringInv'
<1>. DEFINE Steps == {"judge", "read", "query", "rewrite", "extract", "retrieve"}
<1>1. /\ turnAt \in [RagTurns -> {"new", "judging", "routing", "querying", "rewriting", "extracting",
                                  "retrieving", "answering", "answered", "error"}]
      /\ prompt \in [RagTurns -> {"none", "plain", "summary", "documents"}]
      /\ failed \in [RagTurns -> SUBSET Steps]
      /\ rewritten \in [RagTurns -> BOOLEAN]
      /\ Answering!RagTypeOK /\ Decided(t) /\ OnItsWay(t)
  BY DEF AnsweringInv, Answering!RagTypeOK
<1>. USE DEF Answering!Goto, Answering!Fails, Answering!AnswerFrom
<1>2. CASE Answering!Rewrite(t)
  <2>1. Answering!ShouldRewrite(question[t], history[t]) \in BOOLEAN
    BY DEF Answering!ShouldRewrite
  <2>2. OnItsWay(t)'
    BY <1>1, <1>2 DEF OnItsWay, Answering!Rewrite, Answering!turnRest, Answering!inputs, Answering!ShouldRewrite
  <2>. QED
    BY <1>1, <1>2, <2>1, <2>2, MovesOn DEF Answering!Rewrite
<1>3. CASE Answering!RewriteFails(t)
  <2>1. OnItsWay(t)'
    BY <1>1, <1>3 DEF OnItsWay, Answering!RewriteFails, Answering!turnRest, Answering!inputs
  <2>. QED
    BY <1>1, <1>3, <2>1, MovesOn DEF Answering!RewriteFails
<1>4. CASE Answering!Extract(t)
  <2>1. OnItsWay(t)'
    BY <1>1, <1>4 DEF OnItsWay, Answering!Extract, Answering!turnRest, Answering!inputs
  <2>. QED
    BY <1>1, <1>4, <2>1, MovesOn DEF Answering!Extract
<1>5. CASE Answering!ExtractFails(t)
  <2>1. OnItsWay(t)'
    BY <1>1, <1>5 DEF OnItsWay, Answering!ExtractFails, Answering!turnRest, Answering!inputs
  <2>. QED
    BY <1>1, <1>5, <2>1, MovesOn DEF Answering!ExtractFails
<1>6. CASE Answering!Retrieve(t)
  <2>1. OnItsWay(t)'
    BY <1>1, <1>6 DEF OnItsWay, Answering!Retrieve, Answering!turnRest, Answering!inputs
  <2>. QED
    BY <1>1, <1>6, <2>1, MovesOn DEF Answering!Retrieve
<1>7. CASE Answering!RetrieveNothing(t)
  <2>1. OnItsWay(t)'
    BY <1>1, <1>7 DEF OnItsWay, Answering!RetrieveNothing, Answering!turnRest, Answering!inputs
  <2>. QED
    BY <1>1, <1>7, <2>1, MovesOn DEF Answering!RetrieveNothing
<1>8. CASE Answering!Answer(t)
  <2>1. OnItsWay(t)'
    BY <1>1, <1>8 DEF OnItsWay, Answering!Answer, Answering!turnRest, Answering!inputs
  <2>. QED
    BY <1>1, <1>8, <2>1, MovesOn DEF Answering!Answer
<1>9. CASE Answering!AnswerFails(t)
  <2>1. OnItsWay(t)'
    BY <1>1, <1>9 DEF OnItsWay, Answering!AnswerFails, Answering!turnRest, Answering!inputs
  <2>. QED
    BY <1>1, <1>9, <2>1, MovesOn DEF Answering!AnswerFails
<1>. QED
  BY <1>2, <1>3, <1>4, <1>5, <1>6, <1>7, <1>8, <1>9

\* A turn has its intent, from the rules, the cache or the model.
LEMMA DecideInv ==
  ASSUME Answering!RagAssumption, AnsweringInv, NEW t \in RagTurns, NEW result \in Answering!Intents,
         Answering!Decide(t, result), UNCHANGED <<verdictClock, question, history, rewritten, prompt>>,
         judged \subseteq judged',
         \/ UNCHANGED failed
         \/ failed' = [failed EXCEPT ![t] = @ \cup {"judge"}],
         Answering!RagTypeOK', IsFiniteSet(Judged'),
         \A q \in Judged' : \E j \in judged' : j.question = q /\ j.intent = cache'[q].intent /\ j.at = cache'[q].at,
         \A j \in judged' : j.failed => j.intent = "question",
         LET r == Answering!RuleIntent(question[t])
         IN IF r.sure THEN result = r.intent
            ELSE \E j \in judged' : /\ j.question = question[t] /\ j.intent = result
                                    /\ verdictClock - j.at \in 0 .. VerdictTTL
  PROVE  AnsweringInv'
<1>1. /\ intent' = [intent EXCEPT ![t] = result] /\ since' = [since EXCEPT ![t] = verdictClock]
      /\ turnAt' = [turnAt EXCEPT ![t] = "routing"]
  BY DEF Answering!Decide, Answering!Goto
<1>2. \A s \in RagTurns : Decided(s)'
  <2>. SUFFICES ASSUME NEW s \in RagTurns
                PROVE  Decided(s)'
    OBVIOUS
  <2>1. Decided(s) /\ Answering!RagTypeOK
    BY DEF AnsweringInv
  <2>2. CASE s # t
    BY <1>1, <2>1, <2>2 DEF Decided, Answering!RagTypeOK
  <2>3. CASE s = t
    <3>1. intent'[t] = result /\ since'[t] = verdictClock /\ turnAt'[t] = "routing" /\ question'[t] = question[t]
      BY <1>1, <2>1 DEF Answering!RagTypeOK
    <3>2. result # Nothing
      BY DEF Answering!RagAssumption
    <3>. QED
      BY <2>3, <3>1, <3>2 DEF Decided
  <2>. QED
    BY <2>2, <2>3
<1>3. \A s \in RagTurns : OnItsWay(s)'
  BY <1>1 DEF AnsweringInv, OnItsWay, Answering!RagTypeOK
<1>. QED
  BY <1>2, <1>3 DEF AnsweringInv, Judged

LEMMA ClassifyInv ==
  ASSUME Answering!RagAssumption, AnsweringInv, NEW t \in RagTurns, Answering!Classify(t)
  PROVE  AnsweringInv'
<1>. DEFINE q == question[t]
            r == Answering!RuleIntent(q)
<1>1. Answering!RagTypeOK /\ Decided(t) /\ OnItsWay(t) /\ q \in Posed /\ q \in Answering!Questions
  BY DEF AnsweringInv, Answering!RagTypeOK, Answering!RagAssumption
<1>2. r.sure \in BOOLEAN /\ r.intent \in Answering!Intents
  BY <1>1, RuleIs
<1>3. turnAt[t] = "new" /\ UNCHANGED <<verdictClock, question, history, rewritten, prompt, failed, judged>>
  BY DEF Answering!Classify, Answering!inputs
<1>4. CASE UNCHANGED cache /\ \E result \in Answering!Intents : Answering!Decide(t, result)
  <2>1. PICK result \in Answering!Intents : Answering!Decide(t, result)
    BY <1>4
  <2>2. Judged' = Judged
    BY <1>4 DEF Judged
  <2>3. UNCHANGED Cardinality({p \in Posed : cache[p] # Nothing})
    BY <1>4
  <2>4. Answering!RagTypeOK'
    BY <1>1, <1>3, <1>4, <2>1, <2>3, AnsweringCounts
       DEF Answering!RagTypeOK, Answering!Decide, Answering!Goto
  <2>5. IF r.sure THEN result = r.intent
        ELSE \E j \in judged' : /\ j.question = q /\ j.intent = result
                                /\ verdictClock - j.at \in 0 .. VerdictTTL
    <3>1. intent'[t] = result
      BY <1>1, <2>1 DEF Answering!Decide, Answering!RagTypeOK
    <3>2. CASE r.sure
      <4>1. Answering!Decide(t, r.intent)
        BY <3>2 DEF Answering!Classify
      <4>2. intent'[t] = r.intent
        BY <1>1, <4>1 DEF Answering!Decide, Answering!RagTypeOK
      <4>. QED
        BY <3>1, <3>2, <4>2
    <3>3. CASE ~r.sure /\ cache[q] # Nothing /\ ~Answering!Expired(q)
      <4>1. Answering!Decide(t, cache[q].intent)
        BY <3>3 DEF Answering!Classify
      <4>2. result = cache[q].intent
        BY <1>1, <3>1, <4>1 DEF Answering!Decide, Answering!RagTypeOK
      <4>3. PICK j \in judged : j.question = q /\ j.intent = cache[q].intent /\ j.at = cache[q].at
        BY <1>1, <3>3 DEF AnsweringInv, Judged
      <4>4. verdictClock - cache[q].at \in 0 .. VerdictTTL
        <5>1. cache[q].at \in Nat /\ cache[q].at <= verdictClock /\ verdictClock \in Nat
          BY <1>1, <3>3 DEF Answering!RagTypeOK, Answering!Verdicts, Answering!RagAssumption
        <5>2. VerdictTTL \in Nat
          BY DEF Answering!RagAssumption
        <5>. QED
          BY <3>3, <5>1, <5>2 DEF Answering!Expired
      <4>. QED
        BY <1>3, <3>3, <4>2, <4>3, <4>4
    <3>4. CASE ~r.sure /\ ~(cache[q] # Nothing /\ ~Answering!Expired(q))
      <4>1. turnAt' = [turnAt EXCEPT ![t] = "judging"]
        BY <3>4 DEF Answering!Classify, Answering!Goto
      <4>2. turnAt' = [turnAt EXCEPT ![t] = "routing"]
        BY <2>1 DEF Answering!Decide, Answering!Goto
      <4>. QED
        BY <1>1, <4>1, <4>2 DEF Answering!RagTypeOK
    <3>. QED
      BY <1>2, <3>2, <3>3, <3>4
  <2>6. /\ IsFiniteSet(Judged') /\ \A j \in judged' : j.failed => j.intent = "question"
        /\ \A p \in Judged' : \E j \in judged' : j.question = p /\ j.intent = cache'[p].intent /\ j.at = cache'[p].at
    BY <1>3, <1>4, <2>2 DEF AnsweringInv
  <2>. QED
    BY <1>3, <2>1, <2>4, <2>5, <2>6, DecideInv
<1>5. CASE ~r.sure /\ cache' = [cache EXCEPT ![q] = Nothing] /\ Answering!Goto(t, "judging") /\ UNCHANGED <<intent, since>>
  <2>1. /\ Judged' \subseteq Judged /\ \A p \in Judged' : cache'[p] = cache[p]
    BY <1>1, <1>5 DEF Judged, Answering!RagTypeOK
  <2>2. IsFiniteSet(Judged') /\ Cardinality(Judged') <= Cardinality(Judged)
    BY <2>1, FS_Subset DEF AnsweringInv
  <2>3. Cardinality(Judged) <= MaxVerdicts /\ Cardinality(Judged) \in Nat /\ Cardinality(Judged') \in Nat
    BY <1>1, <2>2, AnsweringCounts, FS_CardinalityType DEF Answering!RagTypeOK, AnsweringInv, Judged
  <2>4. Cardinality({p \in Posed : cache'[p] # Nothing}) <= MaxVerdicts
    BY <2>2, <2>3 DEF Judged, Answering!RagAssumption
  <2>5. Answering!RagTypeOK'
    BY <1>1, <1>3, <1>5, <2>4, AnsweringCounts DEF Answering!RagTypeOK, Answering!Goto
  <2>6. \A s \in RagTurns : Decided(s)'
    BY <1>1, <1>3, <1>5 DEF AnsweringInv, Decided, Answering!RagTypeOK, Answering!Goto
  <2>7. \A s \in RagTurns : OnItsWay(s)'
    BY <1>1, <1>3, <1>5 DEF AnsweringInv, OnItsWay, Answering!RagTypeOK, Answering!Goto
  <2>. QED
    BY <1>3, <2>1, <2>2, <2>5, <2>6, <2>7 DEF AnsweringInv
<1>6. cache[q] # Nothing => cache[q].intent \in Answering!Intents
  BY <1>1 DEF Answering!RagTypeOK, Answering!Verdicts
<1>. QED
  BY <1>2, <1>4, <1>5, <1>6 DEF Answering!Classify

\* What the model says, or what stands for it, is remembered.
LEMMA JudgedInv ==
  ASSUME Answering!RagAssumption, AnsweringInv, NEW t \in RagTurns, NEW result \in Answering!Intents,
         NEW fails \in BOOLEAN, fails => result = "question", turnAt[t] = "judging",
         Answering!Decide(t, result), Answering!Remember(question[t], result), Answering!Note(t, result, fails),
         UNCHANGED <<verdictClock, question, history, rewritten, prompt>>,
         \/ UNCHANGED failed
         \/ failed' = [failed EXCEPT ![t] = @ \cup {"judge"}]
  PROVE  AnsweringInv'
<1>. DEFINE q == question[t]
            new == [question |-> q, intent |-> result, at |-> verdictClock, failed |-> fails]
            full == Cardinality(Judged) >= MaxVerdicts
<1>1. Answering!RagTypeOK /\ Decided(t) /\ q \in Posed /\ verdictClock \in Nat
  BY DEF AnsweringInv, Answering!RagTypeOK, Answering!RagAssumption
<1>2. judged' = judged \cup {new}
  BY DEF Answering!Note
<1>3. cache' = [p \in Posed |-> IF p = q THEN [intent |-> result, at |-> verdictClock]
                               ELSE IF full THEN Nothing ELSE cache[p]]
  BY AnsweringCounts DEF Answering!Remember, Judged
<1>4. MaxVerdicts \in Nat /\ MaxVerdicts >= 1 /\ VerdictTTL \in Nat
  BY DEF Answering!RagAssumption
<1>5. [intent |-> result, at |-> verdictClock] \in Answering!Verdicts
  BY <1>1 DEF Answering!Verdicts
<1>6. [intent |-> result, at |-> verdictClock] # Nothing
  BY <1>5 DEF Answering!RagAssumption
<1>7. Judged' = IF full THEN {q} ELSE Judged \cup {q}
  BY <1>1, <1>3, <1>6 DEF Judged
<1>8. IsFiniteSet(Judged') /\ Cardinality(Judged') <= MaxVerdicts
  <2>1. CASE full
    BY <1>4, <1>7, <2>1, FS_Singleton
  <2>2. CASE ~full
    <3>1. IsFiniteSet(Judged) /\ Cardinality(Judged) \in Nat
      BY FS_CardinalityType DEF AnsweringInv
    <3>2. IsFiniteSet(Judged \cup {q}) /\ Cardinality(Judged \cup {q}) <= Cardinality(Judged) + 1
      BY <3>1, FS_AddElement
    <3>3. Cardinality(Judged \cup {q}) \in Nat
      BY <3>2, FS_CardinalityType
    <3>. QED
      BY <1>4, <1>7, <2>2, <3>1, <3>2, <3>3
  <2>. QED
    BY <2>1, <2>2
<1>9. Answering!RagTypeOK'
  <2>1. Cardinality({p \in Posed : cache'[p] # Nothing}) <= MaxVerdicts
    BY <1>8 DEF Judged
  <2>2. cache' \in [Posed -> Answering!Verdicts \cup {Nothing}]
    BY <1>1, <1>3, <1>5 DEF Answering!RagTypeOK
  <2>3. \A p \in Posed : cache'[p] # Nothing => cache'[p].at <= verdictClock
    BY <1>1, <1>3 DEF Answering!RagTypeOK
  <2>4. new \in [question : Posed, intent : Answering!Intents, at : 0 .. verdictClock, failed : BOOLEAN]
    BY <1>1
  <2>5. judged' \subseteq [question : Posed, intent : Answering!Intents, at : 0 .. verdictClock, failed : BOOLEAN]
    BY <1>1, <1>2, <2>4 DEF Answering!RagTypeOK
  <2>6. /\ intent' = [intent EXCEPT ![t] = result] /\ since' = [since EXCEPT ![t] = verdictClock]
        /\ turnAt' = [turnAt EXCEPT ![t] = "routing"]
    BY DEF Answering!Decide, Answering!Goto
  <2>7. failed' \in [RagTurns -> SUBSET {"judge", "read", "query", "rewrite", "extract", "retrieve"}]
    BY <1>1 DEF Answering!RagTypeOK
  <2>8. /\ since' \in [RagTurns -> 0 .. verdictClock] /\ intent' \in [RagTurns -> Answering!Intents \cup {Nothing}]
        /\ turnAt' \in [RagTurns -> {"new", "judging", "routing", "querying", "rewriting", "extracting",
                                     "retrieving", "answering", "answered", "error"}]
    BY <1>1, <2>6 DEF Answering!RagTypeOK
  <2>. QED
    BY <1>1, <2>1, <2>2, <2>3, <2>5, <2>7, <2>8, AnsweringCounts DEF Answering!RagTypeOK
<1>10. \A p \in Judged' : \E j \in judged' : j.question = p /\ j.intent = cache'[p].intent /\ j.at = cache'[p].at
  <2>. SUFFICES ASSUME NEW p \in Judged'
                PROVE  \E j \in judged' : j.question = p /\ j.intent = cache'[p].intent /\ j.at = cache'[p].at
    OBVIOUS
  <2>1. CASE p = q
    <3>1. cache'[p] = [intent |-> result, at |-> verdictClock]
      BY <1>1, <1>3, <2>1
    <3>2. new \in judged' /\ new.question = p /\ new.intent = cache'[p].intent /\ new.at = cache'[p].at
      BY <1>2, <2>1, <3>1
    <3>. HIDE DEF new
    <3>. QED
      BY <3>2
  <2>2. CASE p # q
    <3>1. p \in Judged /\ cache'[p] = cache[p]
      <4>1. p \in Posed /\ cache'[p] # Nothing
        BY DEF Judged
      <4>2. ~full /\ cache'[p] = cache[p]
        BY <1>3, <2>2, <4>1
      <4>. QED
        BY <4>1, <4>2 DEF Judged
    <3>2. PICK j \in judged : j.question = p /\ j.intent = cache[p].intent /\ j.at = cache[p].at
      BY <3>1 DEF AnsweringInv
    <3>3. j \in judged'
      BY <1>2
    <3>. QED
      BY <3>1, <3>2, <3>3, Zenon
  <2>. QED
    BY <2>1, <2>2
<1>11. \A j \in judged' : j.failed => j.intent = "question"
  BY <1>2 DEF AnsweringInv
<1>12. LET r == Answering!RuleIntent(q)
       IN IF r.sure THEN result = r.intent
          ELSE \E j \in judged' : /\ j.question = q /\ j.intent = result
                                  /\ verdictClock - j.at \in 0 .. VerdictTTL
  <2>1. new \in judged' /\ verdictClock - new.at \in 0 .. VerdictTTL
    BY <1>1, <1>2, <1>4
  <2>. QED
    BY <1>1, <2>1 DEF Decided
<1>. QED
  BY <1>2, <1>8, <1>9, <1>10, <1>11, <1>12, DecideInv

LEMMA AnsweringKept ==
  ASSUME Answering!RagAssumption, AnsweringInv, Answering!Next
  PROVE  AnsweringInv'
<1>1. CASE Answering!Tick
  <2>1. /\ verdictClock' = verdictClock + 1 /\ verdictClock < MaxTime
        /\ UNCHANGED <<cache, question, history, turnAt, intent, rewritten, prompt, failed, judged, since>>
    BY <1>1 DEF Answering!Tick, Answering!inputs
  <2>2. UNCHANGED Cardinality({p \in Posed : cache[p] # Nothing})
    BY <2>1
  <2>3. verdictClock \in Nat /\ 0 .. verdictClock \subseteq 0 .. verdictClock + 1 /\ verdictClock + 1 \in 0 .. MaxTime
    BY <2>1 DEF AnsweringInv, Answering!RagTypeOK, Answering!RagAssumption
  <2>4. Answering!RagTypeOK'
    <3>1. \A p \in Posed : cache[p] # Nothing => cache[p].at \in Nat /\ cache[p].at <= verdictClock
      BY DEF AnsweringInv, Answering!RagTypeOK, Answering!Verdicts
    <3>2. \A p \in Posed : cache'[p] # Nothing => cache'[p].at <= verdictClock'
      BY <2>1, <2>3, <3>1
    <3>3. judged' \subseteq [question : Posed, intent : Answering!Intents, at : 0 .. verdictClock', failed : BOOLEAN]
      BY <2>1, <2>3 DEF AnsweringInv, Answering!RagTypeOK
    <3>4. since' \in [RagTurns -> 0 .. verdictClock']
      BY <2>1, <2>3 DEF AnsweringInv, Answering!RagTypeOK
    <3>. QED
      BY <2>1, <2>2, <2>3, <3>2, <3>3, <3>4, AnsweringCounts DEF AnsweringInv, Answering!RagTypeOK
  <2>5. \A t \in RagTurns : Decided(t)' /\ OnItsWay(t)'
    BY <2>1 DEF AnsweringInv, Decided, OnItsWay
  <2>. QED
    BY <2>1, <2>4, <2>5 DEF AnsweringInv, Judged
<1>2. ASSUME NEW t \in RagTurns, Answering!Turn(t)
      PROVE  AnsweringInv'
  <2>1. CASE Answering!JudgeFails(t)
    BY <2>1, JudgedInv DEF Answering!JudgeFails, Answering!Fails, Answering!inputs, Answering!Intents
  <2>2. ASSUME NEW i \in Answering!Intents, Answering!Judge(t, i)
        PROVE  AnsweringInv'
    BY <2>2, JudgedInv DEF Answering!Judge, Answering!inputs
  <2>. QED
    BY <1>2, <2>1, <2>2, ClassifyInv, RoutedInv, SearchedInv DEF Answering!Turn
<1>. QED
  BY <1>1, <1>2 DEF Answering!Next
-----------------------------------------------------------------------------
(* The stores of answers and refusals (AnswerStores). The list of the exact  *)
(* cache is the beginning of the keys in the order of their use; and of two  *)
(* generations under way for a key it is remembered that they overlapped.    *)

LEMMA StoresCounts ==
  \A S : (Stores!IsFiniteSet(S) <=> IsFiniteSet(S)) /\ Stores!Cardinality(S) = Cardinality(S)
  BY DEF Stores!IsFiniteSet, IsFiniteSet, Stores!Cardinality, Cardinality

LEMMA StoresPlaces ==
  \A D : Stores!InOrder(D) = InOrder(D)
  BY DEF Stores!InOrder, Stores!Cardinality, Stores!IsFiniteSet, InOrder, Cardinality,
     IsFiniteSet

\* list has the entries of the first keys of order.
Beside(list, order) ==
  /\ Len(list) <= Len(order)
  /\ \A i \in 1 .. Len(list) : list[i].key = order[i]

NoneTwice(order) == \A i, j \in 1 .. Len(order) : order[i] = order[j] => i = j

\* Is an answer to k in the exact cache that has not expired?
Answered(k) == \E i \in 1 .. Len(exactStore) : exactStore[i].key = k /\ storeClock <= exactStore[i].expires

\* A generation for k that began alone found nothing, so an answer beside it,
\* or beside a refusal, is that of another that overlapped it.
OverlapNoted(k) ==
  /\ Stores!Working(k) >= 2 => k \in overlapped
  /\ Stores!Working(k) = 1 /\ Answered(k) => k \in overlapped
  /\ Answered(k) /\ Stores!RefusalLive(k) => k \in overlapped

HitSound ==
  hit # Nothing =>
    /\ hit.of[1] = hit.key[1]
    /\ hit.of = hit.key \/ (hit.level = "semantic" /\ {hit.of[2], hit.key[2]} \in Alike)
    /\ hit.level = "exact" => hit.age <= ExactTTL + Jitter
    /\ hit.level = "semantic" => hit.age <= SemanticTTL

\* An entry is not of the future, and expires when its time to live is over.
InTime(e) == e.made <= storeClock /\ e.expires <= e.made + ExactTTL + Jitter

StoresInv ==
  /\ Stores!StoresTypeOK
  /\ Len(exactStore) <= MaxExact /\ Len(semanticStore) <= MaxSemantic
  /\ Beside(exactStore, lastUsed) /\ NoneTwice(lastUsed)
  /\ \A i \in 1 .. Len(exactStore) : InTime(exactStore[i])
  /\ \A k \in Keys : OverlapNoted(k)
  /\ HitSound

LEMMA StoresSizes ==
  ASSUME Stores!StoresAssumption
  PROVE  /\ MaxExact \in Nat /\ MaxExact >= 1 /\ MaxSemantic \in Nat /\ MaxSemantic >= 1
         /\ ExactTTL \in Nat /\ RefusalTTL \in Nat /\ Jitter \in Nat /\ RefusalJitter \in Nat
         /\ SemanticTTL \in Nat /\ MaxTime \in Nat /\ Jitter <= ExactTTL /\ RefusalJitter <= RefusalTTL
<1>1. /\ {MaxExact, MaxSemantic, ExactTTL, RefusalTTL} \subseteq Nat \ {0}
      /\ {Jitter, RefusalJitter, SemanticTTL, MaxTime} \subseteq Nat
      /\ Jitter <= ExactTTL /\ RefusalJitter <= RefusalTTL
  BY DEF Stores!StoresAssumption
<1>2. /\ MaxExact \in Nat \ {0} /\ MaxSemantic \in Nat \ {0} /\ ExactTTL \in Nat \ {0} /\ RefusalTTL \in Nat \ {0}
      /\ Jitter \in Nat /\ RefusalJitter \in Nat /\ SemanticTTL \in Nat /\ MaxTime \in Nat
  BY <1>1
<1>. QED
  BY <1>1, <1>2

LEMMA StoresTypes ==
  ASSUME Stores!StoresAssumption, Stores!StoresTypeOK
  PROVE  /\ storeClock \in Nat /\ exactStore \in Seq(Stores!Entries) /\ Len(exactStore) \in Nat /\ DOMAIN exactStore = 1 .. Len(exactStore)
         /\ lastUsed \in Seq(Keys) /\ Len(lastUsed) \in Nat /\ DOMAIN lastUsed = 1 .. Len(lastUsed)
         /\ semanticStore \in Seq([key : Keys, made : 0 .. storeClock]) /\ Len(semanticStore) \in Nat
         /\ DOMAIN semanticStore = 1 .. Len(semanticStore)
         /\ \A i \in 1 .. Len(exactStore) : /\ exactStore[i] \in Stores!Entries
                                       /\ exactStore[i].key \in Keys /\ exactStore[i].made \in Nat /\ exactStore[i].expires \in Nat
         /\ \A k \in Keys : /\ refused[k] = Nothing \/ refused[k] \in Nat
                            /\ flights[k] \in 0 .. 1 /\ streams[k] \in Nat /\ Stores!Working(k) \in Nat
<1>1. storeClock \in Nat
  BY StoresSizes DEF Stores!StoresTypeOK
<1>2. /\ exactStore \in Seq(Stores!Entries) /\ Len(exactStore) \in Nat /\ DOMAIN exactStore = 1 .. Len(exactStore)
      /\ \A i \in 1 .. Len(exactStore) : exactStore[i] \in Stores!Entries
  BY DEF Stores!StoresTypeOK
<1>3. \A e \in Stores!Entries : e.key \in Keys /\ e.made \in Nat /\ e.expires \in Nat
  BY DEF Stores!Entries
<1>4. lastUsed \in Seq(Keys) /\ Len(lastUsed) \in Nat /\ DOMAIN lastUsed = 1 .. Len(lastUsed)
  BY DEF Stores!StoresTypeOK
<1>5. /\ semanticStore \in Seq([key : Keys, made : 0 .. storeClock]) /\ Len(semanticStore) \in Nat
      /\ DOMAIN semanticStore = 1 .. Len(semanticStore)
  BY DEF Stores!StoresTypeOK
<1>6. \A k \in Keys : /\ refused[k] = Nothing \/ refused[k] \in Nat
                      /\ flights[k] \in 0 .. 1 /\ streams[k] \in Nat /\ Stores!Working(k) \in Nat
  BY DEF Stores!StoresTypeOK, Stores!Working
<1>. QED
  BY <1>1, <1>2, <1>3, <1>4, <1>5, <1>6

LEMMA StoresInit ==
  ASSUME Stores!StoresAssumption, Stores!Init
  PROVE  StoresInv
<1>1. Len(exactStore) = 0 /\ Len(semanticStore) = 0 /\ Len(lastUsed) = 0 /\ hit = Nothing
  BY DEF Stores!Init
<1>2. Stores!StoresTypeOK
  BY StoresSizes DEF Stores!Init, Stores!StoresTypeOK
<1>3. \A k \in Keys : OverlapNoted(k)
  BY <1>1 DEF Stores!Init, OverlapNoted, Stores!Working, Answered
<1>. QED
  BY <1>1, <1>2, <1>3, StoresSizes DEF StoresInv, HitSound, Beside, NoneTwice

\* A key is listed at one place.
LEMMA PlaceIs ==
  ASSUME Stores!StoresAssumption, StoresInv, NEW k \in Keys
  PROVE  /\ Stores!Listed(k) => /\ Stores!Place(k) \in 1 .. Len(exactStore)
                                /\ Stores!Entry(k) = exactStore[Stores!Place(k)] /\ Stores!Entry(k).key = k
         /\ Stores!Live(k) <=> Answered(k)
<1>1. /\ DOMAIN exactStore = 1 .. Len(exactStore) /\ Len(exactStore) \in Nat
      /\ Stores!Entry(k) = exactStore[Stores!Place(k)]
  BY StoresTypes DEF StoresInv, Stores!Entry
<1>2. Stores!Listed(k) => Stores!Place(k) \in 1 .. Len(exactStore) /\ exactStore[Stores!Place(k)].key = k
  BY <1>1 DEF Stores!Listed, Stores!Place
<1>3. \A i, j \in 1 .. Len(exactStore) : exactStore[i].key = exactStore[j].key => i = j
  <2>1. /\ Len(exactStore) \in Nat /\ Len(lastUsed) \in Nat /\ Len(exactStore) <= Len(lastUsed) /\ NoneTwice(lastUsed)
        /\ \A i \in 1 .. Len(exactStore) : exactStore[i].key = lastUsed[i]
    BY StoresTypes DEF StoresInv, Beside
  <2>2. 1 .. Len(exactStore) \subseteq 1 .. Len(lastUsed)
    BY <2>1
  <2>. QED
    BY <2>1, <2>2 DEF NoneTwice
<1>4. Stores!Live(k) => Answered(k)
  BY <1>1, <1>2 DEF Stores!Live, Answered
<1>5. Answered(k) => Stores!Live(k)
  <2>. SUFFICES ASSUME NEW i \in 1 .. Len(exactStore), exactStore[i].key = k, storeClock <= exactStore[i].expires
                PROVE  Stores!Live(k)
    BY DEF Answered
  <2>1. Stores!Listed(k)
    BY <1>1 DEF Stores!Listed
  <2>2. Stores!Place(k) = i
    BY <1>2, <1>3, <2>1
  <2>. QED
    BY <1>1, <2>1, <2>2 DEF Stores!Live
<1>. QED
  BY <1>1, <1>2, <1>4, <1>5

LEMMA StoresBound ==
  ASSUME Stores!StoresAssumption, StoresInv
  PROVE  Stores!StoresTypeOK /\ Stores!StoresSound
<1>1. [i \in DOMAIN exactStore |-> exactStore[i].key] = SubSeq(lastUsed, 1, Len(exactStore))
  <2>. DEFINE n == Len(exactStore)
              front == SubSeq(lastUsed, 1, n)
  <2>1. /\ n \in Nat /\ DOMAIN exactStore = 1 .. n /\ lastUsed \in Seq(Keys) /\ n <= Len(lastUsed) /\ Len(lastUsed) \in Nat
        /\ \A i \in 1 .. n : exactStore[i].key = lastUsed[i]
    BY StoresTypes DEF StoresInv, Beside
  <2>2. front = [i \in 1 .. n |-> lastUsed[i]]
    BY <2>1
  <2>. QED
    BY <2>1, <2>2
<1>2. \A k \in Keys : Stores!Live(k) /\ Stores!RefusalLive(k) => k \in overlapped
  BY PlaceIs DEF StoresInv, OverlapNoted
<1>. QED
  BY <1>1, <1>2 DEF StoresInv, HitSound, Stores!StoresSound

\* A list without one of its entries.
LEMMA RemovedIs ==
  ASSUME NEW S, NEW s \in Seq(S), NEW p \in 1 .. Len(s)
  PROVE  LET r == Stores!RemoveAt(s, p)
         IN /\ r \in Seq(S) /\ Len(r) = Len(s) - 1
            /\ \A i \in 1 .. Len(s) - 1 : r[i] = IF i < p THEN s[i] ELSE s[i + 1]
<1>. DEFINE a == SubSeq(s, 1, p - 1)
            b == SubSeq(s, p + 1, Len(s))
<1>1. Len(s) \in Nat /\ p \in Nat
  OBVIOUS
<1>2. a \in Seq(S) /\ Len(a) = p - 1 /\ \A i \in 1 .. p - 1 : a[i] = s[i]
  BY <1>1
<1>3. b \in Seq(S) /\ Len(b) = Len(s) - p /\ \A i \in 1 .. Len(s) - p : b[i] = s[p + i]
  BY <1>1
<1>. HIDE DEF a, b
<1>4. /\ a \o b \in Seq(S) /\ Len(a \o b) = Len(s) - 1
  <2>1. a \o b \in Seq(S) /\ Len(a \o b) = Len(a) + Len(b)
    BY <1>2, <1>3, ConcatProperties
  <2>. QED
    BY <1>1, <1>2, <1>3, <2>1
<1>5. ASSUME NEW i \in 1 .. Len(s) - 1 PROVE (a \o b)[i] = IF i < p THEN s[i] ELSE s[i + 1]
  <2>1. (a \o b)[i] = IF i <= Len(a) THEN a[i] ELSE b[i - Len(a)]
    BY <1>1, <1>2, <1>3
  <2>2. CASE i < p
    BY <1>1, <1>2, <2>1, <2>2
  <2>3. CASE ~(i < p)
    <3>1. i - (p - 1) \in 1 .. Len(s) - p /\ p + (i - (p - 1)) = i + 1
      BY <1>1, <2>3
    <3>. QED
      BY <1>1, <1>2, <1>3, <2>1, <2>3, <3>1
  <2>. QED
    BY <2>2, <2>3
<1>6. Stores!RemoveAt(s, p) = a \o b
  BY DEF Stores!RemoveAt, a, b
<1>. QED
  BY <1>4, <1>5, <1>6

\* And one with an entry put in front.
LEMMA PushedIs ==
  ASSUME NEW S, NEW s \in Seq(S), NEW e \in S
  PROVE  /\ <<e>> \o s \in Seq(S) /\ Len(<<e>> \o s) = Len(s) + 1
         /\ (<<e>> \o s)[1] = e
         /\ \A i \in 2 .. Len(s) + 1 : (<<e>> \o s)[i] = s[i - 1]
<1>1. <<e>> \in Seq(S) /\ Len(<<e>>) = 1 /\ <<e>>[1] = e
  OBVIOUS
<1>. QED
  BY <1>1

\* The exact cache and the order of use without k.
LEMMA WithoutIs ==
  ASSUME Stores!StoresAssumption, StoresInv, NEW k \in Keys
  PROVE  LET list == Stores!Without(k)
             order == Stores!Unused(k)
         IN /\ list \in Seq(Stores!Entries) /\ order \in Seq(Keys) /\ Len(list) <= Len(exactStore)
            /\ Stores!Listed(k) => Len(list) = Len(exactStore) - 1
            /\ ~Stores!Listed(k) => list = exactStore
            /\ Beside(list, order) /\ NoneTwice(order)
            /\ \A i \in 1 .. Len(order) : order[i] # k
            /\ \A i \in 1 .. Len(list) : \E j \in 1 .. Len(exactStore) : list[i] = exactStore[j]
<1>. DEFINE n == Len(exactStore)
            m == Len(lastUsed)
            list == Stores!Without(k)
            order == Stores!Unused(k)
            p == Stores!Place(k)
            q == CHOOSE i \in DOMAIN lastUsed : lastUsed[i] = k
<1>1. /\ exactStore \in Seq(Stores!Entries) /\ lastUsed \in Seq(Keys) /\ n \in Nat /\ m \in Nat /\ n <= m
      /\ DOMAIN exactStore = 1 .. n /\ DOMAIN lastUsed = 1 .. m
      /\ \A i \in 1 .. n : exactStore[i].key = lastUsed[i]
      /\ \A i, j \in 1 .. m : lastUsed[i] = lastUsed[j] => i = j
  BY StoresTypes DEF StoresInv, Beside, NoneTwice
<1>0. Beside(exactStore, lastUsed) /\ NoneTwice(lastUsed)
  BY DEF StoresInv
<1>2. list = IF Stores!Listed(k) THEN Stores!RemoveAt(exactStore, p) ELSE exactStore
  BY DEF Stores!Without
<1>3. order = IF \E i \in 1 .. m : lastUsed[i] = k THEN Stores!RemoveAt(lastUsed, q) ELSE lastUsed
  BY <1>1 DEF Stores!Unused
<1>4. (\E i \in 1 .. m : lastUsed[i] = k) => q \in 1 .. m /\ lastUsed[q] = k
  BY <1>1
<1>. HIDE DEF q, p, list, order
<1>5. CASE Stores!Listed(k)
  <2>1. p \in 1 .. n /\ exactStore[p].key = k
    BY <1>5, PlaceIs DEF p
  <2>2. p \in 1 .. m /\ lastUsed[p] = k
    BY <1>1, <2>1
  <2>3. q = p
    BY <1>1, <1>4, <2>2
  <2>4. /\ list \in Seq(Stores!Entries) /\ Len(list) = n - 1
        /\ \A i \in 1 .. n - 1 : list[i] = IF i < p THEN exactStore[i] ELSE exactStore[i + 1]
    BY <1>1, <1>2, <1>5, <2>1, RemovedIs
  <2>5. /\ order \in Seq(Keys) /\ Len(order) = m - 1
        /\ \A i \in 1 .. m - 1 : order[i] = IF i < p THEN lastUsed[i] ELSE lastUsed[i + 1]
    BY <1>1, <1>3, <2>2, <2>3, RemovedIs
  <2>6. Beside(list, order)
    <3>1. \A i \in 1 .. n - 1 : i \in 1 .. n /\ i + 1 \in 1 .. n /\ i \in 1 .. m - 1
      BY <1>1
    <3>2. \A i \in 1 .. n - 1 : list[i].key = order[i]
      BY <1>1, <2>4, <2>5, <3>1
    <3>. QED
      BY <1>1, <2>4, <2>5, <3>2 DEF Beside
  <2>7. /\ \A i \in 1 .. m - 1 : order[i] # k
        /\ \A i, j \in 1 .. m - 1 : order[i] = order[j] => i = j
    <3>. DEFINE g(i) == IF i < p THEN i ELSE i + 1
    <3>1. \A i \in 1 .. m - 1 : g(i) \in 1 .. m /\ g(i) # p /\ order[i] = lastUsed[g(i)]
      BY <1>1, <2>1, <2>5
    <3>2. \A i, j \in 1 .. m - 1 : g(i) = g(j) => i = j
      BY <1>1, <2>1
    <3>. HIDE DEF g
    <3>. QED
      BY <1>1, <2>2, <3>1, <3>2
  <2>8. \A i \in 1 .. n - 1 : \E j \in 1 .. n : list[i] = exactStore[j]
    <3>1. \A i \in 1 .. n - 1 : i \in 1 .. n /\ i + 1 \in 1 .. n
      BY <1>1
    <3>. QED
      BY <2>4, <3>1
  <2>9. NoneTwice(order)
    BY <2>5, <2>7 DEF NoneTwice
  <2>. QED
    BY <1>1, <1>5, <2>4, <2>5, <2>6, <2>7, <2>8, <2>9 DEF list, order
<1>6. CASE ~Stores!Listed(k)
  <2>1. list = exactStore /\ \A i \in 1 .. n : lastUsed[i] # k
    BY <1>1, <1>2, <1>6 DEF Stores!Listed
  <2>4. /\ list \in Seq(Stores!Entries) /\ Len(list) = n
        /\ \A i \in 1 .. n : \E j \in 1 .. n : list[i] = exactStore[j]
    BY <1>1, <2>1
  <2>2. CASE \E i \in 1 .. m : lastUsed[i] = k
    <3>1. q \in 1 .. m /\ lastUsed[q] = k /\ q > n
      BY <1>1, <1>4, <2>1, <2>2
    <3>2. /\ order \in Seq(Keys) /\ Len(order) = m - 1
          /\ \A i \in 1 .. m - 1 : order[i] = IF i < q THEN lastUsed[i] ELSE lastUsed[i + 1]
      BY <1>1, <1>3, <2>2, <3>1, RemovedIs
    <3>3. Beside(list, order)
      <4>1. \A i \in 1 .. n : i \in 1 .. m - 1 /\ i < q
        BY <1>1, <3>1
      <4>2. \A i \in 1 .. n : list[i].key = order[i]
        BY <1>1, <2>1, <3>2, <4>1
      <4>. QED
        BY <1>1, <2>1, <3>1, <3>2, <4>2 DEF Beside
    <3>4. /\ \A i \in 1 .. m - 1 : order[i] # k
          /\ \A i, j \in 1 .. m - 1 : order[i] = order[j] => i = j
      <4>. DEFINE g(i) == IF i < q THEN i ELSE i + 1
      <4>1. \A i \in 1 .. m - 1 : g(i) \in 1 .. m /\ g(i) # q /\ order[i] = lastUsed[g(i)]
        BY <1>1, <3>1, <3>2
      <4>2. \A i, j \in 1 .. m - 1 : g(i) = g(j) => i = j
        BY <1>1, <3>1
      <4>. HIDE DEF g
      <4>. QED
        BY <1>1, <3>1, <4>1, <4>2
    <3>5. NoneTwice(order)
      BY <3>2, <3>4 DEF NoneTwice
    <3>. QED
      <4>1. Len(list) <= n /\ \A i \in 1 .. Len(order) : order[i] # k
        BY <1>1, <2>4, <3>2, <3>4
      <4>. HIDE DEF n
      <4>. QED
        BY <1>6, <2>1, <2>4, <3>2, <3>3, <3>5, <4>1, Zenon DEF list, order, n
  <2>3. CASE ~ \E i \in 1 .. m : lastUsed[i] = k
    <3>1. order = lastUsed
      BY <1>3, <2>3
    <3>. QED
      <4>1. Len(list) <= n /\ order \in Seq(Keys) /\ \A i \in 1 .. Len(order) : order[i] # k
        BY <1>1, <2>3, <2>4, <3>1
      <4>2. Beside(list, order) /\ NoneTwice(order)
        BY <1>0, <2>1, <3>1
      <4>. HIDE DEF n
      <4>. QED
        BY <1>6, <2>1, <2>4, <4>1, <4>2, Zenon DEF list, order, n
  <2>. QED
    BY <2>2, <2>3
<1>. QED
  BY <1>5, <1>6

\* The exact cache with an entry of k in front.
LEMMA FrontIs ==
  ASSUME Stores!StoresAssumption, StoresInv, NEW k \in Keys, NEW e \in Stores!Entries, e.key = k
  PROVE  LET list == <<e>> \o Stores!Without(k)
             order == <<k>> \o Stores!Unused(k)
         IN /\ list \in Seq(Stores!Entries) /\ order \in Seq(Keys) /\ Len(list) = Len(Stores!Without(k)) + 1
            /\ Beside(list, order) /\ NoneTwice(order)
            /\ \A i \in 1 .. Len(list) : list[i] = e \/ \E j \in 1 .. Len(exactStore) : list[i] = exactStore[j] /\ list[i].key # k
<1>. DEFINE was == Stores!Without(k)
            old == Stores!Unused(k)
            list == <<e>> \o was
            order == <<k>> \o old
<1>1. /\ was \in Seq(Stores!Entries) /\ old \in Seq(Keys)
      /\ Len(was) <= Len(old) /\ \A i \in 1 .. Len(was) : was[i].key = old[i]
      /\ \A i, j \in 1 .. Len(old) : old[i] = old[j] => i = j
      /\ \A i \in 1 .. Len(old) : old[i] # k
      /\ \A i \in 1 .. Len(was) : \E j \in 1 .. Len(exactStore) : was[i] = exactStore[j]
  BY WithoutIs DEF Beside, NoneTwice
<1>. HIDE DEF was, old
<1>2. /\ list \in Seq(Stores!Entries) /\ Len(list) = Len(was) + 1 /\ list[1] = e
      /\ \A i \in 2 .. Len(was) + 1 : list[i] = was[i - 1]
  BY <1>1, PushedIs
<1>3. /\ order \in Seq(Keys) /\ Len(order) = Len(old) + 1 /\ order[1] = k
      /\ \A i \in 2 .. Len(old) + 1 : order[i] = old[i - 1]
  BY <1>1, PushedIs
<1>. HIDE DEF list, order
<1>4. /\ Len(was) \in Nat /\ Len(old) \in Nat
      /\ \A i \in 2 .. Len(was) + 1 : i - 1 \in 1 .. Len(was) /\ i - 1 \in 1 .. Len(old) /\ i \in 2 .. Len(old) + 1
      /\ \A i \in 2 .. Len(old) + 1 : i - 1 \in 1 .. Len(old)
      /\ \A i \in 1 .. Len(was) + 1 : i = 1 \/ i \in 2 .. Len(was) + 1
      /\ \A i \in 1 .. Len(old) + 1 : i = 1 \/ i \in 2 .. Len(old) + 1
  BY <1>1
<1>5. ASSUME NEW i \in 1 .. Len(was) + 1
      PROVE  list[i].key = order[i]
  <2>1. CASE i = 1
    BY <1>2, <1>3, <2>1
  <2>2. CASE i \in 2 .. Len(was) + 1
    <3>1. i - 1 \in 1 .. Len(was) /\ i \in 2 .. Len(old) + 1
      BY <1>4, <2>2
    <3>2. list[i] = was[i - 1] /\ order[i] = old[i - 1]
      BY <1>2, <1>3, <2>2, <3>1
    <3>3. was[i - 1].key = old[i - 1]
      BY <1>1, <3>1
    <3>. QED
      BY <3>2, <3>3
  <2>. QED
    BY <1>4, <2>1, <2>2
<1>6. Beside(list, order)
  BY <1>1, <1>2, <1>3, <1>4, <1>5 DEF Beside
<1>7. NoneTwice(order)
  <2>. SUFFICES ASSUME NEW i \in 1 .. Len(old) + 1, NEW j \in 1 .. Len(old) + 1, order[i] = order[j]
                PROVE  i = j
    BY <1>3 DEF NoneTwice
  <2>1. ASSUME NEW l \in 2 .. Len(old) + 1
        PROVE  order[l] = old[l - 1] /\ l - 1 \in 1 .. Len(old) /\ order[l] # k
    <3>1. order[l] = old[l - 1] /\ l - 1 \in 1 .. Len(old)
      BY <1>3, <1>4
    <3>2. old[l - 1] # k
      BY <1>1, <3>1
    <3>. QED
      BY <3>1, <3>2
  <2>2. CASE i = 1 \/ j = 1
    BY <1>3, <1>4, <2>1, <2>2
  <2>3. CASE i \in 2 .. Len(old) + 1 /\ j \in 2 .. Len(old) + 1
    <3>1. i - 1 = j - 1
      BY <1>1, <2>1, <2>3, Zenon
    <3>. QED
      BY <3>1
  <2>. QED
    BY <1>4, <2>2, <2>3
<1>8. \A i \in 1 .. Len(list) : list[i] = e \/ \E j \in 1 .. Len(exactStore) : list[i] = exactStore[j] /\ list[i].key # k
  <2>. SUFFICES ASSUME NEW i \in 2 .. Len(was) + 1
                PROVE  \E j \in 1 .. Len(exactStore) : list[i] = exactStore[j] /\ list[i].key # k
    BY <1>2, <1>4
  <2>1. list[i] = was[i - 1] /\ list[i].key = old[i - 1] /\ old[i - 1] # k
    BY <1>1, <1>2, <1>4
  <2>. QED
    BY <1>1, <1>4, <2>1
<1>. QED
  BY <1>2, <1>3, <1>6, <1>7, <1>8 DEF list, order, was, old

\* What exactCache.Get leaves.
LEMMA GetIs ==
  ASSUME Stores!StoresAssumption, StoresInv, NEW k \in Keys, Stores!GetExact(k)
  PROVE  /\ exactStore' \in Seq(Stores!Entries) /\ lastUsed' \in Seq(Keys)
         /\ Beside(exactStore', lastUsed') /\ NoneTwice(lastUsed') /\ Len(exactStore') <= Len(exactStore)
         /\ \A i \in 1 .. Len(exactStore') : \E j \in 1 .. Len(exactStore) : exactStore'[i] = exactStore[j]
         /\ ~Stores!Live(k) => \A i \in 1 .. Len(exactStore') : exactStore'[i].key # k
<1>1. /\ Beside(exactStore, lastUsed) /\ NoneTwice(lastUsed)
      /\ exactStore \in Seq(Stores!Entries) /\ lastUsed \in Seq(Keys) /\ Len(exactStore) \in Nat
      /\ \A i \in 1 .. Len(exactStore) : exactStore[i] \in Stores!Entries
  BY StoresTypes DEF StoresInv
<1>. DEFINE was == Stores!Without(k)
            old == Stores!Unused(k)
<1>2. /\ was \in Seq(Stores!Entries) /\ old \in Seq(Keys) /\ Len(was) <= Len(exactStore)
      /\ Stores!Listed(k) => Len(was) = Len(exactStore) - 1
      /\ ~Stores!Listed(k) => was = exactStore
      /\ Beside(was, old) /\ NoneTwice(old)
      /\ \A i \in 1 .. Len(old) : old[i] # k
      /\ \A i \in 1 .. Len(was) : \E j \in 1 .. Len(exactStore) : was[i] = exactStore[j]
  BY WithoutIs
<1>3. CASE Stores!Live(k)
  <2>. DEFINE e == Stores!Entry(k)
  <2>1. Stores!Listed(k) /\ exactStore' = <<e>> \o was /\ lastUsed' = <<k>> \o old
    BY <1>3 DEF Stores!GetExact, Stores!Use, Stores!Live
  <2>2. PICK p \in 1 .. Len(exactStore) : e = exactStore[p] /\ e.key = k
    BY <2>1, PlaceIs
  <2>3. e \in Stores!Entries
    BY <1>1, <2>2
  <2>. HIDE DEF e, was, old
  <2>4. /\ exactStore' \in Seq(Stores!Entries) /\ lastUsed' \in Seq(Keys) /\ Len(exactStore') = Len(was) + 1
        /\ Beside(exactStore', lastUsed') /\ NoneTwice(lastUsed')
        /\ \A i \in 1 .. Len(exactStore') : exactStore'[i] = e \/ \E j \in 1 .. Len(exactStore) : exactStore'[i] = exactStore[j] /\ exactStore'[i].key # k
    <3>. DEFINE list == <<e>> \o was
                order == <<k>> \o old
    <3>1. /\ list \in Seq(Stores!Entries) /\ order \in Seq(Keys) /\ Len(list) = Len(was) + 1
          /\ Beside(list, order) /\ NoneTwice(order)
          /\ \A i \in 1 .. Len(list) : list[i] = e \/ \E j \in 1 .. Len(exactStore) : list[i] = exactStore[j] /\ list[i].key # k
      BY <2>2, <2>3, FrontIs DEF was, old
    <3>. HIDE DEF list, order
    <3>2. exactStore' = list /\ lastUsed' = order
      BY <2>1 DEF list, order
    <3>. QED
      BY <3>1, <3>2
  <2>5. Len(exactStore') <= Len(exactStore)
    BY <1>1, <1>2, <2>1, <2>4
  <2>6. \A i \in 1 .. Len(exactStore') : \E j \in 1 .. Len(exactStore) : exactStore'[i] = exactStore[j]
    BY <2>2, <2>4, Zenon
  <2>. QED
    BY <1>3, <2>4, <2>5, <2>6
<1>4. CASE ~Stores!Live(k)
  <2>1. exactStore' = was /\ lastUsed' = IF Stores!Listed(k) THEN old ELSE lastUsed
    BY <1>4 DEF Stores!GetExact, Stores!Forget
  <2>2. Beside(exactStore', lastUsed') /\ NoneTwice(lastUsed') /\ lastUsed' \in Seq(Keys)
    BY <1>1, <1>2, <2>1
  <2>. HIDE DEF was, old
  <2>3. \A i \in 1 .. Len(was) : was[i].key # k
    <3>1. \A i \in 1 .. Len(was) : i \in 1 .. Len(old) /\ was[i].key = old[i]
      BY <1>2 DEF Beside
    <3>. QED
      BY <1>2, <3>1
  <2>. QED
    BY <1>2, <2>1, <2>2, <2>3
<1>. QED
  BY <1>3, <1>4

\* What exactCache.Set leaves.
LEMMA SetIs ==
  ASSUME Stores!StoresAssumption, StoresInv, NEW k \in Keys, NEW ttl \in Nat, Stores!SetExact(k, ttl)
  PROVE  /\ exactStore' \in Seq(Stores!Entries) /\ lastUsed' \in Seq(Keys)
         /\ Beside(exactStore', lastUsed') /\ NoneTwice(lastUsed') /\ Len(exactStore') <= MaxExact
         /\ \A i \in 1 .. Len(exactStore') :
              \/ exactStore'[i] = [key |-> k, made |-> storeClock, expires |-> storeClock + ttl]
              \/ \E j \in 1 .. Len(exactStore) : exactStore'[i] = exactStore[j] /\ exactStore'[i].key # k
<1>. DEFINE e == [key |-> k, made |-> storeClock, expires |-> storeClock + ttl]
            list == <<e>> \o Stores!Without(k)
            order == <<k>> \o Stores!Unused(k)
<1>1. e \in Stores!Entries /\ e.key = k
  BY StoresTypes DEF StoresInv, Stores!Entries
<1>2. exactStore' = (IF Len(list) > MaxExact THEN SubSeq(list, 1, MaxExact) ELSE list) /\ lastUsed' = order
  BY DEF Stores!SetExact, Stores!Use
<1>. HIDE DEF e
<1>3. /\ list \in Seq(Stores!Entries) /\ order \in Seq(Keys) /\ Beside(list, order) /\ NoneTwice(order)
      /\ \A i \in 1 .. Len(list) : list[i] = e \/ \E j \in 1 .. Len(exactStore) : list[i] = exactStore[j] /\ list[i].key # k
  BY <1>1, FrontIs
<1>. HIDE DEF list, order
<1>4. /\ exactStore' \in Seq(Stores!Entries) /\ Len(exactStore') <= MaxExact /\ Len(exactStore') <= Len(list) /\ Len(exactStore') \in Nat
      /\ \A i \in 1 .. Len(exactStore') : exactStore'[i] = list[i]
  <2>1. CASE Len(list) > MaxExact
    <3>1. exactStore' = SubSeq(list, 1, MaxExact) /\ MaxExact \in Nat /\ Len(list) \in Nat
      BY <1>2, <1>3, <2>1, StoresSizes
    <3>. QED
      BY <1>3, <2>1, <3>1
  <2>2. CASE ~(Len(list) > MaxExact)
    <3>1. exactStore' = list /\ MaxExact \in Nat /\ Len(list) \in Nat
      BY <1>2, <1>3, <2>2, StoresSizes
    <3>. QED
      BY <1>3, <2>2, <3>1
  <2>. QED
    BY <2>1, <2>2
<1>5. Len(list) \in Nat /\ \A i \in 1 .. Len(exactStore') : i \in 1 .. Len(list)
  BY <1>3, <1>4
<1>6. Beside(exactStore', lastUsed')
  <2>1. Len(list) <= Len(order) /\ Len(order) \in Nat /\ \A i \in 1 .. Len(list) : list[i].key = order[i]
    BY <1>3 DEF Beside
  <2>2. Len(exactStore') <= Len(order)
    BY <1>4, <1>5, <2>1
  <2>. QED
    BY <1>2, <1>4, <1>5, <2>1, <2>2 DEF Beside
<1>7. \A i \in 1 .. Len(exactStore') :
        exactStore'[i] = e \/ \E j \in 1 .. Len(exactStore) : exactStore'[i] = exactStore[j] /\ exactStore'[i].key # k
  BY <1>3, <1>4, <1>5
<1>. QED
  BY <1>2, <1>3, <1>4, <1>6, <1>7 DEF e

\* A generation for k begins.
LEMMA BeginIs ==
  ASSUME Stores!StoresAssumption, StoresInv, NEW k \in Keys, NEW stream \in BOOLEAN, Stores!Begin(k, stream)
  PROVE  /\ flights' \in [Keys -> 0 .. 1] /\ streams' \in [Keys -> Nat] /\ overlapped' \subseteq Keys
         /\ Stores!Working(k)' = Stores!Working(k) + 1
         /\ \A x \in Keys \ {k} : Stores!Working(x)' = Stores!Working(x) /\ (x \in overlapped' <=> x \in overlapped)
         /\ k \in overlapped' <=> Stores!Working(k) # 0
<1>1. /\ flights \in [Keys -> 0 .. 1] /\ streams \in [Keys -> Nat] /\ overlapped \subseteq Keys
      /\ stream \/ flights[k] = 0
      /\ flights' = (IF stream THEN flights ELSE [flights EXCEPT ![k] = @ + 1])
      /\ streams' = (IF stream THEN [streams EXCEPT ![k] = @ + 1] ELSE streams)
      /\ overlapped' = (IF Stores!Working(k) = 0 THEN overlapped \ {k} ELSE overlapped \cup {k})
  BY DEF Stores!Begin, StoresInv, Stores!StoresTypeOK
<1>2. flights' \in [Keys -> 0 .. 1] /\ streams' \in [Keys -> Nat]
  BY <1>1
<1>3. /\ Stores!Working(k)' = Stores!Working(k) + 1
      /\ \A x \in Keys \ {k} : Stores!Working(x)' = Stores!Working(x)
  BY <1>1 DEF Stores!Working
<1>. QED
  BY <1>1, <1>2, <1>3

\* And ends.
LEMMA EndIs ==
  ASSUME Stores!StoresAssumption, StoresInv, NEW k \in Keys, NEW stream \in BOOLEAN, Stores!End(k, stream)
  PROVE  /\ flights' \in [Keys -> 0 .. 1] /\ streams' \in [Keys -> Nat]
         /\ Stores!Working(k)' = Stores!Working(k) - 1
         /\ \A x \in Keys \ {k} : Stores!Working(x)' = Stores!Working(x)
<1>1. /\ flights \in [Keys -> 0 .. 1] /\ streams \in [Keys -> Nat]
      /\ stream => streams[k] > 0 /\ streams' = [streams EXCEPT ![k] = @ - 1] /\ flights' = flights
      /\ ~stream => flights[k] > 0 /\ flights' = [flights EXCEPT ![k] = @ - 1] /\ streams' = streams
  BY DEF Stores!End, StoresInv, Stores!StoresTypeOK
<1>2. flights' \in [Keys -> 0 .. 1] /\ streams' \in [Keys -> Nat]
  BY <1>1
<1>3. /\ Stores!Working(k)' = Stores!Working(k) - 1
      /\ \A x \in Keys \ {k} : Stores!Working(x)' = Stores!Working(x)
  BY <1>1 DEF Stores!Working
<1>. QED
  BY <1>2, <1>3

\* Of some numbers one is the least.
LEMMA Least ==
  ASSUME NEW S \in SUBSET Nat, S # {}
  PROVE  \E i \in S : \A j \in S : i <= j
<1>. DEFINE R == OpToRel(<, Nat)
<1>1. PICK i \in S : \A j \in S : <<j, i>> \notin R
  BY NatLessThanWellFounded, WFMin
<1>2. \A j \in S : ~(j < i)
  BY <1>1 DEF OpToRel
<1>. QED
  BY <1>2

LEMMA BestIs ==
  ASSUME Stores!StoresAssumption, StoresInv, NEW k \in Keys, Stores!Similar(k) # {}
  PROVE  Stores!Best(k) \in Stores!Similar(k)
<1>. DEFINE own == {i \in Stores!Similar(k) : semanticStore[i].key = k}
            those == IF own = {} THEN Stores!Similar(k) ELSE own
<1>1. Stores!Similar(k) \in SUBSET Nat
  BY StoresTypes DEF StoresInv, Stores!Similar
<1>2. those \in SUBSET Nat /\ those # {} /\ those \subseteq Stores!Similar(k)
  BY <1>1
<1>3. Stores!Best(k) = CHOOSE i \in those : \A j \in those : i <= j
  BY DEF Stores!Best
<1>. HIDE DEF those
<1>4. Stores!Best(k) \in those
  BY <1>2, <1>3, Least
<1>. QED
  BY <1>2, <1>4

\* What a lookup gives; if it gives nothing, the caches have neither answer nor refusal.
LEMMA HitIs ==
  ASSUME Stores!StoresAssumption, StoresInv, NEW k \in Keys, NEW stream \in BOOLEAN, NEW embeds \in BOOLEAN,
         Stores!Lookup(k, stream, embeds)
  PROVE  /\ hit' \in Stores!Hits \cup {Nothing} /\ HitSound'
         /\ hit' = Nothing => ~Stores!Live(k) /\ ~Stores!RefusalLive(k)
<1>0. storeClock \in Nat /\ Nothing \notin Stores!Hits
  BY StoresTypes DEF StoresInv, Stores!StoresAssumption
<1>1. CASE Stores!Live(k)
  <2>. DEFINE e == Stores!Entry(k)
  <2>1. hit' = [level |-> "exact", key |-> k, of |-> k, age |-> storeClock - e.made]
    BY <1>1 DEF Stores!Lookup
  <2>2. PICK p \in 1 .. Len(exactStore) : e = exactStore[p]
    BY <1>1, PlaceIs DEF Stores!Live
  <2>3. e.made \in Nat /\ e.expires \in Nat /\ e.made <= storeClock /\ e.expires <= e.made + ExactTTL + Jitter
    BY <2>2, StoresTypes DEF StoresInv, InTime
  <2>4. storeClock <= e.expires
    BY <1>1 DEF Stores!Live
  <2>. HIDE DEF e
  <2>5. storeClock - e.made \in Nat /\ storeClock - e.made <= ExactTTL + Jitter
    <3>1. \A c, m, x, t, d \in Nat : c <= x /\ x <= m + t + d /\ m <= c => c - m \in Nat /\ c - m <= t + d
      OBVIOUS
    <3>. QED
      BY <1>0, <2>3, <2>4, <3>1, StoresSizes
  <2>6. hit' \in Stores!Hits
    BY <2>1, <2>5 DEF Stores!Hits
  <2>7. hit'.of = k /\ hit'.key = k /\ hit'.level = "exact" /\ hit'.age = storeClock - e.made
    BY <2>1
  <2>8. HitSound'
    BY <2>5, <2>7 DEF HitSound
  <2>. QED
    BY <1>0, <2>6, <2>8
<1>2. CASE ~Stores!Live(k) /\ Stores!RefusalLive(k)
  <2>1. hit' = [level |-> "negative", key |-> k, of |-> k, age |-> 0]
    BY <1>2 DEF Stores!Lookup
  <2>2. hit' \in Stores!Hits
    BY <2>1 DEF Stores!Hits
  <2>3. hit'.of = k /\ hit'.key = k /\ hit'.level = "negative"
    BY <2>1
  <2>4. HitSound'
    BY <2>3 DEF HitSound
  <2>. QED
    BY <1>0, <2>2, <2>4
<1>3. CASE ~Stores!Live(k) /\ ~Stores!RefusalLive(k) /\ embeds /\ Stores!Similar(k) # {}
  <2>. DEFINE e == semanticStore[Stores!Best(k)]
  <2>1. hit' = [level |-> "semantic", key |-> k, of |-> e.key, age |-> storeClock - e.made]
    BY <1>3 DEF Stores!Lookup
  <2>2. /\ Stores!Best(k) \in DOMAIN semanticStore /\ e.key[1] = k[1] /\ storeClock - e.made <= SemanticTTL
        /\ e.key[2] = k[2] \/ {e.key[2], k[2]} \in Alike
    BY <1>3, BestIs DEF Stores!Similar
  <2>3. e.key \in Keys /\ e.made \in 0 .. storeClock
    <3>1. \A i \in DOMAIN semanticStore : semanticStore[i] \in [key : Keys, made : 0 .. storeClock]
      <4>. DEFINE T == [key : Keys, made : 0 .. storeClock]
      <4>1. semanticStore \in Seq(T)
        BY StoresTypes DEF StoresInv
      <4>. HIDE DEF T
      <4>2. \A i \in DOMAIN semanticStore : semanticStore[i] \in T
        BY <4>1
      <4>. QED
        BY <4>2 DEF T
    <3>. QED
      BY <2>2, <3>1
  <2>. HIDE DEF e
  <2>4. storeClock - e.made \in Nat
    BY <1>0, <2>3
  <2>5. hit' \in Stores!Hits
    BY <2>1, <2>3, <2>4 DEF Stores!Hits
  <2>6. hit'.of = e.key /\ hit'.key = k /\ hit'.level = "semantic" /\ hit'.age = storeClock - e.made
    BY <2>1
  <2>7. e.key = k \/ {e.key[2], k[2]} \in Alike
    BY <2>2, <2>3 DEF Stores!StoresAssumption
  <2>8. HitSound'
    BY <2>2, <2>6, <2>7 DEF HitSound
  <2>. QED
    BY <1>0, <2>5, <2>8
<1>4. CASE ~Stores!Live(k) /\ ~Stores!RefusalLive(k) /\ ~(embeds /\ Stores!Similar(k) # {})
  <2>1. hit' = Nothing
    BY <1>4 DEF Stores!Lookup
  <2>. QED
    BY <1>4, <2>1 DEF HitSound
<1>. QED
  BY <1>1, <1>2, <1>3, <1>4

\* Entries that are left are entries of before.
LEMMA EntriesLeft ==
  ASSUME Stores!StoresAssumption, StoresInv, storeClock <= storeClock', storeClock' \in Nat,
         \A i \in 1 .. Len(exactStore') : \E j \in 1 .. Len(exactStore) : exactStore'[i] = exactStore[j]
  PROVE  /\ \A i \in 1 .. Len(exactStore') : InTime(exactStore[i])'
         /\ \A x \in Keys : Answered(x)' => Answered(x)
<1>1. \A e : InTime(e) /\ e.made \in Nat => e.made <= storeClock' /\ e.expires <= e.made + ExactTTL + Jitter
  BY StoresTypes DEF StoresInv, InTime
<1>2. \A j \in 1 .. Len(exactStore) : exactStore[j].made \in Nat /\ exactStore[j].expires \in Nat /\ InTime(exactStore[j])
  BY StoresTypes DEF StoresInv
<1>3. storeClock \in Nat
  BY StoresTypes DEF StoresInv
<1>4. ASSUME NEW i \in 1 .. Len(exactStore')
      PROVE  exactStore'[i].made <= storeClock' /\ exactStore'[i].expires <= exactStore'[i].made + ExactTTL + Jitter
  BY <1>1, <1>2
<1>5. ASSUME NEW x \in Keys, NEW i \in 1 .. Len(exactStore'), exactStore'[i].key = x, storeClock' <= exactStore'[i].expires
      PROVE  Answered(x)
  <2>1. PICK j \in 1 .. Len(exactStore) : exactStore'[i] = exactStore[j]
    OBVIOUS
  <2>2. storeClock <= exactStore[j].expires
    BY <1>2, <1>3, <1>5, <2>1
  <2>. QED
    BY <1>5, <2>1, <2>2 DEF Answered
<1>. QED
  BY <1>4, <1>5 DEF InTime, Answered

LEMMA LookupIInv ==
  ASSUME Stores!StoresAssumption, StoresInv, NEW k \in Keys, NEW stream \in BOOLEAN, NEW embeds \in BOOLEAN,
         Stores!Lookup(k, stream, embeds)
  PROVE  StoresInv'
<1>0. /\ storeClock \in Nat /\ UNCHANGED <<storeClock, semanticStore>> /\ Stores!GetExact(k)
      /\ refused \in [Keys -> Nat \cup {Nothing}] /\ Len(exactStore) \in Nat
  BY StoresTypes DEF Stores!Lookup, StoresInv, Stores!StoresTypeOK
<1>1. /\ exactStore' \in Seq(Stores!Entries) /\ lastUsed' \in Seq(Keys)
      /\ Beside(exactStore', lastUsed') /\ NoneTwice(lastUsed') /\ Len(exactStore') <= Len(exactStore)
      /\ \A i \in 1 .. Len(exactStore') : \E j \in 1 .. Len(exactStore) : exactStore'[i] = exactStore[j]
      /\ ~Stores!Live(k) => \A i \in 1 .. Len(exactStore') : exactStore'[i].key # k
  BY <1>0, GetIs
<1>2. /\ refused' \in [Keys -> Nat \cup {Nothing}]
      /\ \A x \in Keys : refused'[x] = refused[x] \/ refused'[x] = Nothing
  BY <1>0 DEF Stores!Lookup, Stores!GetRefusal
<1>3. \A x \in Keys : Stores!RefusalLive(x)' => Stores!RefusalLive(x)
  BY <1>0, <1>2 DEF Stores!RefusalLive
<1>4. /\ \A i \in 1 .. Len(exactStore') : InTime(exactStore[i])'
      /\ \A x \in Keys : Answered(x)' => Answered(x)
  BY <1>0, <1>1, EntriesLeft
<1>5. /\ hit' \in Stores!Hits \cup {Nothing} /\ HitSound'
      /\ hit' = Nothing => ~Stores!Live(k) /\ ~Stores!RefusalLive(k)
  BY HitIs
<1>6. /\ flights' \in [Keys -> 0 .. 1] /\ streams' \in [Keys -> Nat] /\ overlapped' \subseteq Keys
      /\ \A x \in Keys : OverlapNoted(x)'
  <2>1. CASE hit' # Nothing
    <3>1. UNCHANGED <<flights, streams, overlapped>>
      BY <2>1 DEF Stores!Lookup, Stores!generations
    <3>2. \A x \in Keys : Stores!Working(x)' = Stores!Working(x)
      BY <3>1 DEF Stores!Working
    <3>. QED
      BY <1>3, <1>4, <3>1, <3>2 DEF StoresInv, Stores!StoresTypeOK, OverlapNoted
  <2>2. CASE hit' = Nothing
    <3>1. Stores!Begin(k, stream)
      BY <2>2 DEF Stores!Lookup
    <3>2. /\ flights' \in [Keys -> 0 .. 1] /\ streams' \in [Keys -> Nat] /\ overlapped' \subseteq Keys
          /\ Stores!Working(k)' = Stores!Working(k) + 1
          /\ \A x \in Keys \ {k} : Stores!Working(x)' = Stores!Working(x) /\ (x \in overlapped' <=> x \in overlapped)
          /\ k \in overlapped' <=> Stores!Working(k) # 0
      BY <3>1, BeginIs
    <3>3. ~Answered(k)'
      BY <1>1, <1>5, <2>2 DEF Answered
    <3>4. OverlapNoted(k)'
      <4>1. Stores!Working(k) \in Nat
        BY StoresTypes DEF StoresInv
      <4>. QED
        BY <3>2, <3>3, <4>1 DEF OverlapNoted
    <3>5. \A x \in Keys \ {k} : OverlapNoted(x)'
      BY <1>3, <1>4, <3>2 DEF StoresInv, OverlapNoted
    <3>. QED
      BY <3>2, <3>4, <3>5
  <2>. QED
    BY <2>1, <2>2
<1>7. Stores!StoresTypeOK'
  BY <1>0, <1>1, <1>2, <1>5, <1>6 DEF StoresInv, Stores!StoresTypeOK
<1>8. Len(exactStore') <= MaxExact /\ Len(semanticStore') <= MaxSemantic
  <2>1. Len(exactStore') \in Nat /\ Len(exactStore) <= MaxExact /\ MaxExact \in Nat
    BY <1>1, StoresSizes DEF StoresInv
  <2>. QED
    BY <1>0, <1>1, <2>1 DEF StoresInv
<1>. QED
  BY <1>1, <1>4, <1>5, <1>6, <1>7, <1>8 DEF StoresInv

\* What semanticCache.Store leaves.
LEMMA SemanticIs ==
  ASSUME Stores!StoresAssumption, StoresInv, NEW k \in Keys, Stores!SetSemantic(k)
  PROVE  semanticStore' \in Seq([key : Keys, made : 0 .. storeClock]) /\ Len(semanticStore') <= MaxSemantic
<1>. DEFINE T == [key : Keys, made : 0 .. storeClock]
            n == Len(semanticStore)
            D == {i \in DOMAIN semanticStore : storeClock - semanticStore[i].made <= SemanticTTL}
            c == Cardinality(D)
            places == Stores!InOrder(D)
            alive == [m \in DOMAIN places |-> semanticStore[places[m]]]
            room == IF Len(alive) >= MaxSemantic THEN Tail(alive) ELSE alive
            entry == [key |-> k, made |-> storeClock]
<1>1. storeClock \in Nat /\ n \in Nat /\ n <= MaxSemantic /\ DOMAIN semanticStore = 1 .. n /\ semanticStore \in Seq(T)
  BY StoresTypes DEF StoresInv
<1>2. entry \in T
  BY <1>1
<1>3. semanticStore' = Append(room, entry)
  BY DEF Stores!SetSemantic
<1>4. D \in SUBSET (1 .. n)
  BY <1>1
<1>5. c \in 0 .. n /\ DOMAIN places = 1 .. c /\ \A m \in 1 .. c : places[m] \in D
  BY <1>1, <1>4, InOrderOf, StoresPlaces
<1>. HIDE DEF T, entry, places, c
<1>6. alive \in Seq(T) /\ Len(alive) = c
  <2>1. \A m \in 1 .. c : places[m] \in 1 .. n
    BY <1>4, <1>5
  <2>2. \A m \in 1 .. c : semanticStore[places[m]] \in T
    BY <1>1, <2>1
  <2>3. alive = [m \in 1 .. c |-> semanticStore[places[m]]]
    BY <1>5
  <2>4. c \in Nat
    BY <1>1, <1>5
  <2>. HIDE DEF alive
  <2>. QED
    BY <2>2, <2>3, <2>4
<1>. HIDE DEF alive
<1>7. room \in Seq(T) /\ Len(room) <= MaxSemantic - 1
  <2>1. c \in Nat /\ c <= MaxSemantic /\ MaxSemantic \in Nat /\ MaxSemantic >= 1
    BY <1>1, <1>5, StoresSizes
  <2>2. CASE Len(alive) >= MaxSemantic
    <3>1. alive # <<>> /\ Tail(alive) \in Seq(T) /\ Len(Tail(alive)) = c - 1
      BY <1>6, <2>1, <2>2
    <3>. QED
      BY <2>1, <2>2, <3>1
  <2>3. CASE ~(Len(alive) >= MaxSemantic)
    BY <1>6, <2>1, <2>3
  <2>. QED
    BY <2>2, <2>3
<1>. HIDE DEF room
<1>8. semanticStore' \in Seq(T) /\ Len(semanticStore') = Len(room) + 1 /\ Len(room) \in Nat
  BY <1>2, <1>3, <1>7
<1>. QED
  BY <1>7, <1>8, StoresSizes DEF T

LEMMA StoreAnswerIInv ==
  ASSUME Stores!StoresAssumption, StoresInv, NEW k \in Keys, NEW stream \in BOOLEAN, NEW embeds \in BOOLEAN,
         NEW ttl \in ExactTTL - Jitter .. ExactTTL + Jitter, Stores!StoreAnswer(k, stream, ttl, embeds)
  PROVE  StoresInv'
<1>1. /\ Stores!End(k, stream) /\ Stores!SetExact(k, ttl) /\ hit' = Nothing /\ UNCHANGED storeClock
      /\ refused' = [refused EXCEPT ![k] = Nothing]
      /\ overlapped' = (IF Stores!Working(k) = 1 THEN overlapped \ {k} ELSE overlapped)
  BY DEF Stores!StoreAnswer, Stores!Clear
<1>2. storeClock \in Nat /\ ttl \in Nat /\ ttl <= ExactTTL + Jitter
  BY StoresSizes, StoresTypes DEF StoresInv
<1>3. /\ exactStore' \in Seq(Stores!Entries) /\ lastUsed' \in Seq(Keys)
      /\ Beside(exactStore', lastUsed') /\ NoneTwice(lastUsed') /\ Len(exactStore') <= MaxExact
      /\ \A i \in 1 .. Len(exactStore') :
           \/ exactStore'[i] = [key |-> k, made |-> storeClock, expires |-> storeClock + ttl]
           \/ \E j \in 1 .. Len(exactStore) : exactStore'[i] = exactStore[j] /\ exactStore'[i].key # k
  BY <1>1, <1>2, SetIs
<1>4. semanticStore' \in Seq([key : Keys, made : 0 .. storeClock]) /\ Len(semanticStore') <= MaxSemantic
  <2>1. CASE embeds
    BY <2>1, SemanticIs DEF Stores!StoreAnswer
  <2>2. CASE ~embeds
    <3>1. semanticStore' = semanticStore
      BY <2>2 DEF Stores!StoreAnswer
    <3>. QED
      BY <3>1, StoresTypes DEF StoresInv
  <2>. QED
    BY <2>1, <2>2
<1>5. /\ flights' \in [Keys -> 0 .. 1] /\ streams' \in [Keys -> Nat]
      /\ Stores!Working(k)' = Stores!Working(k) - 1
      /\ \A x \in Keys \ {k} : Stores!Working(x)' = Stores!Working(x)
  BY <1>1, EndIs
<1>6. \A i \in 1 .. Len(exactStore') : InTime(exactStore[i])'
  <2>. SUFFICES ASSUME NEW i \in 1 .. Len(exactStore')
                PROVE  exactStore'[i].made <= storeClock /\ exactStore'[i].expires <= exactStore'[i].made + ExactTTL + Jitter
    BY <1>1 DEF InTime
  <2>1. CASE exactStore'[i] = [key |-> k, made |-> storeClock, expires |-> storeClock + ttl]
    <3>1. exactStore'[i].made = storeClock /\ exactStore'[i].expires = storeClock + ttl
      BY <2>1
    <3>2. storeClock + ttl <= storeClock + ExactTTL + Jitter
      BY <1>2, StoresSizes
    <3>. QED
      BY <1>2, <3>1, <3>2
  <2>2. CASE \E j \in 1 .. Len(exactStore) : exactStore'[i] = exactStore[j]
    <3>1. PICK j \in 1 .. Len(exactStore) : exactStore'[i] = exactStore[j]
      BY <2>2
    <3>2. InTime(exactStore[j])
      BY DEF StoresInv
    <3>. QED
      BY <3>1, <3>2 DEF InTime
  <2>. QED
    BY <1>3, <2>1, <2>2
<1>7. \A x \in Keys \ {k} : Answered(x)' => Answered(x)
  <2>. SUFFICES ASSUME NEW x \in Keys \ {k}, NEW i \in 1 .. Len(exactStore'), exactStore'[i].key = x,
                       storeClock <= exactStore'[i].expires
                PROVE  Answered(x)
    BY <1>1 DEF Answered
  <2>1. PICK j \in 1 .. Len(exactStore) : exactStore'[i] = exactStore[j]
    BY <1>3
  <2>. QED
    BY <2>1 DEF Answered
<1>8. refused \in [Keys -> Nat \cup {Nothing}] /\ overlapped \subseteq Keys
  BY DEF StoresInv, Stores!StoresTypeOK
<1>9. /\ ~Stores!RefusalLive(k)'
      /\ \A x \in Keys \ {k} : Stores!RefusalLive(x)' => Stores!RefusalLive(x)
  BY <1>1, <1>8 DEF Stores!RefusalLive
<1>10. OverlapNoted(k)'
  <2>1. Stores!Working(k) \in Nat /\ (Stores!Working(k) >= 2 => k \in overlapped)
    BY StoresTypes DEF StoresInv, OverlapNoted
  <2>2. Stores!Working(k)' >= 1 => k \in overlapped'
    BY <1>1, <1>5, <2>1
  <2>. QED
    BY <1>5, <1>9, <2>1, <2>2 DEF OverlapNoted
<1>11. \A x \in Keys \ {k} : OverlapNoted(x)'
  BY <1>1, <1>5, <1>7, <1>9 DEF StoresInv, OverlapNoted
<1>12. Stores!StoresTypeOK'
  BY <1>1, <1>3, <1>4, <1>5, <1>8 DEF StoresInv, Stores!StoresTypeOK
<1>13. HitSound'
  BY <1>1 DEF HitSound
<1>. QED
  BY <1>3, <1>4, <1>6, <1>10, <1>11, <1>12, <1>13 DEF StoresInv

LEMMA StoreRefusalIInv ==
  ASSUME Stores!StoresAssumption, StoresInv, NEW k \in Keys, NEW stream \in BOOLEAN,
         NEW ttl \in RefusalTTL - RefusalJitter .. RefusalTTL + RefusalJitter,
         Stores!StoreRefusal(k, stream, ttl)
  PROVE  StoresInv'
<1>1. /\ Stores!End(k, stream) /\ hit' = Nothing
      /\ UNCHANGED <<storeClock, exactStore, semanticStore, lastUsed, overlapped>>
      /\ refused' = [x \in Keys |-> IF x = k THEN storeClock + ttl
                                   ELSE IF Stores!RefusalLive(x) THEN refused[x] ELSE Nothing]
  BY DEF Stores!StoreRefusal
<1>2. storeClock + ttl \in Nat
  BY StoresSizes, StoresTypes DEF StoresInv
<1>3. refused \in [Keys -> Nat \cup {Nothing}] /\ refused' \in [Keys -> Nat \cup {Nothing}]
  BY <1>1, <1>2 DEF StoresInv, Stores!StoresTypeOK
<1>4. /\ flights' \in [Keys -> 0 .. 1] /\ streams' \in [Keys -> Nat]
      /\ Stores!Working(k)' = Stores!Working(k) - 1
      /\ \A x \in Keys \ {k} : Stores!Working(x)' = Stores!Working(x)
  BY <1>1, EndIs
<1>5. \A x \in Keys : Answered(x)' <=> Answered(x)
  BY <1>1 DEF Answered
<1>6. \A x \in Keys \ {k} : Stores!RefusalLive(x)' => Stores!RefusalLive(x)
  BY <1>1, <1>3 DEF Stores!RefusalLive
<1>7. OverlapNoted(k)'
  <2>1. Stores!Working(k) \in Nat /\ Stores!Working(k)' \in Nat
    <3>1. flights'[k] \in Nat /\ streams'[k] \in Nat
      BY <1>4
    <3>. QED
      BY <3>1, StoresTypes DEF StoresInv, Stores!Working
  <2>2. Stores!Working(k) >= 2 => k \in overlapped
    BY DEF StoresInv, OverlapNoted
  <2>3. Answered(k) => k \in overlapped
    <3>1. Stores!Working(k) = 1 /\ Answered(k) => k \in overlapped
      BY DEF StoresInv, OverlapNoted
    <3>. QED
      BY <1>4, <2>1, <2>2, <3>1
  <2>. QED
    BY <1>1, <1>4, <1>5, <2>1, <2>2, <2>3 DEF OverlapNoted
<1>8. \A x \in Keys \ {k} : OverlapNoted(x)'
  BY <1>1, <1>4, <1>5, <1>6 DEF StoresInv, OverlapNoted
<1>9. Stores!StoresTypeOK'
  BY <1>1, <1>3, <1>4 DEF StoresInv, Stores!StoresTypeOK
<1>10. HitSound' /\ \A i \in 1 .. Len(exactStore') : InTime(exactStore[i])'
  BY <1>1 DEF StoresInv, HitSound, InTime
<1>. QED
  BY <1>1, <1>7, <1>8, <1>9, <1>10 DEF StoresInv

LEMMA StoreNothingIInv ==
  ASSUME Stores!StoresAssumption, StoresInv, NEW k \in Keys, NEW stream \in BOOLEAN,
         Stores!StoreNothing(k, stream)
  PROVE  StoresInv'
<1>1. /\ Stores!End(k, stream) /\ hit' = Nothing
      /\ UNCHANGED <<storeClock, exactStore, refused, semanticStore, lastUsed, overlapped>>
  BY DEF Stores!StoreNothing
<1>2. /\ flights' \in [Keys -> 0 .. 1] /\ streams' \in [Keys -> Nat]
      /\ Stores!Working(k)' = Stores!Working(k) - 1
      /\ \A x \in Keys \ {k} : Stores!Working(x)' = Stores!Working(x)
  BY <1>1, EndIs
<1>3. \A x \in Keys : (Answered(x)' <=> Answered(x)) /\ (Stores!RefusalLive(x)' <=> Stores!RefusalLive(x))
  BY <1>1 DEF Answered, Stores!RefusalLive
<1>4. OverlapNoted(k)'
  <2>1. Stores!Working(k) \in Nat
    BY StoresTypes DEF StoresInv
  <2>2. OverlapNoted(k)
    BY DEF StoresInv
  <2>. QED
    BY <1>1, <1>2, <1>3, <2>1, <2>2 DEF OverlapNoted
<1>5. \A x \in Keys \ {k} : OverlapNoted(x)'
  BY <1>1, <1>2, <1>3 DEF StoresInv, OverlapNoted
<1>6. Stores!StoresTypeOK'
  BY <1>1, <1>2 DEF StoresInv, Stores!StoresTypeOK
<1>7. HitSound' /\ \A i \in 1 .. Len(exactStore') : InTime(exactStore[i])'
  BY <1>1 DEF StoresInv, HitSound, InTime
<1>. QED
  BY <1>1, <1>4, <1>5, <1>6, <1>7 DEF StoresInv

LEMMA StoresTick ==
  ASSUME Stores!StoresAssumption, StoresInv, Stores!Tick
  PROVE  StoresInv'
<1>1. /\ storeClock < MaxTime /\ storeClock' = storeClock + 1 /\ hit' = Nothing
      /\ UNCHANGED <<exactStore, refused, semanticStore, lastUsed, flights, streams, overlapped>>
  BY DEF Stores!Tick, Stores!generations
<1>2. storeClock \in Nat /\ storeClock' \in 0 .. MaxTime /\ storeClock <= storeClock' /\ storeClock' \in Nat
  BY <1>1, StoresTypes, StoresSizes DEF StoresInv
<1>3. /\ \A i \in 1 .. Len(exactStore') : InTime(exactStore[i])'
      /\ \A x \in Keys : Answered(x)' => Answered(x)
  BY <1>1, <1>2, EntriesLeft
<1>4. \A x \in Keys : Stores!RefusalLive(x)' => Stores!RefusalLive(x)
  BY <1>1, <1>2, StoresTypes DEF StoresInv, Stores!RefusalLive
<1>5. \A x \in Keys : OverlapNoted(x)'
  <2>1. \A x \in Keys : Stores!Working(x)' = Stores!Working(x)
    BY <1>1 DEF Stores!Working
  <2>. QED
    BY <1>1, <1>3, <1>4, <2>1 DEF StoresInv, OverlapNoted
<1>6. semanticStore' \in Seq([key : Keys, made : 0 .. storeClock'])
  <2>. DEFINE S == [key : Keys, made : 0 .. storeClock]
              T == [key : Keys, made : 0 .. storeClock']
  <2>1. semanticStore \in Seq(S) /\ S \subseteq T
    BY <1>2, StoresTypes DEF StoresInv
  <2>. HIDE DEF S, T
  <2>2. semanticStore \in Seq(T)
    BY <2>1
  <2>. QED
    BY <1>1, <2>2 DEF T
<1>7. Stores!StoresTypeOK'
  BY <1>1, <1>2, <1>6 DEF StoresInv, Stores!StoresTypeOK
<1>8. HitSound'
  BY <1>1 DEF HitSound
<1>. QED
  BY <1>1, <1>3, <1>5, <1>7, <1>8 DEF StoresInv

LEMMA StoresKept ==
  ASSUME Stores!StoresAssumption, StoresInv, Stores!Next
  PROVE  StoresInv'
<1>1. ASSUME NEW k \in Keys, NEW stream \in BOOLEAN, Stores!Ask(k, stream)
      PROVE  StoresInv'
  BY <1>1, LookupIInv, StoreAnswerIInv, StoreRefusalIInv, StoreNothingIInv DEF Stores!Ask
<1>. QED
  BY <1>1, StoresTick DEF Stores!Next
-----------------------------------------------------------------------------
(* The merge of two searches and the filter behind it (Retrieval). No        *)
(* document is in the merged list before one with a better score, so what    *)
(* is better than one that is there is there, too.                           *)

LEMMA SearchCounts ==
  \A S : (Search!IsFiniteSet(S) <=> IsFiniteSet(S)) /\ Search!Cardinality(S) = Cardinality(S)
  BY DEF Search!IsFiniteSet, IsFiniteSet, Search!Cardinality, Cardinality

LEMMA SearchPlaces ==
  \A D : Search!InOrder(D) = InOrder(D)
  BY DEF Search!InOrder, Search!Cardinality, Search!IsFiniteSet, InOrder, Cardinality,
     IsFiniteSet

\* Two ranks of one document against one of another.
LEMMA BothBeforeOne ==
  ASSUME NEW n \in Nat, NEW k \in Nat, n < k + 2,
         NEW a \in k + 1 .. k + n, NEW b \in k + 1 .. k + n, NEW c \in k + 1 .. k + n
  PROVE  a * b < (a + b) * c
<1>. DEFINE x == a - (k + 1)
            y == b - (k + 1)
            m == k + 1
<1>1. x \in 0 .. k /\ y \in 0 .. k /\ m \in Nat /\ c \in Nat /\ c >= m
  OBVIOUS
<1>2. a = m + x /\ b = m + y
  OBVIOUS
<1>3. x * y <= k * k
  <2>1. x * y <= k * y
    BY <1>1, Monotone, SMT
  <2>2. k * y <= k * k
    BY <1>1, Monotone, SMT
  <2>3. x * y \in Int /\ k * y \in Int /\ k * k \in Int
    BY <1>1, SMT
  <2>. QED
    BY <2>1, <2>2, <2>3
<1>4. m * m = k * k + 2 * k + 1
  OBVIOUS
<1>. HIDE DEF x, y, m
<1>5. (m + x) * (m + y) = m * m + m * (x + y) + x * y
  BY <1>1, SMT
<1>6. ((m + x) + (m + y)) * m = 2 * (m * m) + m * (x + y)
  BY <1>1, SMT
<1>7. ((m + x) + (m + y)) * m <= ((m + x) + (m + y)) * c
  BY <1>1, Monotone, SMT
<1>8. /\ m * m \in Int /\ m * (x + y) \in Int /\ x * y \in Int /\ k * k \in Int
      /\ ((m + x) + (m + y)) * c \in Int
  BY <1>1, SMT
<1>9. m * m + m * (x + y) + x * y < 2 * (m * m) + m * (x + y)
  BY <1>1, <1>3, <1>4, <1>8
<1>10. (m + x) * (m + y) < ((m + x) + (m + y)) * c
  <2>1. (m + x) * (m + y) < ((m + x) + (m + y)) * m
    BY <1>5, <1>6, <1>9, Zenon
  <2>2. ((m + x) + (m + y)) * m \in Int /\ (m + x) * (m + y) \in Int
    BY <1>5, <1>6, <1>8
  <2>. QED
    BY <1>7, <1>8, <2>1, <2>2
<1>. QED
  BY <1>2, <1>10, Zenon

\* What never steps back and has room for its steps only stands at its place.
LEMMA Steady ==
  ASSUME NEW n \in Nat, NEW r \in [1 .. n -> 1 .. n], \A i, j \in 1 .. n : i < j => r[i] < r[j]
  PROVE  \A i \in 1 .. n : r[i] = i
<1>1. \A i \in 1 .. n : r[i] >= i
  <2>. DEFINE T == {k \in Nat : k \in 1 .. n => r[k] >= k}
  <2>1. 0 \in T
    OBVIOUS
  <2>2. ASSUME NEW k \in Nat, k \in T PROVE k + 1 \in T
    <3>1. CASE k + 1 \in 1 .. n /\ k \in 1 .. n
      <4>1. r[k] < r[k + 1] /\ r[k] >= k /\ r[k] \in Int /\ r[k + 1] \in Int
        BY <2>2, <3>1
      <4>. QED
        BY <4>1
    <3>2. CASE k = 0 \/ k + 1 \notin 1 .. n
      BY <3>2
    <3>. QED
      BY <3>1, <3>2
  <2>. HIDE DEF T
  <2>3. Nat \subseteq T
    BY <2>1, <2>2, Induction
  <2>. QED
    BY <2>3 DEF T
<1>2. \A i \in 1 .. n : r[i] <= i
  <2>. DEFINE T == {k \in Nat : n - k \in 1 .. n => r[n - k] <= n - k}
  <2>1. 0 \in T
    OBVIOUS
  <2>2. ASSUME NEW k \in Nat, k \in T PROVE k + 1 \in T
    <3>. DEFINE i == n - (k + 1)
    <3>1. CASE i \in 1 .. n
      <4>1. n - k = i + 1 /\ i + 1 \in 1 .. n
        BY <3>1
      <4>2. r[i] < r[i + 1] /\ r[i + 1] <= i + 1 /\ r[i] \in Int /\ r[i + 1] \in Int
        BY <2>2, <3>1, <4>1
      <4>. QED
        BY <4>2
    <3>. QED
      BY <3>1
  <2>. HIDE DEF T
  <2>3. Nat \subseteq T
    BY <2>1, <2>2, Induction
  <2>4. ASSUME NEW i \in 1 .. n PROVE r[i] <= i
    <3>1. n - i \in Nat /\ n - (n - i) = i
      OBVIOUS
    <3>2. n - i \in T
      BY <2>3, <3>1
    <3>. QED
      BY <3>1, <3>2 DEF T
  <2>. QED
    BY <2>4
<1>. QED
  BY <1>1, <1>2

Both == Search!ToSet(vec) \cap Search!ToSet(kw)

SearchInv ==
  /\ Search!RetrievalTypeOK
  /\ Search!ToSet(fused) \subseteq Search!Found
  /\ vec = <<>> \/ kw = <<>> => fused \in {<<>>, vec \o kw}
  /\ vec # <<>> /\ kw # <<>> =>
       \A i \in DOMAIN fused, e \in Search!Found : Search!Below(fused[i], e) => \E h \in 1 .. i - 1 : fused[h] = e
  /\ kept # Nothing => Search!Merged /\ kept = Search!Filtered

LEMMA SearchSizes ==
  ASSUME Search!RetrievalAssumption
  PROVE  /\ TopK \in Nat /\ TopK >= 1 /\ RankOffset \in Nat /\ RankOffset >= 1
         /\ FallbackTopN \in Nat /\ FallbackTopN >= 1 /\ TopK < RankOffset + 2
<1>1. {TopK, RankOffset, FallbackTopN} \subseteq Nat \ {0} /\ TopK < RankOffset + 2
  BY DEF Search!RetrievalAssumption
<1>2. TopK \in Nat \ {0} /\ RankOffset \in Nat \ {0} /\ FallbackTopN \in Nat \ {0}
  BY <1>1
<1>. QED
  BY <1>1, <1>2

\* A ranking has each document at one place.
LEMMA RankingIs ==
  ASSUME Search!RetrievalAssumption, NEW s \in Search!Rankings
  PROVE  /\ s \in Seq(Docs) /\ Len(s) \in 0 .. TopK /\ DOMAIN s = 1 .. Len(s)
         /\ s = <<>> <=> Len(s) = 0
         /\ \A i \in 1 .. Len(s) : s[i] \in Search!ToSet(s) /\ Search!RankIn(s, s[i]) = i
         /\ \A i, j \in 1 .. Len(s) : s[i] = s[j] => i = j
         /\ \A d \in Search!ToSet(s) : Search!RankIn(s, d) \in 1 .. Len(s) /\ s[Search!RankIn(s, d)] = d
         /\ \A d \in Search!ToSet(s) : \E i \in 1 .. Len(s) : s[i] = d
         /\ Search!ToSet(s) = {} => s = <<>>
<1>1. PICK n \in 0 .. TopK : s \in [1 .. n -> Docs] /\ Search!IsInjective(s)
  BY DEF Search!Rankings
<1>2. n \in Nat
  BY SearchSizes
<1>3. s \in Seq(Docs) /\ Len(s) = n /\ DOMAIN s = 1 .. n
  BY <1>1, <1>2
<1>4. \A i, j \in 1 .. n : s[i] = s[j] => i = j
  BY <1>1, <1>3 DEF Search!IsInjective
<1>5. Search!ToSet(s) = {s[i] : i \in 1 .. n}
  BY <1>3 DEF Search!ToSet
<1>6. \A d \in Search!ToSet(s) : Search!RankIn(s, d) \in 1 .. n /\ s[Search!RankIn(s, d)] = d
  BY <1>3, <1>5 DEF Search!RankIn
<1>7. \A i \in 1 .. n : s[i] \in Search!ToSet(s) /\ Search!RankIn(s, s[i]) = i
  BY <1>4, <1>5, <1>6
<1>8. s = <<>> <=> n = 0
  BY <1>2, <1>3
<1>9. Search!ToSet(s) = {} => n = 0
  BY <1>2, <1>5
<1>. QED
  BY <1>3, <1>4, <1>5, <1>6, <1>7, <1>8, <1>9

LEMMA RankingMade ==
  ASSUME Search!RetrievalAssumption, NEW n \in 0 .. TopK, NEW s \in [1 .. n -> Docs],
         \A i, j \in 1 .. n : s[i] = s[j] => i = j
  PROVE  s \in Search!Rankings
<1>1. Search!IsInjective(s)
  BY DEF Search!IsInjective
<1>. QED
  BY <1>1 DEF Search!Rankings

\* What both searches have found has a better score than what one has found.
LEMMA BothScoreMore ==
  ASSUME Search!RetrievalAssumption, Search!RetrievalTypeOK, NEW d \in Both, NEW e \in Search!Found \ Both
  PROVE  Search!Below(e, d)
<1>. DEFINE a == RankOffset + Search!RankIn(vec, d)
            b == RankOffset + Search!RankIn(kw, d)
            R == RankOffset + 1 .. RankOffset + TopK
<1>1. \A s \in {vec, kw} : \A x \in Search!ToSet(s) : RankOffset + Search!RankIn(s, x) \in R
  <2>. SUFFICES ASSUME NEW s \in {vec, kw}, NEW x \in Search!ToSet(s)
                PROVE  RankOffset + Search!RankIn(s, x) \in R
    OBVIOUS
  <2>1. Search!RankIn(s, x) \in 1 .. Len(s) /\ Len(s) \in 0 .. TopK
    BY RankingIs DEF Search!RetrievalTypeOK
  <2>. QED
    BY <2>1, SearchSizes
<1>2. d \in Search!ToSet(vec) /\ d \in Search!ToSet(kw)
  BY DEF Both
<1>3. Search!Score(d) = [num |-> a + b, den |-> a * b] /\ a \in R /\ b \in R
  BY <1>1, <1>2 DEF Search!Score
<1>4. PICK c \in R : Search!Score(e) = [num |-> 1, den |-> c]
  <2>1. CASE e \notin Search!ToSet(vec)
    <3>1. e \in Search!ToSet(kw)
      BY <2>1 DEF Search!Found
    <3>. QED
      BY <1>1, <2>1, <3>1 DEF Search!Score
  <2>2. CASE e \in Search!ToSet(vec)
    <3>1. e \notin Search!ToSet(kw)
      BY <2>2 DEF Both
    <3>. QED
      BY <1>1, <2>2, <3>1 DEF Search!Score
  <2>. QED
    BY <2>1, <2>2
<1>. HIDE DEF a, b
<1>5. a * b < (a + b) * c
  BY <1>3, <1>4, BothBeforeOne, SearchSizes
<1>6. a * b \in Int
  BY <1>3, SearchSizes, SMT
<1>7. 1 * (a * b) = a * b
  BY <1>6
<1>. QED
  BY <1>3, <1>4, <1>5, <1>7 DEF Search!Below

\* What one search has found scores less the later it comes.
LEMMA LaterScoresLess ==
  ASSUME Search!RetrievalAssumption, Search!RetrievalTypeOK, NEW s \in {vec, kw},
         NEW i \in DOMAIN s, NEW j \in DOMAIN s, i < j, s[i] \notin Both, s[j] \notin Both
  PROVE  Search!Below(s[j], s[i])
<1>1. s \in Search!Rankings
  BY DEF Search!RetrievalTypeOK
<1>2. /\ i \in 1 .. Len(s) /\ j \in 1 .. Len(s) /\ Len(s) \in Nat
      /\ s[i] \in Search!ToSet(s) /\ s[j] \in Search!ToSet(s)
      /\ Search!RankIn(s, s[i]) = i /\ Search!RankIn(s, s[j]) = j
  BY <1>1, RankingIs, SearchSizes
<1>3. \A k \in {i, j} : Search!Score(s[k]) = [num |-> 1, den |-> RankOffset + k]
  <2>1. CASE s = vec
    BY <1>2, <2>1 DEF Search!Score, Both
  <2>2. CASE s = kw
    BY <1>2, <2>2 DEF Search!Score, Both
  <2>. QED
    BY <2>1, <2>2
<1>4. 1 * (RankOffset + i) < 1 * (RankOffset + j)
  BY <1>2, SearchSizes
<1>. QED
  BY <1>3, <1>4 DEF Search!Below

LEMMA SearchInit ==
  ASSUME Search!RetrievalAssumption, Search!Init
  PROVE  SearchInv
<1>1. fused = <<>> /\ kept = Nothing
  BY DEF Search!Init
<1>2. fused \in Search!Rankings
  <2>1. 0 \in 0 .. TopK /\ fused \in [1 .. 0 -> Docs]
    BY <1>1, SearchSizes
  <2>2. \A i, j \in 1 .. 0 : fused[i] = fused[j] => i = j
    OBVIOUS
  <2>. QED
    BY <2>1, <2>2, RankingMade
<1>3. Search!ToSet(fused) = {}
  BY <1>1 DEF Search!ToSet
<1>. QED
  BY <1>1, <1>2, <1>3 DEF SearchInv, Search!Init, Search!RetrievalTypeOK

LEMMA MergeIInv ==
  ASSUME Search!RetrievalAssumption, SearchInv, NEW d \in Docs, Search!Merge(d)
  PROVE  SearchInv'
<1>. DEFINE n == Len(fused)
<1>1. /\ vec # <<>> /\ kw # <<>> /\ ~Search!Merged /\ kept = Nothing
      /\ d \in Search!Found \ Search!ToSet(fused)
      /\ \A e \in Search!Found \ Search!ToSet(fused) : ~Search!Below(d, e)
      /\ fused' = Append(fused, d) /\ UNCHANGED <<vec, near, kw, kept>>
  BY DEF Search!Merge, Search!searches
<1>2. /\ fused \in Seq(Docs) /\ n \in 0 .. TopK /\ n # TopK
      /\ \A i \in 1 .. n : fused[i] \in Search!ToSet(fused)
      /\ \A i, j \in 1 .. n : fused[i] = fused[j] => i = j
      /\ \A x \in Search!ToSet(fused) : \E i \in 1 .. n : fused[i] = x
  BY <1>1, RankingIs DEF SearchInv, Search!RetrievalTypeOK, Search!Merged
<1>3. n \in Nat /\ n + 1 \in 0 .. TopK
  BY <1>2, SearchSizes
<1>4. /\ fused' \in [1 .. n + 1 -> Docs] /\ fused'[n + 1] = d
      /\ DOMAIN fused' = 1 .. n + 1 /\ \A i \in 1 .. n : fused'[i] = fused[i]
  <2>1. fused' \in Seq(Docs) /\ Len(fused') = n + 1
    BY <1>1, <1>2
  <2>2. DOMAIN fused' = 1 .. n + 1 /\ \A i \in 1 .. n + 1 : fused'[i] \in Docs
    BY <2>1
  <2>3. fused'[n + 1] = d
    BY <1>1, <1>2
  <2>4. \A i \in 1 .. n : fused'[i] = fused[i]
    BY <1>1, <1>2
  <2>5. fused' = [i \in 1 .. n + 1 |-> fused'[i]]
    BY <2>1
  <2>. QED
    BY <2>2, <2>3, <2>4, <2>5, Zenon
<1>5. \A i, j \in 1 .. n + 1 : fused'[i] = fused'[j] => i = j
  <2>1. \A i \in 1 .. n : fused'[i] # d
    BY <1>1, <1>2, <1>4
  <2>. QED
    BY <1>2, <1>3, <1>4, <2>1
<1>6. fused' \in Search!Rankings
  BY <1>3, <1>4, <1>5, RankingMade
<1>7. Search!RetrievalTypeOK'
  BY <1>1, <1>6 DEF SearchInv, Search!RetrievalTypeOK, Search!Rankings
<1>8. Search!Found' = Search!Found /\ \A x, y : Search!Below(x, y)' <=> Search!Below(x, y)
  BY <1>1 DEF Search!Found, Search!Below, Search!Score
<1>9. Search!ToSet(fused)' \subseteq Search!Found
  <2>1. \A i \in 1 .. n + 1 : fused'[i] \in Search!Found
    BY <1>1, <1>2, <1>3, <1>4 DEF SearchInv
  <2>. QED
    BY <1>4, <2>1 DEF Search!ToSet
<1>10. ASSUME NEW i \in 1 .. n + 1, NEW e \in Search!Found, Search!Below(fused'[i], e)
       PROVE  \E h \in 1 .. i - 1 : fused'[h] = e
  <2>1. CASE i \in 1 .. n
    <3>1. PICK h \in 1 .. i - 1 : fused[h] = e
      BY <1>1, <1>2, <1>4, <1>10, <2>1 DEF SearchInv
    <3>2. h \in 1 .. n
      BY <1>3, <2>1
    <3>. QED
      BY <1>4, <3>1, <3>2
  <2>2. CASE i = n + 1
    <3>1. e \in Search!ToSet(fused)
      BY <1>1, <1>4, <1>10, <2>2
    <3>2. PICK h \in 1 .. n : fused[h] = e
      BY <1>2, <3>1
    <3>. QED
      BY <1>3, <1>4, <2>2, <3>2
  <2>. QED
    BY <1>3, <2>1, <2>2
<1>11. \A i \in DOMAIN fused', e \in Search!Found' :
         Search!Below(fused[i], e)' => \E h \in 1 .. i - 1 : fused'[h] = e
  <2>1. \A i \in 1 .. n + 1, e \in Search!Found : Search!Below(fused[i], e)' <=> Search!Below(fused'[i], e)
    BY <1>1 DEF Search!Below, Search!Score
  <2>. QED
    BY <1>4, <1>8, <1>10, <2>1
<1>. QED
  BY <1>1, <1>7, <1>8, <1>9, <1>11 DEF SearchInv

LEMMA TakeOneIInv ==
  ASSUME Search!RetrievalAssumption, SearchInv, Search!TakeOne
  PROVE  SearchInv'
<1>1. /\ kept = Nothing /\ (vec = <<>> \/ kw = <<>>)
      /\ fused' = vec \o kw /\ UNCHANGED <<vec, near, kw, kept>>
  BY DEF Search!TakeOne, Search!searches
<1>2. /\ vec \in Seq(Docs) /\ kw \in Seq(Docs) /\ vec \in Search!Rankings /\ kw \in Search!Rankings
  BY RankingIs DEF SearchInv, Search!RetrievalTypeOK
<1>3. fused' = IF vec = <<>> THEN kw ELSE vec
  BY <1>1, <1>2
<1>4. Search!RetrievalTypeOK'
  BY <1>1, <1>2, <1>3 DEF SearchInv, Search!RetrievalTypeOK, Search!Rankings
<1>5. Search!ToSet(fused)' \subseteq Search!Found'
  BY <1>1, <1>3 DEF Search!ToSet, Search!Found
<1>. QED
  BY <1>1, <1>4, <1>5 DEF SearchInv

\* What the filter leaves is a part of what was merged, in its order.
LEMMA FilteredIs ==
  ASSUME Search!RetrievalAssumption, SearchInv
  PROVE  /\ Search!Filtered \in Search!Rankings
         /\ (\E i \in DOMAIN fused : Search!NearEnough(fused[i])) =>
              /\ Search!Filtered # <<>>
              /\ \A i \in DOMAIN fused : Search!NearEnough(fused[i]) => fused[i] \in Search!ToSet(Search!Filtered)
         /\ ~(\E i \in DOMAIN fused : Search!NearEnough(fused[i])) => Search!Filtered = Search!AllOf(fused)
<1>. DEFINE n == Len(fused)
            D == {i \in DOMAIN fused : Search!NearEnough(fused[i])}
            places == Search!InOrder(D)
            c == Cardinality(D)
            some == [k \in DOMAIN places |-> fused[places[k]]]
<1>1. /\ fused \in Seq(Docs) /\ n \in 0 .. TopK /\ n \in Nat /\ DOMAIN fused = 1 .. n
      /\ \A i, j \in 1 .. n : fused[i] = fused[j] => i = j
  BY RankingIs, SearchSizes DEF SearchInv, Search!RetrievalTypeOK
<1>2. D \in SUBSET (1 .. n)
  BY <1>1
<1>3. /\ IsFiniteSet(D) /\ c \in 0 .. n /\ DOMAIN places = 1 .. c
      /\ \A k \in 1 .. c : places[k] \in D
      /\ \A k, l \in 1 .. c : k # l => places[k] # places[l]
  BY <1>1, <1>2, InOrderOf, SearchPlaces
<1>4. Search!Filtered = IF places # <<>> THEN some ELSE Search!AllOf(fused)
  BY DEF Search!Filtered
<1>5. places = <<>> <=> D = {}
  <2>1. places = <<>> <=> c = 0
    <3>1. places = [k \in 1 .. c |-> places[k]]
      <4>. DEFINE place(k) == CHOOSE i \in D : Search!Cardinality({j \in D : j < i}) = k - 1
      <4>1. places = [k \in 1 .. Search!Cardinality(D) |-> place(k)]
        BY DEF Search!InOrder
      <4>. HIDE DEF place, places
      <4>2. places = [k \in 1 .. c |-> place(k)]
        BY <4>1, SearchCounts
      <4>. QED
        BY <4>2
    <3>2. c = 0 => places = <<>>
      BY <3>1
    <3>3. places = <<>> => 1 .. c = {}
      BY <1>3
    <3>. QED
      BY <1>1, <1>3, <3>2, <3>3
  <2>. QED
    BY <1>3, <2>1, FS_EmptySet
<1>. HIDE DEF places
<1>6. /\ some \in [1 .. c -> Docs] /\ DOMAIN some = 1 .. c
      /\ \A k, l \in 1 .. c : some[k] = some[l] => k = l
  <2>1. \A k \in 1 .. c : some[k] = fused[places[k]] /\ places[k] \in 1 .. n
    BY <1>2, <1>3
  <2>2. some \in [1 .. c -> Docs]
    BY <1>1, <1>3, <2>1
  <2>. QED
    BY <1>1, <1>3, <2>1, <2>2
<1>7. some \in Search!Rankings
  <2>1. c \in 0 .. TopK
    BY <1>1, <1>3, SearchSizes
  <2>. QED
    BY <1>6, <2>1, RankingMade
<1>8. Search!AllOf(fused) \in Search!Rankings
  <2>. DEFINE m == IF FallbackTopN < n THEN FallbackTopN ELSE n
              front == [i \in 1 .. m |-> fused[i]]
  <2>1. m \in 0 .. TopK /\ m \in 0 .. n
    BY <1>1, SearchSizes
  <2>. HIDE DEF m
  <2>2. front \in [1 .. m -> Docs] /\ \A i, j \in 1 .. m : front[i] = front[j] => i = j
    BY <1>1, <2>1
  <2>3. front \in Search!Rankings
    BY <2>1, <2>2, RankingMade
  <2>4. Search!AllOf(fused) = front
    BY DEF Search!AllOf, m
  <2>. QED
    BY <2>3, <2>4
<1>9. ASSUME NEW i \in D PROVE fused[i] \in Search!ToSet(some)
  <2>1. PICK k \in 1 .. c : places[k] = i
    <3>. DEFINE f == [k \in 1 .. c |-> places[k]]
    <3>1. f \in [1 .. c -> D]
      BY <1>3
    <3>2. IsFiniteSet(1 .. c) /\ Cardinality(1 .. c) = c
      BY <1>1, <1>3, FS_Interval
    <3>3. IsInjective(f)
      BY <1>3 DEF IsInjective
    <3>4. f \in Injection(1 .. c, D)
      BY <3>1, <3>3 DEF Injection
    <3>5. f \in Surjection(1 .. c, D)
      BY <1>3, <3>2, <3>4, FS_Injection
    <3>. QED
      BY <3>5 DEF Surjection
  <2>. QED
    BY <1>6, <2>1 DEF Search!ToSet
<1>. QED
  BY <1>4, <1>5, <1>7, <1>8, <1>9

LEMMA FilterIInv ==
  ASSUME Search!RetrievalAssumption, SearchInv, Search!Filter
  PROVE  SearchInv'
<1>1. Search!Merged /\ kept' = Search!Filtered /\ UNCHANGED <<vec, near, kw, fused>>
  BY DEF Search!Filter, Search!searches
<1>2. kept' \in Search!Rankings
  BY <1>1, FilteredIs
<1>3. Search!RetrievalTypeOK'
  BY <1>1, <1>2 DEF SearchInv, Search!RetrievalTypeOK, Search!Rankings
<1>4. /\ Search!Merged' <=> Search!Merged
      /\ Search!Filtered' = Search!Filtered /\ Search!Found' = Search!Found
      /\ Search!ToSet(fused)' = Search!ToSet(fused)
      /\ \A i \in DOMAIN fused, e \in Search!Found : Search!Below(fused[i], e)' <=> Search!Below(fused[i], e)
  BY <1>1 DEF Search!Merged, Search!Filtered, Search!Found, Search!ToSet, Search!Below, Search!Score,
     Search!NearEnough, Search!HasDistance, Search!AllOf
<1>. QED
  BY <1>1, <1>3, <1>4 DEF SearchInv

LEMMA SearchKept ==
  ASSUME Search!RetrievalAssumption, SearchInv, Search!Next
  PROVE  SearchInv'
  BY MergeIInv, TakeOneIInv, FilterIInv DEF Search!Next

\* What is better than a merged document was merged before it.
LEMMA BetterIsBefore ==
  ASSUME Search!RetrievalAssumption, SearchInv, vec # <<>>, kw # <<>>,
         NEW d \in Search!Found, NEW e \in Search!ToSet(fused), Search!Below(e, d)
  PROVE  d \in Search!ToSet(fused) /\ Search!RankIn(fused, d) < Search!RankIn(fused, e)
<1>1. fused \in Search!Rankings
  BY DEF SearchInv, Search!RetrievalTypeOK
<1>. DEFINE i == Search!RankIn(fused, e)
<1>2. i \in 1 .. Len(fused) /\ fused[i] = e /\ DOMAIN fused = 1 .. Len(fused) /\ Len(fused) \in Nat
  BY <1>1, RankingIs, SearchSizes
<1>3. PICK h \in 1 .. i - 1 : fused[h] = d
  BY <1>2 DEF SearchInv
<1>4. h \in 1 .. Len(fused)
  BY <1>2
<1>5. d \in Search!ToSet(fused) /\ Search!RankIn(fused, d) = h
  BY <1>1, <1>3, <1>4, RankingIs
<1>. QED
  BY <1>2, <1>5

\* As many different documents as a ranking has, all of the ranking, are all of them.
LEMMA AllOfRanking ==
  ASSUME Search!RetrievalAssumption, NEW r \in Search!Rankings, NEW s \in Search!Rankings,
         Search!ToSet(r) \subseteq Search!ToSet(s), Len(r) = TopK
  PROVE  Search!ToSet(r) = Search!ToSet(s) /\ Len(s) = TopK
<1>. DEFINE f == [i \in 1 .. Len(r) |-> Search!RankIn(s, r[i])]
<1>1. /\ Len(r) \in Nat /\ Len(s) \in Nat /\ Len(s) <= TopK /\ Len(r) = TopK
      /\ \A i \in 1 .. Len(r) : r[i] \in Search!ToSet(r)
      /\ \A i, j \in 1 .. Len(r) : r[i] = r[j] => i = j
  <2>1. /\ Len(r) \in 0 .. TopK /\ Len(s) \in 0 .. TopK
        /\ \A i \in 1 .. Len(r) : r[i] \in Search!ToSet(r)
        /\ \A i, j \in 1 .. Len(r) : r[i] = r[j] => i = j
    BY RankingIs, Zenon
  <2>. QED
    BY <2>1, SearchSizes
<1>2. \A d \in Search!ToSet(s) : Search!RankIn(s, d) \in 1 .. Len(s) /\ s[Search!RankIn(s, d)] = d
  BY RankingIs
<1>3. f \in [1 .. Len(r) -> 1 .. Len(s)] /\ \A i, j \in 1 .. Len(r) : f[i] = f[j] => i = j
  BY <1>1, <1>2
<1>4. f \in Injection(1 .. Len(r), 1 .. Len(s))
  BY <1>3 DEF Injection, IsInjective
<1>5. /\ IsFiniteSet(1 .. Len(r)) /\ Cardinality(1 .. Len(r)) = Len(r)
      /\ IsFiniteSet(1 .. Len(s)) /\ Cardinality(1 .. Len(s)) = Len(s)
  <2>1. \A n \in Nat : IsFiniteSet(1 .. n) /\ Cardinality(1 .. n) = n
    BY FS_Interval
  <2>. QED
    BY <1>1, <2>1
<1>6. Len(r) <= Len(s)
  BY <1>4, <1>5, FS_Injection
<1>7. Len(s) = TopK
  BY <1>1, <1>6
<1>8. f \in Surjection(1 .. Len(r), 1 .. Len(s))
  BY <1>1, <1>4, <1>5, <1>7, FS_Injection
<1>9. ASSUME NEW d \in Search!ToSet(s) PROVE d \in Search!ToSet(r)
  <2>1. PICK i \in 1 .. Len(r) : f[i] = Search!RankIn(s, d)
    BY <1>2, <1>8 DEF Surjection
  <2>2. r[i] \in Search!ToSet(s) /\ Search!RankIn(s, r[i]) = Search!RankIn(s, d)
    BY <1>1, <2>1
  <2>3. r[i] = d
    BY <1>2, <2>2
  <2>. QED
    BY <1>1, <2>3
<1>. QED
  BY <1>7, <1>9

LEMMA BothComeFirst ==
  ASSUME Search!RetrievalAssumption, SearchInv, Search!Merged, NEW d \in Both, NEW e \in Search!Found \ Both
  PROVE  /\ d \in Search!ToSet(fused)
         /\ e \in Search!ToSet(fused) => Search!RankIn(fused, d) < Search!RankIn(fused, e)
<1>1. Search!RetrievalTypeOK
  BY DEF SearchInv
<1>2. vec # <<>> /\ kw # <<>> /\ d \in Search!Found
  BY DEF Both, Search!ToSet, Search!Found
<1>3. \A x \in Search!Found \ Both : Search!Below(x, d)
  BY <1>1, BothScoreMore
<1>4. CASE \E x \in Search!ToSet(fused) : x \notin Both
  <2>1. PICK x \in Search!ToSet(fused) : x \notin Both
    BY <1>4
  <2>2. d \in Search!ToSet(fused)
    BY <1>2, <1>3, <2>1, BetterIsBefore DEF SearchInv
  <2>. QED
    BY <1>2, <1>3, <2>2, BetterIsBefore
<1>5. CASE \A x \in Search!ToSet(fused) : x \in Both
  <2>1. Search!ToSet(fused) # Search!Found
    BY <1>5
  <2>2. Len(fused) = TopK
    BY <2>1 DEF Search!Merged
  <2>3. Search!ToSet(fused) \subseteq Search!ToSet(vec)
    BY <1>5 DEF Both
  <2>4. Search!ToSet(fused) = Search!ToSet(vec)
    BY <1>1, <2>2, <2>3, AllOfRanking DEF Search!RetrievalTypeOK
  <2>. QED
    BY <1>5, <2>4 DEF Both
<1>. QED
  BY <1>4, <1>5

LEMMA OneKeepsOrder ==
  ASSUME Search!RetrievalAssumption, SearchInv, NEW s \in {vec, kw},
         NEW i \in DOMAIN s, NEW j \in DOMAIN s, i < j, s[i] \notin Both, s[j] \notin Both,
         s[j] \in Search!ToSet(fused)
  PROVE  /\ s[i] \in Search!ToSet(fused)
         /\ Search!RankIn(fused, s[i]) < Search!RankIn(fused, s[j])
<1>1. Search!RetrievalTypeOK /\ s \in Search!Rankings /\ fused \in Search!Rankings
  BY DEF SearchInv, Search!RetrievalTypeOK
<1>2. /\ i \in 1 .. Len(s) /\ j \in 1 .. Len(s) /\ Len(s) \in Nat
      /\ s[i] \in Search!ToSet(s) /\ s[j] \in Search!ToSet(s)
      /\ Search!RankIn(s, s[i]) = i /\ Search!RankIn(s, s[j]) = j
  BY <1>1, RankingIs, SearchSizes
<1>3. CASE vec # <<>> /\ kw # <<>>
  <2>1. Search!Below(s[j], s[i])
    BY <1>1, LaterScoresLess
  <2>2. s[i] \in Search!Found
    BY <1>2 DEF Search!Found
  <2>. QED
    BY <1>3, <2>1, <2>2, BetterIsBefore
<1>4. CASE vec = <<>> \/ kw = <<>>
  <2>1. fused # <<>>
    BY DEF Search!ToSet
  <2>2. fused = vec \o kw /\ vec \in Seq(Docs) /\ kw \in Seq(Docs)
    BY <1>1, <1>4, <2>1, RankingIs DEF SearchInv, Search!RetrievalTypeOK
  <2>3. s # <<>>
    OBVIOUS
  <2>4. fused = s
    BY <1>4, <2>2, <2>3
  <2>. QED
    BY <1>2, <2>4
<1>. QED
  BY <1>3, <1>4

LEMMA NearestKept ==
  ASSUME Search!RetrievalAssumption, SearchInv, Search!Merged, near = 0,
         Search!ToSet(kw) \cap Search!ToSet(fused) = {}
  PROVE  fused = vec
<1>1. /\ vec \in Search!Rankings /\ kw \in Search!Rankings /\ fused \in Search!Rankings
      /\ vec \in Seq(Docs) /\ kw \in Seq(Docs) /\ fused \in Seq(Docs)
  BY RankingIs DEF SearchInv, Search!RetrievalTypeOK
<1>2. CASE vec = <<>> \/ kw = <<>>
  <2>1. CASE fused = <<>>
    <3>1. Search!ToSet(fused) = {} /\ Len(fused) # TopK
      BY <2>1, SearchSizes DEF Search!ToSet
    <3>2. Search!ToSet(vec) = {}
      BY <3>1 DEF Search!Merged, Search!Found
    <3>3. vec = <<>>
      BY <1>1, <3>2, RankingIs
    <3>. QED
      BY <2>1, <3>3
  <2>2. CASE fused = vec \o kw /\ kw = <<>>
    BY <1>1, <2>2
  <2>3. CASE fused = vec \o kw /\ vec = <<>>
    <3>1. fused = kw
      BY <1>1, <2>3
    <3>2. Search!ToSet(kw) = {}
      BY <3>1
    <3>3. kw = <<>>
      BY <1>1, <3>2, RankingIs
    <3>. QED
      BY <2>3, <3>1, <3>3
  <2>. QED
    BY <1>2, <2>1, <2>2, <2>3 DEF SearchInv
<1>3. CASE vec # <<>> /\ kw # <<>>
  <2>1. Search!ToSet(kw) # {}
    BY <1>1, <1>3 DEF Search!ToSet
  <2>2. Len(fused) = TopK
    BY <2>1 DEF Search!Merged, Search!Found
  <2>3. Search!ToSet(fused) \subseteq Search!ToSet(vec)
    BY DEF SearchInv, Search!Found
  <2>4. Search!ToSet(fused) = Search!ToSet(vec) /\ Len(vec) = TopK
    BY <1>1, <2>2, <2>3, AllOfRanking
  <2>5. Both = {}
    BY <2>4 DEF Both
  <2>. DEFINE r == [i \in 1 .. TopK |-> Search!RankIn(fused, vec[i])]
  <2>6. /\ TopK \in Nat /\ DOMAIN vec = 1 .. TopK /\ DOMAIN fused = 1 .. TopK
        /\ \A i \in 1 .. TopK : vec[i] \in Search!ToSet(fused)
        /\ \A d \in Search!ToSet(fused) : Search!RankIn(fused, d) \in 1 .. TopK /\ fused[Search!RankIn(fused, d)] = d
    BY <1>1, <2>2, <2>4, RankingIs, SearchSizes
  <2>7. r \in [1 .. TopK -> 1 .. TopK]
    BY <2>6
  <2>8. \A i, j \in 1 .. TopK : i < j => r[i] < r[j]
    BY <2>5, <2>6, OneKeepsOrder
  <2>9. \A i \in 1 .. TopK : r[i] = i
    <3>. HIDE DEF r
    <3>. QED
      BY <2>6, <2>7, <2>8, Steady
  <2>10. \A i \in 1 .. TopK : fused[i] = vec[i]
    BY <2>6, <2>9
  <2>. QED
    BY <1>1, <2>2, <2>4, <2>6, <2>10
<1>. QED
  BY <1>2, <1>3

LEMMA SearchBound ==
  ASSUME Search!RetrievalAssumption, SearchInv
  PROVE  Search!RetrievalTypeOK /\ Search!RetrievalSound
<1>. SUFFICES ASSUME kept # Nothing
              PROVE  Search!RetrievalSound
  BY DEF SearchInv, Search!RetrievalSound
<1>1. Search!Merged /\ kept = Search!Filtered
  BY DEF SearchInv
<1>2. /\ vec \in Search!Rankings /\ kw \in Search!Rankings /\ fused \in Search!Rankings
      /\ Search!RetrievalTypeOK
  BY DEF SearchInv, Search!RetrievalTypeOK
<1>3. /\ fused \in Seq(Docs) /\ DOMAIN fused = 1 .. Len(fused) /\ Len(fused) \in Nat
      /\ \A i \in 1 .. Len(fused) : fused[i] \in Search!ToSet(fused)
      /\ \A d \in Search!ToSet(fused) : \E i \in 1 .. Len(fused) : fused[i] = d
  BY <1>2, RankingIs, SearchSizes
<1>4. Search!ToSet(kw) \cap Search!ToSet(fused) \subseteq Search!ToSet(kept)
  <2>. SUFFICES ASSUME NEW d \in Search!ToSet(kw), d \in Search!ToSet(fused)
                PROVE  d \in Search!ToSet(kept)
    OBVIOUS
  <2>1. PICK i \in DOMAIN fused : fused[i] = d
    BY <1>3
  <2>2. Search!NearEnough(fused[i])
    BY <2>1 DEF Search!NearEnough, Search!HasDistance
  <2>. QED
    BY <1>1, <2>1, <2>2, FilteredIs
<1>5. ASSUME near = 0, Search!ToSet(kw) \cap Search!ToSet(fused) = {}
      PROVE  kept = Search!AllOf(vec)
  <2>1. ASSUME NEW i \in DOMAIN fused PROVE ~Search!NearEnough(fused[i])
    <3>1. fused[i] \in Search!ToSet(fused) /\ fused[i] \notin Search!ToSet(kw)
      BY <1>3, <1>5
    <3>2. fused[i] \in Search!ToSet(vec)
      BY <3>1 DEF SearchInv, Search!Found
    <3>3. Search!RankIn(vec, fused[i]) \in 1 .. Len(vec) /\ Len(vec) \in Nat
      BY <1>2, <3>2, RankingIs, SearchSizes
    <3>. QED
      BY <1>5, <3>1, <3>3 DEF Search!NearEnough, Search!HasDistance
  <2>2. kept = Search!AllOf(fused)
    BY <1>1, <2>1, FilteredIs
  <2>. QED
    BY <1>1, <1>5, <2>2, NearestKept
<1>6. kept = <<>> => Search!Found = {}
  <2>. SUFFICES ASSUME kept = <<>>
                PROVE  Search!Found = {}
    OBVIOUS
  <2>1. Search!AllOf(fused) = <<>>
    BY <1>1, FilteredIs
  <2>2. Len(fused) = 0
    <3>1. DOMAIN Search!AllOf(fused) = 1 .. (IF FallbackTopN < Len(fused) THEN FallbackTopN ELSE Len(fused))
      BY DEF Search!AllOf
    <3>2. 1 .. (IF FallbackTopN < Len(fused) THEN FallbackTopN ELSE Len(fused)) = {}
      BY <2>1, <3>1
    <3>. QED
      BY <1>3, <3>2, SearchSizes
  <2>3. Search!ToSet(fused) = {} /\ Len(fused) # TopK
    BY <1>3, <2>2, SearchSizes
  <2>. QED
    BY <1>1, <2>3 DEF Search!Merged
<1>7. \A d \in Both, e \in Search!Found \ Both :
        /\ d \in Search!ToSet(fused)
        /\ e \in Search!ToSet(fused) => Search!RankIn(fused, d) < Search!RankIn(fused, e)
  BY <1>1, BothComeFirst
<1>8. \A s \in {vec, kw} : \A i, j \in DOMAIN s :
        i < j /\ {s[i], s[j]} \cap Both = {} =>
          (s[j] \in Search!ToSet(fused) =>
             /\ s[i] \in Search!ToSet(fused)
             /\ s[j] \in Search!ToSet(fused) => Search!RankIn(fused, s[i]) < Search!RankIn(fused, s[j]))
  BY OneKeepsOrder
<1>. QED
  BY <1>4, <1>5, <1>6, <1>7, <1>8 DEF Search!RetrievalSound, Both
-----------------------------------------------------------------------------
(* The compression of a conversation (Memory). What is cut is one of the two *)
(* messages left, the longer of them, so no sum of more than two numbers     *)
(* decides anything; of longer sums it is enough that they are numbers.      *)

LEMMA MemoryTypesInit ==
  ASSUME Memory!MemoryAssumption, Memory!Init
  PROVE  Memory!MemoryTypeOK
<1>1. PICK n \in Counts : messages \in [1 .. n -> Contents]
  BY DEF Memory!Init
<1>2. n \in Nat /\ messages \in [1 .. n -> Memory!Content]
  BY <1>1 DEF Memory!MemoryAssumption
<1>. DEFINE C == Memory!Content
<1>. HIDE DEF C
<1>3. messages \in Seq(C)
  BY <1>2 DEF C
<1>4. prev \in Seq(Nat)
  BY DEF Memory!Init, Memory!MemoryAssumption
<1>. QED
  BY <1>3, <1>4 DEF Memory!Init, Memory!MemoryTypeOK, C

LEMMA TruncateIs ==
  ASSUME NEW c \in Memory!Content, NEW limit
  PROVE  Memory!Truncate(c, limit) \in Memory!Content
<1>. DEFINE prefix(n) == [narrow |-> IF n < c.narrow THEN n ELSE c.narrow,
                         wide |-> IF n < c.narrow THEN 0 ELSE n - c.narrow]
            reach == {n \in 1 .. c.narrow + c.wide : Memory!Tokens(prefix(n)) >= limit}
            n0 == CHOOSE n \in reach : \A m \in reach : n <= m
            cut == prefix(n0 - 1)
<1>1. c.narrow \in Nat /\ c.wide \in Nat
  BY DEF Memory!Content
<1>2. \A n \in Nat : prefix(n) \in Memory!Content
  BY <1>1 DEF Memory!Content
<1>3. CASE ~(limit <= 0) /\ reach # {}
  <2>1. reach \in SUBSET Nat
    BY <1>1
  <2>2. reach \subseteq 1 .. c.narrow + c.wide
    OBVIOUS
  <2>3. n0 \in reach
    <3>. HIDE DEF reach
    <3>. QED
      BY <1>3, <2>1, Least
  <2>4. n0 - 1 \in Nat
    <3>. HIDE DEF n0, reach
    <3>. QED
      BY <1>1, <2>2, <2>3
  <2>5. cut \in Memory!Content
    <3>. HIDE DEF n0, prefix
    <3>. QED
      BY <1>2, <2>4
  <2>6. Memory!Truncate(c, limit) = [cut EXCEPT !.wide = @ + Memory!Mark]
    BY <1>3 DEF Memory!Truncate
  <2>. HIDE DEF cut
  <2>. QED
    BY <2>5, <2>6 DEF Memory!Content, Memory!Mark
<1>4. CASE ~(~(limit <= 0) /\ reach # {})
  <2>1. Memory!Truncate(c, limit) = IF limit <= 0 THEN [narrow |-> 0, wide |-> 0] ELSE c
    BY <1>4 DEF Memory!Truncate
  <2>. QED
    BY <2>1 DEF Memory!Content
<1>. QED
  BY <1>3, <1>4

LEMMA SummaryIs ==
  ASSUME NEW wrote \in Seq(Nat), Memory!MemoryTypeOK
  PROVE  Memory!Merge(wrote) \in Seq(Nat)
<1>. DEFINE merged == prev \o wrote
            short == {n \in 1 .. Len(merged) : Memory!Runes(SubSeq(merged, n, Len(merged))) <= MaxTokens \div 2}
            from == IF short = {} THEN Len(merged) ELSE CHOOSE n \in short : \A m \in short : n <= m
<1>1. prev \in Seq(Nat) /\ merged \in Seq(Nat) /\ Len(merged) \in Nat
  BY DEF Memory!MemoryTypeOK
<1>2. prev # <<>> => Len(merged) >= 1
  BY <1>1
<1>3. prev # <<>> => from \in 1 .. Len(merged)
  <2>1. short \in SUBSET Nat /\ short \subseteq 1 .. Len(merged)
    BY <1>1
  <2>. HIDE DEF short, merged
  <2>2. short # {} => (CHOOSE n \in short : \A m \in short : n <= m) \in short
    BY <2>1, Least
  <2>3. CASE short = {}
    BY <1>1, <1>2, <2>3
  <2>4. CASE short # {}
    BY <2>1, <2>2, <2>4
  <2>. QED
    BY <2>3, <2>4
<1>. HIDE DEF from
<1>4. Memory!Merge(wrote) = IF prev = <<>> THEN wrote ELSE IF wrote = <<>> THEN prev
                           ELSE IF MaxTokens < 2 THEN merged
                           ELSE SubSeq(merged, from, Len(merged))
  BY DEF Memory!Merge, from
<1>. HIDE DEF merged
<1>5. prev # <<>> => SubSeq(merged, from, Len(merged)) \in Seq(Nat)
  BY <1>1, <1>3
<1>. QED
  BY <1>1, <1>4, <1>5

LEMMA MemoryTypes ==
  ASSUME Memory!MemoryAssumption, Memory!MemoryTypeOK, Memory!Next
  PROVE  Memory!MemoryTypeOK'
<1>. DEFINE C == Memory!Content
<1>0. /\ messages \in Seq(C) /\ recent \in Seq(C) /\ prev \in Seq(Nat) /\ summary \in Seq(Nat) /\ added \in Seq(Nat)
      /\ memoryAt \in {"start", "shrinking", "trimming", "summarising", "kept", "compressed", "failed"}
  BY DEF Memory!MemoryTypeOK
<1>. USE DEF Memory!Goto, Memory!arguments
<1>1. CASE Memory!Enough
  BY <1>1 DEF Memory!Enough, Memory!MemoryTypeOK
<1>2. CASE Memory!Begin
  <2>1. UNCHANGED <<messages, prev, summary, added>> /\ recent' = Memory!KeepLast(6) /\ memoryAt' = "shrinking"
    BY <1>2 DEF Memory!Begin
  <2>. HIDE DEF C
  <2>2. Memory!KeepLast(6) \in Seq(C)
    BY <1>0 DEF Memory!KeepLast
  <2>. QED
    BY <1>0, <2>1, <2>2 DEF Memory!MemoryTypeOK, C
<1>3. CASE Memory!Shrink
  <2>1. /\ UNCHANGED <<messages, prev, summary, added>>
        /\ \/ Len(recent) > 2 /\ recent' = Tail(recent) /\ UNCHANGED memoryAt
           \/ memoryAt' = "trimming" /\ UNCHANGED recent
    BY <1>3 DEF Memory!Shrink
  <2>. HIDE DEF C
  <2>2. recent' \in Seq(C)
    <3>1. CASE Len(recent) > 2 /\ recent' = Tail(recent)
      <4>1. recent \in Seq(C) /\ recent # <<>>
        BY <1>0, <3>1
      <4>2. Tail(recent) \in Seq(C)
        BY <4>1
      <4>. QED
        BY <3>1, <4>2
    <3>2. CASE UNCHANGED recent
      BY <1>0, <3>2
    <3>. QED
      BY <2>1, <3>1, <3>2
  <2>. QED
    BY <1>0, <2>1, <2>2 DEF Memory!MemoryTypeOK, C
<1>4. CASE Memory!Trim
  <2>. DEFINE i == Memory!Longest
              c == Memory!Cut(recent[i])
  <2>1. /\ UNCHANGED <<messages, prev, summary, added>>
        /\ \/ recent' = [recent EXCEPT ![i] = c] /\ UNCHANGED memoryAt
           \/ memoryAt' = "summarising" /\ UNCHANGED recent
    BY <1>4 DEF Memory!Trim
  <2>2. i \in DOMAIN recent => c \in C
    <3>1. i \in DOMAIN recent => recent[i] \in C
      <4>. HIDE DEF i, C
      <4>. QED
        BY <1>0
    <3>. QED
      BY <3>1, TruncateIs DEF Memory!Cut
  <2>. HIDE DEF C, c, i
  <2>3. recent' \in Seq(C)
    <3>1. CASE i \in DOMAIN recent
      <4>1. [recent EXCEPT ![i] = c] \in Seq(C)
        BY <1>0, <2>2, <3>1, ExceptSeq
      <4>. QED
        BY <1>0, <2>1, <4>1
    <3>2. CASE i \notin DOMAIN recent
      <4>1. [recent EXCEPT ![i] = c] = recent
        BY <1>0, <3>2
      <4>. QED
        BY <1>0, <2>1, <4>1
    <3>. QED
      BY <3>1, <3>2
  <2>. QED
    BY <1>0, <2>1, <2>3 DEF Memory!MemoryTypeOK, C
<1>5. CASE Memory!SummaryFails
  BY <1>5 DEF Memory!SummaryFails, Memory!MemoryTypeOK
<1>6. ASSUME NEW wrote \in Written, Memory!Summarise(wrote)
      PROVE  Memory!MemoryTypeOK'
  <2>1. wrote \in Seq(Nat)
    BY DEF Memory!MemoryAssumption
  <2>2. Memory!Merge(wrote) \in Seq(Nat)
    BY <2>1, SummaryIs
  <2>. QED
    BY <1>6, <2>1, <2>2 DEF Memory!Summarise, Memory!MemoryTypeOK
<1>. QED
  BY <1>1, <1>2, <1>3, <1>4, <1>5, <1>6 DEF Memory!Next
\* s adds up the first m of f.
Sums(s, f, m) == s[0] = 0 /\ \A n \in 1 .. m : s[n] = s[n - 1] + f[n]

\* The partial sums of a sequence exist, and Sum is the last.
LEMMA SumsExist ==
  ASSUME NEW f \in Seq(Nat)
  PROVE  \E s \in [0 .. Len(f) -> Nat] : Sums(s, f, Len(f))
<1>. DEFINE T == {m \in Nat : m <= Len(f) => \E s \in [0 .. m -> Nat] : Sums(s, f, m)}
<1>1. Len(f) \in Nat /\ \A n \in 1 .. Len(f) : f[n] \in Nat
  OBVIOUS
<1>2. 0 \in T
  <2>. DEFINE z == [n \in 0 .. 0 |-> 0]
  <2>1. z \in [0 .. 0 -> Nat] /\ Sums(z, f, 0)
    BY DEF Sums
  <2>. HIDE DEF z
  <2>. QED
    BY <2>1
<1>3. ASSUME NEW m \in Nat, m \in T PROVE m + 1 \in T
  <2>. SUFFICES ASSUME m + 1 <= Len(f)
                PROVE  \E s \in [0 .. m + 1 -> Nat] : Sums(s, f, m + 1)
    OBVIOUS
  <2>1. PICK s \in [0 .. m -> Nat] : Sums(s, f, m)
    <3>1. m <= Len(f)
      BY <1>1
    <3>2. m \in T
      BY <1>3
    <3>. QED
      BY <3>1, <3>2, Zenon
  <2>. DEFINE g == [n \in 0 .. m + 1 |-> IF n = m + 1 THEN s[m] + f[m + 1] ELSE s[n]]
  <2>2. s[m] + f[m + 1] \in Nat
    BY <1>1
  <2>3. g \in [0 .. m + 1 -> Nat] /\ g[0] = 0 /\ g[m + 1] = s[m] + f[m + 1] /\ g[m] = s[m]
        /\ \A n \in 1 .. m : g[n] = s[n] /\ g[n - 1] = s[n - 1]
    BY <2>1, <2>2 DEF Sums
  <2>. HIDE DEF g
  <2>4. \A n \in 1 .. m + 1 : g[n] = g[n - 1] + f[n]
    <3>1. \A n \in 1 .. m + 1 : n \in 1 .. m \/ (n = m + 1 /\ n - 1 = m)
      OBVIOUS
    <3>. QED
      BY <2>1, <2>3, <3>1 DEF Sums
  <2>. QED
    BY <2>3, <2>4 DEF Sums
<1>. HIDE DEF T
<1>4. Nat \subseteq T
  BY <1>2, <1>3, Induction
<1>. QED
  BY <1>1, <1>4 DEF T

LEMMA SumIs ==
  ASSUME NEW f \in Seq(Nat)
  PROVE  /\ Memory!Sum(f) \in Nat
         /\ f = <<>> => Memory!Sum(f) = 0
         /\ Len(f) = 2 => Memory!Sum(f) = f[1] + f[2]
<1>. PICK m \in Nat : m = Len(f)
  OBVIOUS
<1>1. \A n \in 1 .. m : f[n] \in Nat
  OBVIOUS
<1>2. PICK g \in [0 .. m -> Nat] : Sums(g, f, m)
  <2>1. \E s \in [0 .. Len(f) -> Nat] : Sums(s, f, Len(f))
    BY SumsExist
  <2>. QED
    BY <2>1
<1>. DEFINE Is(s) == s = [n \in 0 .. m |-> IF n = 0 THEN 0 ELSE s[n - 1] + f[n]]
            h == CHOOSE s : Is(s)
<1>3. Is(g)
  <2>1. g = [n \in 0 .. m |-> g[n]]
    OBVIOUS
  <2>2. \A n \in 0 .. m : g[n] = IF n = 0 THEN 0 ELSE g[n - 1] + f[n]
    BY <1>2 DEF Sums
  <2>. QED
    BY <2>1, <2>2
<1>4. Is(h)
  <2>. HIDE DEF Is
  <2>. QED
    BY <1>3
<1>5. Memory!Sum(f) = h[m]
  BY DEF Memory!Sum
<1>. HIDE DEF h
<1>6. h[0] = 0 /\ \A n \in 1 .. m : h[n] = h[n - 1] + f[n]
  <2>1. \A n \in 0 .. m : h[n] = IF n = 0 THEN 0 ELSE h[n - 1] + f[n]
    BY <1>4
  <2>2. \A n \in 1 .. m : n \in 0 .. m /\ n # 0
    OBVIOUS
  <2>. QED
    BY <2>1, <2>2
<1>. HIDE DEF Is
<1>. DEFINE T == {n \in Nat : n <= m => h[n] \in Nat}
<1>7. 0 \in T
  BY <1>6
<1>8. ASSUME NEW n \in Nat, n \in T PROVE n + 1 \in T
  <2>. SUFFICES ASSUME n + 1 <= m PROVE h[n + 1] \in Nat
    OBVIOUS
  <2>1. h[n] \in Nat
    BY <1>8
  <2>2. n + 1 \in 1 .. m /\ (n + 1) - 1 = n
    OBVIOUS
  <2>. QED
    BY <1>1, <1>6, <2>1, <2>2
<1>. HIDE DEF T
<1>9. Nat \subseteq T
  BY <1>7, <1>8, Induction
<1>10. h[m] \in Nat
  BY <1>9 DEF T
<1>11. ASSUME m = 2 PROVE h[m] = f[1] + f[2]
  <2>1. h[1] = h[0] + f[1] /\ h[2] = h[1] + f[2]
    BY <1>6, <1>11
  <2>. QED
    BY <1>1, <1>6, <1>11, <2>1
<1>12. f = <<>> => h[m] = 0
  <2>1. f = <<>> => m = 0
    OBVIOUS
  <2>. QED
    BY <1>6, <2>1
<1>. QED
  BY <1>5, <1>10, <1>11, <1>12

LEMMA TokensIs ==
  ASSUME NEW c \in Memory!Content
  PROVE  /\ Memory!Tokens(c) \in Nat
         /\ Memory!Tokens([c EXCEPT !.wide = @ + Memory!Mark]) = Memory!Tokens(c) + 5
<1>1. c.narrow \in Nat /\ c.wide \in Nat
  BY DEF Memory!Content
<1>2. (c.narrow + 3) \div 4 \in Nat /\ (c.wide + 1) \div 2 \in Nat
  BY <1>1
<1>3. (c.wide + 10 + 1) \div 2 = (c.wide + 1) \div 2 + 5
  BY <1>1
<1>4. [c EXCEPT !.wide = @ + Memory!Mark] = [narrow |-> c.narrow, wide |-> c.wide + 10]
  BY DEF Memory!Content, Memory!Mark
<1>. QED
  BY <1>2, <1>3, <1>4 DEF Memory!Tokens

\* What is cut in half and marked is shorter from 9 tokens on.
LEMMA CutIs ==
  ASSUME NEW c \in Memory!Content
  PROVE  /\ Memory!Cut(c) \in Memory!Content
         /\ Memory!Tokens(c) >= 9 => Memory!Tokens(Memory!Cut(c)) < Memory!Tokens(c)
<1>1. Memory!Cut(c) \in Memory!Content
  BY TruncateIs DEF Memory!Cut
<1>. SUFFICES ASSUME Memory!Tokens(c) >= 9
              PROVE  Memory!Tokens(Memory!Cut(c)) < Memory!Tokens(c)
  BY <1>1
<1>. DEFINE t == Memory!Tokens(c)
            limit == t \div 2
            prefix(n) == [narrow |-> IF n < c.narrow THEN n ELSE c.narrow,
                          wide |-> IF n < c.narrow THEN 0 ELSE n - c.narrow]
            reach == {n \in 1 .. c.narrow + c.wide : Memory!Tokens(prefix(n)) >= limit}
            n0 == CHOOSE n \in reach : \A m \in reach : n <= m
            before == prefix(n0 - 1)
<1>2. c.narrow \in Nat /\ c.wide \in Nat /\ c = [narrow |-> c.narrow, wide |-> c.wide]
  BY DEF Memory!Content
<1>3. \A n \in Nat : prefix(n) \in Memory!Content
  BY <1>2 DEF Memory!Content
<1>4. prefix(c.narrow + c.wide) = c
  <2>1. ~(c.narrow + c.wide < c.narrow) /\ (c.narrow + c.wide) - c.narrow = c.wide
    BY <1>2
  <2>. QED
    BY <1>2, <2>1
<1>5. Memory!Tokens(prefix(0)) = 0
  <2>1. prefix(0) = [narrow |-> 0, wide |-> 0]
    BY <1>2
  <2>2. (0 + 3) \div 4 + (0 + 1) \div 2 = 0
    OBVIOUS
  <2>. QED
    BY <2>1, <2>2 DEF Memory!Tokens
<1>6. t \in Nat /\ t >= 9
  BY TokensIs
<1>. HIDE DEF t
<1>7. limit \in Nat /\ limit >= 4 /\ limit + 4 < t /\ limit <= t /\ ~(limit <= 0)
  BY <1>6
<1>. HIDE DEF limit
<1>8. c.narrow + c.wide \in reach
  <2>1. c.narrow + c.wide # 0
    BY <1>2, <1>4, <1>5, <1>6 DEF t
  <2>. QED
    BY <1>2, <1>4, <1>7, <2>1 DEF t
<1>9. n0 \in reach /\ \A m \in reach : n0 <= m
  <2>1. reach \in SUBSET Nat /\ reach # {}
    BY <1>2, <1>8
  <2>. HIDE DEF reach
  <2>. QED
    BY <2>1, Least
<1>10. Memory!Cut(c) = [before EXCEPT !.wide = @ + Memory!Mark]
  <2>1. reach # {}
    BY <1>8
  <2>. QED
    BY <1>7, <2>1 DEF Memory!Cut, Memory!Truncate, limit, t
<1>. HIDE DEF n0
<1>11. n0 \in 1 .. c.narrow + c.wide /\ n0 - 1 \in Nat /\ n0 - 1 < n0
  BY <1>2, <1>9
<1>12. before \in Memory!Content
  <2>. HIDE DEF prefix
  <2>. QED
    BY <1>3, <1>11
<1>13. Memory!Tokens(before) < limit
  <2>1. CASE n0 - 1 = 0
    <3>1. before = prefix(0)
      BY <2>1
    <3>. HIDE DEF before, prefix
    <3>. QED
      BY <1>5, <1>7, <3>1
  <2>2. CASE n0 - 1 # 0
    <3>1. n0 - 1 \in 1 .. c.narrow + c.wide
      BY <1>2, <1>11, <2>2
    <3>. HIDE DEF prefix
    <3>2. n0 - 1 \notin reach
      BY <1>9, <1>11
    <3>3. ~(Memory!Tokens(before) >= limit)
      BY <3>1, <3>2
    <3>. HIDE DEF before
    <3>4. Memory!Tokens(before) \in Nat
      BY <1>12, TokensIs
    <3>. QED
      BY <1>7, <3>3, <3>4
  <2>. QED
    BY <2>1, <2>2
<1>. HIDE DEF before
<1>14. Memory!Tokens(Memory!Cut(c)) = Memory!Tokens(before) + 5 /\ Memory!Tokens(before) \in Nat
  BY <1>10, <1>12, TokensIs
<1>15. Memory!Tokens(Memory!Cut(c)) < t
  BY <1>6, <1>7, <1>13, <1>14
<1>. QED
  BY <1>15 DEF t

\* The sum of the tokens of a conversation, of two messages in particular.
LEMMA EstimateIs ==
  ASSUME NEW s \in Seq(Memory!Content)
  PROVE  /\ Memory!Estimate(s) \in Nat
         /\ Len(s) = 2 => Memory!Estimate(s) = Memory!Tokens(s[1]) + Memory!Tokens(s[2])
<1>. DEFINE f == [i \in DOMAIN s |-> Memory!Tokens(s[i])]
<1>1. \A i \in DOMAIN s : s[i] \in Memory!Content
  OBVIOUS
<1>2. \A i \in DOMAIN s : Memory!Tokens(s[i]) \in Nat
  BY <1>1, TokensIs
<1>3. f \in Seq(Nat) /\ Len(f) = Len(s) /\ DOMAIN f = 1 .. Len(s)
  BY <1>2
<1>4. Len(s) = 2 => f[1] = Memory!Tokens(s[1]) /\ f[2] = Memory!Tokens(s[2])
  OBVIOUS
<1>5. Memory!Estimate(s) = Memory!Sum(f)
  BY DEF Memory!Estimate
<1>. HIDE DEF f
<1>. QED
  BY <1>3, <1>4, <1>5, SumIs

LEMMA BudgetIs ==
  ASSUME Memory!MemoryAssumption, Memory!MemoryTypeOK
  PROVE  Memory!Budget \in Int /\ (MaxTokens >= 64 => Memory!Budget >= 16)
<1>1. MaxTokens \in Nat
  BY DEF Memory!MemoryAssumption
<1>2. MaxTokens \div 4 \in Int /\ (MaxTokens >= 64 => MaxTokens \div 4 >= 16)
  BY <1>1
<1>3. Memory!Sum(prev) \in Nat
  BY SumIs DEF Memory!MemoryTypeOK
<1>4. Memory!Runes(prev) - Memory!Sum(prev) \in Nat
  <2>1. prev \in Seq(Nat) /\ Len(prev) \in Nat /\ (prev # <<>> => Len(prev) >= 1)
    BY DEF Memory!MemoryTypeOK
  <2>2. CASE prev = <<>>
    <3>1. Memory!Sum(prev) = 0
      BY <2>1, <2>2, SumIs
    <3>. QED
      BY <2>2, <3>1 DEF Memory!Runes
  <2>3. CASE prev # <<>>
    <3>1. Memory!Runes(prev) = Memory!Sum(prev) + 2 * (Len(prev) - 1)
      BY <2>3 DEF Memory!Runes
    <3>. QED
      BY <1>3, <2>1, <2>3, <3>1
  <2>. QED
    BY <2>2, <2>3
<1>. DEFINE c == [narrow |-> Memory!Runes(prev) - Memory!Sum(prev), wide |-> Memory!Sum(prev)]
            left == MaxTokens - Memory!Tokens(c)
<1>5. c \in Memory!Content
  BY <1>3, <1>4 DEF Memory!Content
<1>. HIDE DEF c
<1>6. left \in Int
  <2>1. Memory!Tokens(c) \in Nat
    BY <1>5, TokensIs
  <2>. QED
    BY <1>1, <2>1
<1>7. Memory!Budget = IF left < MaxTokens \div 4 THEN MaxTokens \div 4 ELSE left
  BY DEF Memory!Budget, c
<1>. HIDE DEF left
<1>8. Memory!Budget \in Int /\ Memory!Budget >= MaxTokens \div 4
  BY <1>2, <1>6, <1>7
<1>. QED
  BY <1>2, <1>8

\* The message of the conversation that i is the rest of.
Was(i) == messages[Len(messages) - Len(recent) + i]

\* Only of two messages is one cut, and then no longer one is left whole.
CutInv ==
  \A i \in DOMAIN recent : recent[i] # Was(i) =>
    /\ Len(recent) = 2 /\ Memory!Tokens(recent[i]) < Memory!Tokens(Was(i))
    /\ \A j \in DOMAIN recent : Memory!Tokens(Was(j)) > Memory!Tokens(Was(i)) => recent[j] # Was(j)

Compressing == {"shrinking", "trimming", "summarising", "compressed"}

MemoryInv ==
  /\ Memory!MemoryTypeOK
  /\ memoryAt \notin Compressing => recent = messages
  /\ summary = IF memoryAt = "compressed" THEN Memory!Merge(added) ELSE prev
  /\ memoryAt \in Compressing => Len(recent) \in 2 .. 6 /\ Len(recent) <= Len(messages)
  /\ memoryAt = "shrinking" => \A i \in DOMAIN recent : recent[i] = Was(i)
  /\ memoryAt = "trimming" => Len(recent) = 2 \/ Memory!Estimate(recent) <= Memory!Budget
  /\ MaxTokens >= 64 =>
       /\ memoryAt \in Compressing => CutInv
       /\ memoryAt \in {"summarising", "compressed"} => Memory!Estimate(recent) <= Memory!Budget

LEMMA MemoryInit ==
  ASSUME Memory!MemoryAssumption, Memory!Init
  PROVE  MemoryInv
  BY MemoryTypesInit DEF MemoryInv, Memory!Init, Compressing

\* The messages that are kept, and what is known of them.
LEMMA RecentIs ==
  ASSUME MemoryInv
  PROVE  /\ recent \in Seq(Memory!Content) /\ Len(recent) \in Nat /\ DOMAIN recent = 1 .. Len(recent)
         /\ messages \in Seq(Memory!Content) /\ Len(messages) \in Nat /\ DOMAIN messages = 1 .. Len(messages)
         /\ \A i \in DOMAIN recent : recent[i] \in Memory!Content /\ Memory!Tokens(recent[i]) \in Nat
         /\ memoryAt \in Compressing => \A i \in DOMAIN recent : Memory!Tokens(Was(i)) \in Nat
<1>1. /\ recent \in Seq(Memory!Content) /\ Len(recent) \in Nat /\ DOMAIN recent = 1 .. Len(recent)
      /\ messages \in Seq(Memory!Content) /\ Len(messages) \in Nat /\ DOMAIN messages = 1 .. Len(messages)
  BY DEF MemoryInv, Memory!MemoryTypeOK
<1>2. \A i \in DOMAIN recent : recent[i] \in Memory!Content
  BY <1>1
<1>3. \A i \in DOMAIN recent : Memory!Tokens(recent[i]) \in Nat
  BY <1>2, TokensIs
<1>4. ASSUME memoryAt \in Compressing, NEW i \in DOMAIN recent
      PROVE  Memory!Tokens(Was(i)) \in Nat
  <2>1. Len(messages) - Len(recent) + i \in 1 .. Len(messages)
    BY <1>1, <1>4 DEF MemoryInv
  <2>2. Was(i) \in Memory!Content
    BY <1>1, <2>1 DEF Was
  <2>. QED
    BY <2>2, TokensIs
<1>. QED
  BY <1>1, <1>2, <1>3, <1>4

\* Of two messages one is the longest.
LEMMA LongestIs ==
  ASSUME MemoryInv, Len(recent) = 2
  PROVE  /\ Memory!Longest \in DOMAIN recent
         /\ \A j \in DOMAIN recent : Memory!Tokens(recent[j]) <= Memory!Tokens(recent[Memory!Longest])
<1>. DEFINE Is(i) == \A j \in DOMAIN recent :
                       /\ Memory!Tokens(recent[j]) <= Memory!Tokens(recent[i])
                       /\ Memory!Tokens(recent[j]) = Memory!Tokens(recent[i]) => i <= j
<1>1. DOMAIN recent = {1, 2}
  BY RecentIs
<1>2. Memory!Tokens(recent[1]) \in Nat /\ Memory!Tokens(recent[2]) \in Nat
  BY <1>1, RecentIs
<1>3. \E i \in DOMAIN recent : Is(i)
  <2>1. CASE Memory!Tokens(recent[2]) <= Memory!Tokens(recent[1])
    <3>1. Is(1)
      BY <1>1, <1>2, <2>1
    <3>. QED
      BY <1>1, <3>1
  <2>2. CASE Memory!Tokens(recent[1]) < Memory!Tokens(recent[2])
    <3>1. Is(2)
      BY <1>1, <1>2, <2>2
    <3>. QED
      BY <1>1, <3>1
  <2>. QED
    BY <1>2, <2>1, <2>2
<1>4. Memory!Longest \in DOMAIN recent /\ Is(Memory!Longest)
  <2>1. Memory!Longest = CHOOSE i \in DOMAIN recent : Is(i)
    BY DEF Memory!Longest
  <2>. HIDE DEF Is
  <2>. QED
    BY <1>3, <2>1
<1>. QED
  BY <1>4

\* While a message may be cut there are two, and a cut makes the longer of them shorter.
LEMMA CutShortens ==
  ASSUME Memory!MemoryAssumption, MemoryInv, memoryAt = "trimming", Memory!MayCut
  PROVE  /\ Len(recent) = 2
         /\ MaxTokens >= 64 =>
              Memory!Tokens(Memory!Cut(recent[Memory!Longest])) < Memory!Tokens(recent[Memory!Longest])
<1>1. Memory!Estimate(recent) \in Nat /\ Memory!Budget \in Int /\ (MaxTokens >= 64 => Memory!Budget >= 16)
  BY EstimateIs, BudgetIs, RecentIs DEF MemoryInv
<1>2. Memory!Estimate(recent) > Memory!Budget
  BY DEF Memory!MayCut
<1>3. Len(recent) = 2
  BY <1>1, <1>2 DEF MemoryInv
<1>. DEFINE l == Memory!Longest
<1>4. /\ l \in DOMAIN recent /\ DOMAIN recent = {1, 2}
      /\ \A j \in DOMAIN recent : Memory!Tokens(recent[j]) <= Memory!Tokens(recent[l])
  BY <1>3, LongestIs, RecentIs
<1>. HIDE DEF l
<1>5. Memory!Estimate(recent) = Memory!Tokens(recent[1]) + Memory!Tokens(recent[2])
  BY <1>3, EstimateIs, RecentIs
<1>6. Memory!Tokens(recent[l]) \in Nat /\ Memory!Tokens(recent[1]) \in Nat /\ Memory!Tokens(recent[2]) \in Nat
      /\ Memory!Tokens(recent[1]) <= Memory!Tokens(recent[l]) /\ Memory!Tokens(recent[2]) <= Memory!Tokens(recent[l])
      /\ recent[l] \in Memory!Content
  BY <1>4, RecentIs
<1>7. ASSUME MaxTokens >= 64
      PROVE  Memory!Tokens(Memory!Cut(recent[l])) < Memory!Tokens(recent[l])
  <2>1. Memory!Tokens(recent[l]) >= 9
    BY <1>1, <1>2, <1>5, <1>6, <1>7
  <2>. QED
    BY <1>6, <2>1, CutIs
<1>. QED
  BY <1>3, <1>7 DEF l

LEMMA SuffixIs ==
  ASSUME NEW s \in Seq(Nat), NEW n \in 1 .. Len(s)
  PROVE  Memory!IsSuffix(SubSeq(s, n, Len(s)), s)
<1>. DEFINE t == SubSeq(s, n, Len(s))
            r == Memory!Reverse(s)
            q == Memory!Reverse(t)
<1>1. /\ t \in Seq(Nat) /\ Len(t) = Len(s) - n + 1 /\ Len(t) \in Nat /\ Len(s) \in Nat /\ Len(t) <= Len(s)
      /\ \A i \in 1 .. Len(t) : t[i] = s[n + i - 1]
  OBVIOUS
<1>. HIDE DEF t
<1>2. r \in Seq(Nat) /\ Len(r) = Len(s) /\ \A i \in 1 .. Len(s) : r[i] = s[(Len(s) - i) + 1]
  BY DEF Memory!Reverse
<1>3. q \in Seq(Nat) /\ Len(q) = Len(t) /\ \A i \in 1 .. Len(t) : q[i] = t[(Len(t) - i) + 1]
  BY <1>1 DEF Memory!Reverse
<1>. HIDE DEF q, r
<1>4. \A i \in 1 .. Len(t) : q[i] = r[i]
  <2>. SUFFICES ASSUME NEW i \in 1 .. Len(t) PROVE q[i] = r[i]
    OBVIOUS
  <2>1. (Len(t) - i) + 1 \in 1 .. Len(t) /\ i \in 1 .. Len(s) /\ n + ((Len(t) - i) + 1) - 1 = (Len(s) - i) + 1
    BY <1>1
  <2>. QED
    BY <1>1, <1>2, <1>3, <2>1
<1>5. SubSeq(q, 1, Len(q)) = SubSeq(r, 1, Len(q))
  <2>1. Len(q) <= Len(r) /\ Len(q) \in Nat
    BY <1>1, <1>2, <1>3
  <2>2. SubSeq(q, 1, Len(q)) = [i \in 1 .. Len(q) |-> q[i]] /\ SubSeq(r, 1, Len(q)) = [i \in 1 .. Len(q) |-> r[i]]
    BY <1>2, <1>3, <2>1
  <2>. QED
    BY <1>3, <1>4, <2>2
<1>. QED
  BY <1>1, <1>2, <1>3, <1>5 DEF Memory!IsSuffix, Memory!IsPrefix, q, r, t

LEMMA SuffixOfAll ==
  ASSUME NEW s \in Seq(Nat)
  PROVE  Memory!IsSuffix(s, s)
<1>1. Len(Memory!Reverse(s)) \in Nat
  BY DEF Memory!Reverse
<1>. QED
  BY <1>1 DEF Memory!IsSuffix, Memory!IsPrefix

\* The summary of a part goes behind the summary so far; what it loses is from the front.
LEMMA SummaryKeeps ==
  ASSUME Memory!MemoryAssumption, MaxTokens >= 2, NEW before \in Seq(Nat), NEW wrote \in Seq(Nat), prev = before
  PROVE  LET whole == Memory!Merge(wrote)
         IN /\ Memory!IsSuffix(whole, before \o wrote)
            /\ wrote # <<>> => whole # <<>> /\ Memory!Last(whole) = Memory!Last(wrote)
            /\ before # <<>> /\ wrote # <<>> =>
                 Len(whole) = 1 \/ Memory!Runes(whole) <= MaxTokens \div 2
<1>. DEFINE whole == Memory!Merge(wrote)
            merged == before \o wrote
            short == {n \in 1 .. Len(merged) : Memory!Runes(SubSeq(merged, n, Len(merged))) <= MaxTokens \div 2}
            from == IF short = {} THEN Len(merged) ELSE CHOOSE n \in short : \A m \in short : n <= m
<1>1. /\ merged \in Seq(Nat) /\ Len(merged) = Len(before) + Len(wrote)
      /\ Len(before) \in Nat /\ Len(wrote) \in Nat /\ Len(merged) \in Nat
      /\ \A n \in 1 .. Len(wrote) : merged[Len(before) + n] = wrote[n]
  OBVIOUS
<1>2. whole = IF before = <<>> THEN wrote ELSE IF wrote = <<>> THEN before ELSE SubSeq(merged, from, Len(merged))
  <2>1. ~(MaxTokens < 2)
    BY DEF Memory!MemoryAssumption
  <2>. QED
    BY <2>1 DEF Memory!Merge
<1>3. CASE before = <<>> \/ wrote = <<>>
  <2>1. whole = merged /\ (wrote # <<>> => whole = wrote)
    <3>1. before = <<>> => merged = wrote
      OBVIOUS
    <3>2. wrote = <<>> => merged = before
      OBVIOUS
    <3>3. before = <<>> => whole = wrote
      BY <1>2
    <3>4. before # <<>> /\ wrote = <<>> => whole = before
      BY <1>2
    <3>. HIDE DEF merged, whole
    <3>. QED
      BY <1>3, <3>1, <3>2, <3>3, <3>4
  <2>2. Memory!IsSuffix(merged, merged)
    BY <1>1, SuffixOfAll
  <2>. HIDE DEF whole, merged
  <2>. QED
    BY <1>3, <2>1, <2>2 DEF merged, whole
<1>4. CASE before # <<>> /\ wrote # <<>>
  <2>1. Len(merged) >= 2 /\ Len(wrote) >= 1
    BY <1>1, <1>4
  <2>2. from \in 1 .. Len(merged) /\ (from = Len(merged) \/ from \in short)
    <3>1. short \in SUBSET Nat /\ short \subseteq 1 .. Len(merged)
      BY <1>1
    <3>. HIDE DEF short, merged
    <3>2. short # {} => (CHOOSE n \in short : \A m \in short : n <= m) \in short
      BY <3>1, Least
    <3>3. CASE short = {}
      BY <1>1, <2>1, <3>3
    <3>4. CASE short # {}
      BY <3>1, <3>2, <3>4
    <3>. QED
      BY <3>3, <3>4
  <2>. HIDE DEF from
  <2>3. whole = SubSeq(merged, from, Len(merged))
    BY <1>2, <1>4
  <2>. HIDE DEF whole
  <2>4. from \in short => Memory!Runes(whole) <= MaxTokens \div 2
    BY <2>3
  <2>. HIDE DEF short
  <2>5. Memory!IsSuffix(whole, merged)
    <3>. HIDE DEF merged
    <3>. QED
      BY <1>1, <2>2, <2>3, SuffixIs
  <2>6. Len(whole) = Len(merged) - from + 1 /\ whole[Len(whole)] = merged[Len(merged)]
    <3>. HIDE DEF merged
    <3>. QED
      BY <1>1, <2>1, <2>2, <2>3
  <2>7. merged[Len(merged)] = wrote[Len(wrote)]
    <3>. HIDE DEF merged
    <3>. QED
      BY <1>1, <2>1
  <2>8. whole # <<>> /\ (from = Len(merged) => Len(whole) = 1)
    <3>. HIDE DEF merged
    <3>1. Len(whole) >= 1
      BY <1>1, <2>2, <2>6
    <3>. QED
      BY <1>1, <2>2, <2>6, <3>1
  <2>. QED
    BY <2>2, <2>4, <2>5, <2>6, <2>7, <2>8 DEF Memory!Last, whole
<1>. QED
  BY <1>3, <1>4

LEMMA EstimateStays ==
  ASSUME UNCHANGED prev
  PROVE  Memory!Budget' = Memory!Budget
         /\ (UNCHANGED recent => Memory!Estimate(recent)' = Memory!Estimate(recent))
<1>1. Memory!Budget' = Memory!Budget
  BY DEF Memory!Budget, Memory!Runes, Memory!Sum, Memory!Tokens
<1>2. ASSUME UNCHANGED recent
      PROVE  Memory!Estimate(recent)' = Memory!Estimate(recent)
  <2>. DEFINE f == [i \in DOMAIN recent |-> Memory!Tokens(recent[i])]
  <2>1. f' = f
    BY <1>2 DEF Memory!Tokens
  <2>2. Memory!Sum(f)' = Memory!Sum(f)
    <3>. HIDE DEF f
    <3>. QED
      BY <2>1 DEF Memory!Sum
  <2>. QED
    BY <2>2 DEF Memory!Estimate
<1>. QED
  BY <1>1, <1>2

LEMMA TrimKept ==
  ASSUME Memory!MemoryAssumption, MemoryInv, Memory!Trim, Memory!MemoryTypeOK'
  PROVE  MemoryInv'
<1>1. UNCHANGED <<messages, prev, summary, added>> /\ memoryAt = "trimming"
  BY DEF Memory!Trim, Memory!arguments
<1>2. Len(recent) \in 2 .. 6 /\ Len(recent) <= Len(messages) /\ (MaxTokens >= 64 => CutInv)
  BY <1>1 DEF MemoryInv, Compressing
<1>3. CASE Memory!MayCut
  <2>. DEFINE l == Memory!Longest
              c == Memory!Cut(recent[l])
  <2>1. recent' = [recent EXCEPT ![l] = c] /\ memoryAt' = memoryAt
    BY <1>3 DEF Memory!Trim
  <2>2. Len(recent) = 2 /\ (MaxTokens >= 64 => Memory!Tokens(c) < Memory!Tokens(recent[l]))
    BY <1>1, <1>3, CutShortens
  <2>3. l \in DOMAIN recent /\ \A j \in DOMAIN recent : Memory!Tokens(recent[j]) <= Memory!Tokens(recent[l])
    BY <2>2, LongestIs
  <2>4. /\ \A i \in DOMAIN recent : Memory!Tokens(recent[i]) \in Nat /\ Memory!Tokens(Was(i)) \in Nat
        /\ Memory!Tokens(c) \in Nat
    <3>1. recent[l] \in Memory!Content
      BY <2>3, RecentIs
    <3>2. c \in Memory!Content
      BY <3>1, CutIs
    <3>. HIDE DEF c
    <3>. QED
      BY <1>1, <3>2, RecentIs, TokensIs DEF Compressing
  <2>. HIDE DEF l, c
  <2>5. /\ DOMAIN recent' = DOMAIN recent /\ Len(recent') = Len(recent) /\ recent'[l] = c
        /\ \A i \in DOMAIN recent : i # l => recent'[i] = recent[i]
    BY <2>1, <2>3, RecentIs
  <2>6. \A i \in DOMAIN recent : Was(i)' = Was(i)
    BY <1>1, <2>5 DEF Was
  <2>7. ASSUME MaxTokens >= 64 PROVE CutInv'
    <3>1. \A i \in DOMAIN recent : Memory!Tokens(recent[i]) <= Memory!Tokens(Was(i))
      BY <1>2, <2>4, <2>7 DEF CutInv
    <3>2. Memory!Tokens(c) < Memory!Tokens(recent[l]) /\ Memory!Tokens(c) < Memory!Tokens(Was(l))
      BY <2>2, <2>3, <2>4, <2>7, <3>1
    <3>3. recent'[l] # Was(l)
      BY <2>5, <3>2, <2>3, <2>4
    <3>4. ASSUME NEW i \in DOMAIN recent, recent'[i] # Was(i)
          PROVE  /\ Memory!Tokens(recent'[i]) < Memory!Tokens(Was(i))
                 /\ \A j \in DOMAIN recent :
                      Memory!Tokens(Was(j)) > Memory!Tokens(Was(i)) => recent'[j] # Was(j)
      <4>1. CASE i = l
        <5>1. ASSUME NEW j \in DOMAIN recent, Memory!Tokens(Was(j)) > Memory!Tokens(Was(l)), recent'[j] = Was(j)
              PROVE  FALSE
          <6>1. j # l /\ recent[j] = Was(j)
            BY <2>4, <2>5, <5>1
          <6>2. Memory!Tokens(Was(j)) <= Memory!Tokens(Was(l))
            BY <2>3, <2>4, <3>1, <6>1
          <6>. QED
            BY <2>3, <2>4, <5>1, <6>2
        <5>. QED
          BY <2>5, <3>2, <4>1, <5>1
      <4>2. CASE i # l
        <5>1. recent[i] # Was(i) /\ recent'[i] = recent[i]
          BY <2>5, <3>4, <4>2
        <5>. QED
          BY <1>2, <2>5, <2>7, <3>3, <5>1 DEF CutInv
      <4>. QED
        BY <4>1, <4>2
    <3>. QED
      BY <2>2, <2>5, <2>6, <3>4 DEF CutInv, Memory!Tokens
  <2>. QED
    BY <1>1, <1>2, <2>1, <2>2, <2>5, <2>7 DEF MemoryInv, Compressing
<1>4. CASE ~Memory!MayCut
  <2>1. UNCHANGED recent /\ memoryAt' = "summarising"
    BY <1>4 DEF Memory!Trim, Memory!Goto
  <2>2. MaxTokens >= 64 => CutInv'
    BY <1>1, <1>2, <2>1 DEF CutInv, Was, Memory!Tokens
  <2>3. Memory!Estimate(recent) \in Nat /\ Memory!Budget \in Int /\ (MaxTokens >= 64 => Memory!Budget >= 16)
    BY EstimateIs, BudgetIs, RecentIs DEF MemoryInv
  <2>4. ASSUME MaxTokens >= 64 PROVE Memory!Estimate(recent) <= Memory!Budget
    <3>1. CASE Len(recent) = 2
      <4>. DEFINE l == Memory!Longest
      <4>1. ~(Memory!Estimate(recent) > Memory!Budget) \/ ~(Memory!Tokens(recent[l]) > 1)
        BY <1>4 DEF Memory!MayCut
      <4>2. /\ l \in DOMAIN recent /\ DOMAIN recent = {1, 2}
            /\ \A j \in DOMAIN recent : Memory!Tokens(recent[j]) <= Memory!Tokens(recent[l])
        BY <3>1, LongestIs, RecentIs
      <4>. HIDE DEF l
      <4>3. Memory!Tokens(recent[l]) \in Nat /\ Memory!Tokens(recent[1]) \in Nat /\ Memory!Tokens(recent[2]) \in Nat
            /\ Memory!Tokens(recent[1]) <= Memory!Tokens(recent[l]) /\ Memory!Tokens(recent[2]) <= Memory!Tokens(recent[l])
        BY <4>2, RecentIs
      <4>4. Memory!Estimate(recent) = Memory!Tokens(recent[1]) + Memory!Tokens(recent[2])
        BY <3>1, EstimateIs, RecentIs
      <4>. QED
        BY <2>3, <2>4, <4>1, <4>3, <4>4
    <3>2. CASE Len(recent) # 2
      BY <1>1, <3>2 DEF MemoryInv
    <3>. QED
      BY <3>1, <3>2
  <2>5. MaxTokens >= 64 => (Memory!Estimate(recent) <= Memory!Budget)'
    BY <1>1, <2>1, <2>4, EstimateStays
  <2>. QED
    BY <1>1, <1>2, <2>1, <2>2, <2>5 DEF MemoryInv, Compressing
<1>. QED
  BY <1>3, <1>4

LEMMA MemoryKept ==
  ASSUME Memory!MemoryAssumption, MemoryInv, Memory!Next
  PROVE  MemoryInv'
<1>1. Memory!MemoryTypeOK'
  BY MemoryTypes DEF MemoryInv
<1>2. /\ recent \in Seq(Memory!Content) /\ Len(recent) \in Nat /\ DOMAIN recent = 1 .. Len(recent)
      /\ messages \in Seq(Memory!Content) /\ Len(messages) \in Nat /\ DOMAIN messages = 1 .. Len(messages)
  BY RecentIs
<1>3. Memory!Estimate(recent) \in Nat /\ Memory!Budget \in Int /\ (MaxTokens >= 64 => Memory!Budget >= 16)
  BY EstimateIs, BudgetIs, RecentIs DEF MemoryInv
<1>. USE DEF Memory!Goto, Memory!arguments
<1>4. CASE Memory!Enough
  <2>1. UNCHANGED <<messages, prev, recent, summary, added>> /\ memoryAt = "start" /\ memoryAt' = "kept"
    BY <1>4 DEF Memory!Enough
  <2>. QED
    BY <1>1, <2>1 DEF MemoryInv, Compressing
<1>5. CASE Memory!Begin
  <2>1. /\ UNCHANGED <<messages, prev, summary, added>> /\ recent' = Memory!KeepLast(6)
        /\ memoryAt = "start" /\ memoryAt' = "shrinking" /\ Len(messages) > 4
    BY <1>5 DEF Memory!Begin
  <2>. DEFINE first == (IF Len(messages) > 6 THEN Len(messages) - 6 ELSE 0) + 1
  <2>2. first \in 1 .. Len(messages) /\ Len(messages) - first + 1 \in 5 .. 6
    BY <1>2, <2>1
  <2>3. recent' = SubSeq(messages, first, Len(messages))
    BY <2>1 DEF Memory!KeepLast
  <2>. HIDE DEF first
  <2>4. /\ Len(recent') = Len(messages) - first + 1 /\ DOMAIN recent' = 1 .. Len(recent')
        /\ \A i \in DOMAIN recent' : recent'[i] = messages[first + i - 1]
    BY <1>2, <2>2, <2>3
  <2>5. Len(recent') \in 2 .. 6 /\ Len(recent') <= Len(messages)
    BY <1>2, <2>2, <2>4
  <2>6. \A i \in DOMAIN recent' : recent'[i] = Was(i)'
    <3>1. \A i \in DOMAIN recent' : first + i - 1 = Len(messages) - Len(recent') + i
      BY <1>2, <2>2, <2>4
    <3>. QED
      BY <2>1, <2>4, <3>1 DEF Was
  <2>7. CutInv'
    BY <2>6 DEF CutInv
  <2>. QED
    BY <1>1, <2>1, <2>5, <2>6, <2>7 DEF MemoryInv, Compressing
<1>6. CASE Memory!Shrink
  <2>1. UNCHANGED <<messages, prev, summary, added>> /\ memoryAt = "shrinking"
    BY <1>6 DEF Memory!Shrink
  <2>2. Len(recent) \in 2 .. 6 /\ Len(recent) <= Len(messages) /\ \A i \in DOMAIN recent : recent[i] = Was(i)
    BY <2>1 DEF MemoryInv, Compressing
  <2>3. CASE Len(recent) > 2 /\ Memory!Estimate(recent) > Memory!Budget
    <3>1. recent' = Tail(recent) /\ memoryAt' = memoryAt
      BY <1>6, <2>3 DEF Memory!Shrink
    <3>2. /\ Len(recent') = Len(recent) - 1 /\ DOMAIN recent' = 1 .. Len(recent')
          /\ \A i \in DOMAIN recent' : recent'[i] = recent[i + 1] /\ i + 1 \in DOMAIN recent
      BY <1>2, <2>3, <3>1
    <3>3. \A i \in DOMAIN recent' : recent'[i] = Was(i)'
      <4>. SUFFICES ASSUME NEW i \in DOMAIN recent' PROVE recent'[i] = Was(i)'
        OBVIOUS
      <4>1. recent'[i] = messages[Len(messages) - Len(recent) + (i + 1)]
        BY <2>2, <3>2 DEF Was
      <4>2. Len(messages) - Len(recent) + (i + 1) = Len(messages) - Len(recent') + i
        BY <1>2, <3>2
      <4>. QED
        BY <2>1, <4>1, <4>2 DEF Was
    <3>4. CutInv'
      BY <3>3 DEF CutInv
    <3>5. Len(recent') \in 2 .. 6 /\ Len(recent') <= Len(messages)
      BY <1>2, <2>2, <2>3, <3>2
    <3>. QED
      BY <1>1, <2>1, <3>1, <3>3, <3>4, <3>5 DEF MemoryInv, Compressing
  <2>4. CASE ~(Len(recent) > 2 /\ Memory!Estimate(recent) > Memory!Budget)
    <3>1. UNCHANGED recent /\ memoryAt' = "trimming"
      BY <1>6, <2>4 DEF Memory!Shrink
    <3>2. Len(recent) = 2 \/ Memory!Estimate(recent) <= Memory!Budget
      BY <1>2, <1>3, <2>2, <2>4
    <3>3. (Len(recent) = 2 \/ Memory!Estimate(recent) <= Memory!Budget)'
      BY <2>1, <3>1, <3>2, EstimateStays
    <3>4. \A i \in DOMAIN recent' : recent'[i] = Was(i)'
      BY <2>1, <2>2, <3>1 DEF Was
    <3>5. CutInv'
      BY <3>4 DEF CutInv
    <3>. QED
      BY <1>1, <2>1, <2>2, <3>1, <3>3, <3>5 DEF MemoryInv, Compressing
  <2>. QED
    BY <2>3, <2>4
<1>7. CASE Memory!Trim
  BY <1>1, <1>7, TrimKept
<1>8. CASE Memory!SummaryFails
  <2>1. UNCHANGED <<messages, prev, summary, added>> /\ memoryAt = "summarising" /\ memoryAt' = "failed"
        /\ recent' = messages
    BY <1>8 DEF Memory!SummaryFails
  <2>. QED
    BY <1>1, <2>1 DEF MemoryInv, Compressing
<1>9. ASSUME NEW wrote \in Written, Memory!Summarise(wrote)
      PROVE  MemoryInv'
  <2>1. /\ UNCHANGED <<messages, prev, recent>> /\ memoryAt = "summarising" /\ memoryAt' = "compressed"
        /\ added' = wrote /\ summary' = Memory!Merge(wrote)
    BY <1>9 DEF Memory!Summarise
  <2>2. Memory!Merge(added)' = Memory!Merge(wrote)
    BY <2>1 DEF Memory!Merge
  <2>3. Memory!Estimate(recent)' = Memory!Estimate(recent) /\ Memory!Budget' = Memory!Budget
    BY <2>1, EstimateStays
  <2>4. CutInv => CutInv'
    BY <2>1 DEF CutInv, Was
  <2>. QED
    BY <1>1, <2>1, <2>2, <2>3, <2>4 DEF MemoryInv, Compressing
<1>. QED
  BY <1>4, <1>5, <1>6, <1>7, <1>8, <1>9 DEF Memory!Next

LEMMA MemoryBound ==
  ASSUME Memory!MemoryAssumption, MemoryInv, MaxTokens >= 64
  PROVE  Memory!MemorySound /\ Memory!EveryCutShortens
<1>1. Memory!EveryCutShortens
  BY CutShortens DEF Memory!EveryCutShortens
<1>2. ASSUME memoryAt = "compressed"
      PROVE  /\ Memory!Estimate(recent) <= Memory!Budget /\ Len(recent) \in 1 .. 6
             /\ \A i \in DOMAIN recent : recent[i] # Was(i) =>
                  /\ Len(recent) <= 2 /\ Memory!Tokens(recent[i]) < Memory!Tokens(Was(i))
                  /\ \A j \in DOMAIN recent : Memory!Tokens(Was(j)) > Memory!Tokens(Was(i)) => recent[j] # Was(j)
  <2>1. Memory!Estimate(recent) <= Memory!Budget /\ Len(recent) \in 2 .. 6 /\ CutInv
    BY <1>2 DEF MemoryInv, Compressing
  <2>2. \A n \in 2 .. 6 : n \in 1 .. 6 /\ (n = 2 => n <= 2)
    OBVIOUS
  <2>3. Len(recent) \in 1 .. 6 /\ (Len(recent) = 2 => Len(recent) <= 2)
    BY <2>1, <2>2, Zenon
  <2>. QED
    BY <2>1, <2>3, Zenon DEF CutInv
<1>3. ASSUME memoryAt = "compressed"
      PROVE  /\ Memory!IsSuffix(summary, prev \o added)
             /\ added # <<>> => summary # <<>> /\ Memory!Last(summary) = Memory!Last(added)
             /\ prev # <<>> /\ added # <<>> =>
                  Len(summary) = 1 \/ Memory!Runes(summary) <= MaxTokens \div 2
  <2>1. summary = Memory!Merge(added) /\ prev \in Seq(Nat) /\ added \in Seq(Nat) /\ MaxTokens >= 2
    BY <1>3 DEF MemoryInv, Memory!MemoryTypeOK, Memory!MemoryAssumption
  <2>. QED
    BY <2>1, SummaryKeeps
<1>4. memoryAt \in {"kept", "failed"} => recent = messages /\ summary = prev
  BY DEF MemoryInv, Compressing
<1>. QED
  BY <1>1, <1>2, <1>3, <1>4 DEF Memory!MemorySound, Was
-----------------------------------------------------------------------------
(* All of a turn (Rag). *)

RagInv ==
  /\ ragPart = "rules" => input \in Answering!Questions
  /\ AnsweringInv /\ SearchInv /\ MemoryInv /\ StoresInv

LEMMA RagAssumed ==
  /\ Answering!RagAssumption /\ Search!RetrievalAssumption
  /\ Memory!MemoryAssumption /\ Stores!StoresAssumption
  BY RagAssumption DEF RagAssumption

\* A part whose variables stay keeps its invariant.
LEMMA AnsweringStays ==
  ASSUME AnsweringInv, UNCHANGED answering
  PROVE  AnsweringInv'
<1>1. UNCHANGED <<verdictClock, cache, question, history, turnAt, intent, rewritten, prompt, failed, judged, since>>
  BY DEF answering
<1>2. UNCHANGED Judged /\ UNCHANGED Answering!Cardinality({q \in Posed : cache[q] # Nothing})
  BY <1>1 DEF Judged
<1>3. Answering!RagTypeOK'
  BY <1>1, <1>2 DEF AnsweringInv, Answering!RagTypeOK
<1>. QED
  BY <1>1, <1>2, <1>3 DEF AnsweringInv, Decided, OnItsWay

LEMMA SearchStays ==
  ASSUME SearchInv, UNCHANGED search
  PROVE  SearchInv'
<1>1. UNCHANGED <<vec, near, kw, fused, kept>>
  BY DEF search
<1>2. Search!RetrievalTypeOK'
  BY <1>1 DEF SearchInv, Search!RetrievalTypeOK, Search!Rankings
<1>3. /\ Search!Merged' <=> Search!Merged
      /\ Search!Filtered' = Search!Filtered /\ Search!Found' = Search!Found
      /\ Search!ToSet(fused)' = Search!ToSet(fused)
      /\ \A i \in DOMAIN fused, e \in Search!Found : Search!Below(fused[i], e)' <=> Search!Below(fused[i], e)
  BY <1>1 DEF Search!Merged, Search!Filtered, Search!Found, Search!ToSet, Search!Below, Search!Score,
     Search!NearEnough, Search!HasDistance, Search!AllOf
<1>. QED
  BY <1>1, <1>2, <1>3 DEF SearchInv

LEMMA MemoryStays ==
  ASSUME MemoryInv, UNCHANGED memory
  PROVE  MemoryInv'
<1>1. UNCHANGED <<messages, prev, memoryAt, recent, summary, added>>
  BY DEF memory
<1>2. Memory!MemoryTypeOK'
  BY <1>1 DEF MemoryInv, Memory!MemoryTypeOK
<1>3. Memory!Budget' = Memory!Budget /\ Memory!Estimate(recent)' = Memory!Estimate(recent)
  BY <1>1, EstimateStays
<1>4. Memory!Merge(added)' = Memory!Merge(added)
  BY <1>1 DEF Memory!Merge, Memory!Runes, Memory!Sum
<1>5. (CutInv => CutInv') /\ \A i \in DOMAIN recent : Was(i)' = Was(i)
  BY <1>1 DEF CutInv, Was, Memory!Tokens
<1>. QED
  BY <1>1, <1>2, <1>3, <1>4, <1>5 DEF MemoryInv

LEMMA StoresStays ==
  ASSUME StoresInv, UNCHANGED stores
  PROVE  StoresInv'
<1>1. UNCHANGED <<storeClock, exactStore, refused, semanticStore, flights, streams, hit, lastUsed, overlapped>>
  BY DEF stores
<1>2. Stores!StoresTypeOK'
  BY <1>1 DEF StoresInv, Stores!StoresTypeOK
<1>3. \A k \in Keys : OverlapNoted(k)'
  BY <1>1 DEF StoresInv, OverlapNoted, Stores!Working, Answered, Stores!RefusalLive
<1>4. HitSound' /\ \A i \in 1 .. Len(exactStore') : InTime(exactStore[i])'
  BY <1>1 DEF StoresInv, HitSound, InTime
<1>. QED
  BY <1>1, <1>2, <1>3, <1>4 DEF StoresInv

LEMMA RagBegins ==
  ASSUME RagInit
  PROVE  RagInv
<1>1. ragPart = "rules" => input \in Answering!Questions
  BY DEF RagInit
<1>. QED
  BY <1>1, RagAssumed, AnsweringInit, SearchInit, MemoryInit, StoresInit DEF RagInit, RagInv

LEMMA RagKept ==
  ASSUME RagInv, [RagNext]_ragVars
  PROVE  RagInv'
<1>1. CASE AnsweringStep
  BY <1>1, RagAssumed, AnsweringKept, SearchStays, MemoryStays, StoresStays DEF AnsweringStep, RagInv
<1>2. CASE SearchStep
  BY <1>2, RagAssumed, AnsweringStays, SearchKept, MemoryStays, StoresStays DEF SearchStep, RagInv
<1>3. CASE MemoryStep
  BY <1>3, RagAssumed, AnsweringStays, SearchStays, MemoryKept, StoresStays DEF MemoryStep, RagInv
<1>4. CASE StoresStep
  BY <1>4, RagAssumed, AnsweringStays, SearchStays, MemoryStays, StoresKept DEF StoresStep, RagInv
<1>5. CASE UNCHANGED ragVars
  <2>1. /\ UNCHANGED ragPart /\ UNCHANGED input
        /\ UNCHANGED answering /\ UNCHANGED search /\ UNCHANGED memory /\ UNCHANGED stores
    BY <1>5 DEF ragVars
  <2>. QED
    BY <2>1, AnsweringStays, SearchStays, MemoryStays, StoresStays DEF RagInv
<1>. QED
  BY <1>1, <1>2, <1>3, <1>4, <1>5 DEF RagNext

\* In every behaviour every part of a turn of the RAG model keeps its invariant.
THEOREM RagInvariant == RagSpec => []RagInv
<1>1. RagInit => RagInv
  BY RagBegins
<1>2. RagInv /\ [RagNext]_ragVars => RagInv'
  BY RagKept
<1>. QED
  BY <1>1, <1>2, PTL DEF RagSpec

\* The variables of every part keep their types.
THEOREM PartsKeepTypes == RagSpec => []PartsTypeOK
<1>1. RagInv => PartsTypeOK
  BY DEF RagInv, PartsTypeOK, AnsweringInv, SearchInv, MemoryInv, StoresInv
<1>. QED
  BY <1>1, RagInvariant, PTL

\* Neither the rules nor any failure but that of the search itself cost a question
\* its documents (intent.go, model_rag.go, rewrite.go, cache.go).
THEOREM DocumentsAreNotLost == RagSpec => []DocumentsUnlessLost
<1>1. RagInv => DocumentsUnlessLost
  BY RagAssumed, RulesAreSafe, AnsweringBound DEF RagInv, DocumentsUnlessLost
<1>. QED
  BY <1>1, RagInvariant, PTL

\* What both searches found comes first and is not cut off, and the filter never
\* leaves less than it should (retrieve.go, rag_support.go).
THEOREM DocumentsAreFound == RagSpec => []DocumentsFound
<1>1. RagInv => DocumentsFound
  BY RagAssumed, SearchBound DEF RagInv, DocumentsFound
<1>. QED
  BY <1>1, RagInvariant, PTL

\* The stores keep their limits and times, a hit is of the namespace that asked, and
\* a question is answered and refused at one time only where two generations of it
\* overlapped (internal/cache).
THEOREM StoresStaySound == RagSpec => []StoresSound
<1>1. RagInv => StoresSound
  BY RagAssumed, StoresBound DEF RagInv, StoresSound
<1>. QED
  BY <1>1, RagInvariant, PTL

\* Of a compressed conversation the last question and the end of the summary stay,
\* what is kept fits into the budget, and a message is cut only where two are left
\* and the other is no longer, or cut too.  A failure loses nothing (compressor.go).
THEOREM ConversationIsKept ==
  ASSUME MaxTokens >= 64
  PROVE  RagSpec => []ConversationKept
<1>1. RagInv => ConversationKept
  BY RagAssumed, MemoryBound DEF RagInv, ConversationKept
<1>. QED
  BY <1>1, RagInvariant, PTL

\* Trimming ends: every cut leaves fewer tokens, as long as a quarter of the budget
\* is 16 tokens (compressor.go).
THEOREM TrimmingEnds ==
  ASSUME MaxTokens >= 64
  PROVE  RagSpec => []EveryCutShortens
<1>1. RagInv => EveryCutShortens
  BY RagAssumed, MemoryBound DEF RagInv, EveryCutShortens
<1>. QED
  BY <1>1, RagInvariant, PTL
=============================================================================
