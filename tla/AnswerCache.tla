----------------------------- MODULE AnswerCache -----------------------------
(***************************************************************************)
(* internal/cache (Coordinator over the exact, negative and semantic       *)
(* caches), the per-user RAGQuery cache of internal/rag, and               *)
(* service/file.UploadRagFile, which replaces the user's document and then *)
(* empties them all.                                                       *)
(*                                                                         *)
(* One user, one model, one question, asked by several first turns: in the *)
(* synchronous handler through Coordinator.Do, whose singleflight lets one *)
(* of them generate, and in the streaming one through Lookup and Store.    *)
(* A document is known by the upload that brought it, Old if that was      *)
(* before the behaviours of this model begin, an answer by the document it *)
(* drew on (None: no document) and whether it is a refusal.                *)
(***************************************************************************)
EXTENDS Integers, FiniteSets

CONSTANTS Requests, Uploads, Old, None

ASSUME AnswerCacheAssumption == Old \notin Uploads /\ None \notin Requests \cup Uploads \cup {Old}

VARIABLES files,       \* the documents in uploads/<user>
          indexed,     \* documents with a vector index
          upload,      \* [upload -> where its UploadRagFile stands]
          batch,       \* history: the first of the last uploads to overlap one another
          renewed,     \* history: has one of that batch succeeded?
          query,       \* queryCache[user]: the document its index name was built from
          exact, negative, semantic,  \* answers cached; the last is a set
          flight,      \* the leader of the singleflight for the question
          at, kind,    \* [request -> where it stands, which handler it is]
          using,       \* [request -> the document its RAGQuery points to]
          answer,      \* [request -> the answer it has got]
          late         \* history: [request -> did what it has come by overlap an upload?]

caches == <<query, exact, negative, semantic>>
docVars == <<files, indexed, upload, batch, renewed>>
vars == <<docVars, caches, flight, at, kind, using, answer, late>>

Documents == Uploads \cup {Old}
NoQuery == [ver |-> None, late |-> FALSE]
NoAnswer == [ver |-> None, refusal |-> FALSE, late |-> FALSE, from |-> "nobody", era |-> None]
Answers == [ver : Documents \cup {None}, refusal : BOOLEAN, late : BOOLEAN,
            from : {"nobody", "model", "error"},
            era : Documents \cup {None}]  \* history: batch when it was cached
Active == {u \in Uploads : upload[u] \notin {"idle", "ended", "failed"}}

TypeOK ==
  /\ files \subseteq Documents /\ indexed \subseteq Documents
  /\ upload \in [Uploads -> {"idle", "removing", "removed", "written", "indexed", "invalidated",
                             "exactPurged", "negativePurged", "ended", "failed"}]
  /\ batch \in Documents /\ renewed \in BOOLEAN
  /\ query \in [ver : Documents \cup {None}, late : BOOLEAN]
  /\ exact \in Answers /\ ~exact.refusal
  /\ negative \in Answers /\ (negative # NoAnswer => negative.refusal)
  /\ semantic \subseteq Answers /\ \A e \in semantic : ~e.refusal
  /\ flight \in Requests \cup {None}
  /\ at \in [Requests -> {"start", "embedding", "joining", "waiting", "leading",
                          "embeddingAgain", "querying", "building", "retrieving",
                          "answering", "storing", "embeddingAnswer", "flown", "done"}]
  /\ kind \in [Requests -> {"sync", "stream"}]
  /\ using \in [Requests -> Documents \cup {None}]
  /\ answer \in [Requests -> Answers]
  /\ late \in [Requests -> BOOLEAN]

Init == /\ files = {Old} /\ indexed = {Old} /\ batch = Old /\ renewed = TRUE
        /\ upload = [u \in Uploads |-> "idle"]
        /\ query = NoQuery /\ exact = NoAnswer /\ negative = NoAnswer /\ semantic = {}
        /\ flight = None
        /\ at = [r \in Requests |-> "start"]
        /\ kind \in [Requests -> {"sync", "stream"}]
        /\ using = [r \in Requests |-> None]
        /\ answer = [r \in Requests |-> NoAnswer]
        /\ late = [r \in Requests |-> FALSE]

Goto(r, place) == at' = [at EXCEPT ![r] = place]
Busy == {r \in Requests : at[r] \notin {"start", "done"}}
-----------------------------------------------------------------------------
(* Coordinator.Lookup and Do *)

\* A request that has an answer without generating one is done; a leader
\* first has to end its flight.
Hit(r, e) == /\ answer' = [answer EXCEPT ![r] = e]
             /\ Goto(r, IF flight = r THEN "flown" ELSE "done")
Missed(r) == IF flight = r THEN "querying" ELSE IF kind[r] = "sync" THEN "joining" ELSE "querying"

\* Exact, then negative.  The leader of a flight looks a second time.
LookupLocal(r) ==
  /\ at[r] \in {"start", "leading"}
  /\ late' = [late EXCEPT ![r] = @ \/ Active # {}]
  /\ IF exact # NoAnswer THEN Hit(r, exact)
     ELSE IF negative # NoAnswer THEN Hit(r, negative)
     ELSE /\ Goto(r, IF at[r] = "start" THEN "embedding" ELSE "embeddingAgain")
          /\ UNCHANGED answer
  /\ UNCHANGED <<docVars, caches, flight, kind, using>>

\* Semantic, after an embedding call that may fail.
LookupSemantic(r) ==
  /\ at[r] \in {"embedding", "embeddingAgain"}
  /\ \/ \E e \in semantic : Hit(r, e)
     \/ Goto(r, Missed(r)) /\ UNCHANGED answer
  /\ UNCHANGED <<docVars, caches, flight, kind, using, late>>

\* Mutant: concurrent requests are not merged.
JoinNobody(r) == /\ at[r] = "joining"
                 /\ Goto(r, "leading")
                 /\ flight' = r
                 /\ UNCHANGED <<docVars, caches, kind, using, answer, late>>

\* singleflight.Group.Do: the first leads, the others wait for its answer.
Join(r) == /\ at[r] = "joining"
           /\ IF flight = None THEN flight' = r /\ Goto(r, "leading")
              ELSE Goto(r, "waiting") /\ UNCHANGED flight
           /\ UNCHANGED <<docVars, caches, kind, using, answer, late>>

\* The leader's answer, or its error, is everybody's.
FlightEnds(r) ==
  /\ flight = r /\ at[r] = "flown"
  /\ flight' = None
  /\ at' = [q \in Requests |-> IF q = r \/ at[q] = "waiting" THEN "done" ELSE at[q]]
  /\ answer' = [q \in Requests |-> IF at[q] = "waiting" THEN answer[r] ELSE answer[q]]
  /\ UNCHANGED <<docVars, caches, kind, using, late>>

Generated(r) == IF kind[r] = "sync" THEN "flown" ELSE "done"
-----------------------------------------------------------------------------
(* The generation: AliRAGModel through cachedRAGQuery *)

FindQuery(r) ==
  /\ at[r] = "querying"
  /\ IF query # NoQuery
     THEN /\ using' = [using EXCEPT ![r] = query.ver]
          /\ late' = [late EXCEPT ![r] = @ \/ query.late]
          /\ Goto(r, "retrieving")
     ELSE Goto(r, "building") /\ UNCHANGED <<using, late>>
  /\ UNCHANGED <<docVars, caches, flight, kind, answer>>

\* buildRAGQuery reads the directory: the index is named after a file it finds.
BuildQuery(r, document) ==
  /\ at[r] = "building" /\ using[r] = None
  /\ document \in files
  /\ using' = [using EXCEPT ![r] = document]
  /\ UNCHANGED <<docVars, caches, flight, at, kind, answer, late>>

\* Under the write lock: whoever is first wins.
InsertQuery(r) ==
  /\ at[r] = "building" /\ using[r] # None
  /\ IF query = NoQuery
     THEN query' = [ver |-> using[r], late |-> late[r]] /\ UNCHANGED <<using, late>>
     ELSE /\ using' = [using EXCEPT ![r] = query.ver]
          /\ late' = [late EXCEPT ![r] = @ \/ query.late]
          /\ UNCHANGED query
  /\ Goto(r, "retrieving")
  /\ UNCHANGED <<docVars, exact, negative, semantic, flight, kind, answer>>

Retrieve(r) == /\ at[r] = "retrieving" /\ using[r] \in indexed
               /\ Goto(r, "answering")
               /\ UNCHANGED <<docVars, caches, flight, kind, using, answer, late>>

\* A question for a summary is answered from the file itself.
ReadWhole(r, document) ==
  /\ at[r] = "querying"
  /\ document \in files
  /\ using' = [using EXCEPT ![r] = document]
  /\ Goto(r, "answering")
  /\ UNCHANGED <<docVars, caches, flight, kind, answer, late>>

\* The model answers without documents: small talk, no file, a RAGQuery that
\* cannot be built, an index that is not there yet or not any more, or two
\* searches that found nothing or failed (only logged).
WithoutDocuments(r) ==
  /\ at[r] \in {"querying", "retrieving"} \/ (at[r] = "building" /\ using[r] = None)
  /\ using' = [using EXCEPT ![r] = None]
  /\ Goto(r, "answering")
  /\ UNCHANGED <<docVars, caches, flight, kind, answer, late>>

AnswerArrives(r, refusal) ==
  /\ at[r] = "answering"
  /\ answer' = [answer EXCEPT ![r] = [NoAnswer EXCEPT !.ver = using[r], !.refusal = refusal,
                                                !.from = "model"]]
  /\ Goto(r, "storing")
  /\ UNCHANGED <<docVars, caches, flight, kind, using, late>>

GenerationFails(r) == /\ at[r] = "answering"
                      /\ answer' = [answer EXCEPT ![r] = [NoAnswer EXCEPT !.from = "error"]]
                      /\ Goto(r, Generated(r))
                      /\ UNCHANGED <<docVars, caches, flight, kind, using, late>>

Entry(r) == [answer[r] EXCEPT !.late = late[r], !.era = batch]

\* Mutant: a refusal is cached like any other answer.
StoreRefusalToo(r) == /\ at[r] = "storing"
                      /\ exact' = Entry(r)
                      /\ Goto(r, "embeddingAnswer")
                      /\ UNCHANGED <<docVars, query, negative, semantic, flight, kind, using, answer, late>>

\* Coordinator.Store.  A refusal goes to the negative cache only.
StoreLocal(r) ==
  /\ at[r] = "storing"
  /\ IF answer[r].refusal
     THEN negative' = Entry(r) /\ Goto(r, Generated(r)) /\ UNCHANGED exact
     ELSE exact' = Entry(r) /\ Goto(r, "embeddingAnswer") /\ UNCHANGED negative
  /\ UNCHANGED <<docVars, query, semantic, flight, kind, using, answer, late>>

StoreSemantic(r, embedded) ==
  /\ at[r] = "embeddingAnswer"
  /\ semantic' = IF embedded THEN semantic \cup {Entry(r)} ELSE semantic
  /\ negative' = NoAnswer
  /\ Goto(r, Generated(r))
  /\ UNCHANGED <<docVars, query, exact, flight, kind, using, answer, late>>

\* Time to live, LRU and size limits.
Expire == /\ \/ exact' = NoAnswer /\ UNCHANGED <<negative, semantic>>
             \/ negative' = NoAnswer /\ UNCHANGED <<exact, semantic>>
             \/ \E e \in semantic : semantic' = semantic \ {e} /\ UNCHANGED <<exact, negative>>
          /\ <<exact, negative, semantic>> # <<exact', negative', semantic'>>
          /\ UNCHANGED <<docVars, query, flight, at, kind, using, answer, late>>
-----------------------------------------------------------------------------
(* service/file: UploadRagFile, which takes no lock *)

uploadRest == <<flight, at, kind, using, answer>>
Stage(u, before, after) == upload[u] = before /\ upload' = [upload EXCEPT ![u] = after]

\* DeleteIndex of the files that are there.  It may fail, and the upload goes on.
UploadBegins(u, gone) ==
  /\ Stage(u, "idle", "removing")
  /\ gone \subseteq files /\ indexed' = indexed \ gone
  /\ IF Active = {} THEN batch' = u /\ renewed' = FALSE ELSE UNCHANGED <<batch, renewed>>
  /\ late' = [r \in Requests |-> late[r] \/ r \in Busy]
  /\ UNCHANGED <<files, caches, uploadRest>>

RemoveFiles(u) == /\ Stage(u, "removing", "removed") /\ files' = {}
                  /\ UNCHANGED <<indexed, batch, renewed, caches, uploadRest, late>>

\* os.Create shows the new file to the readers of the directory.
WriteFile(u) == /\ Stage(u, "removed", "written") /\ files' = files \cup {u}
                /\ UNCHANGED <<indexed, batch, renewed, caches, uploadRest, late>>

\* Another upload may have removed the file.
Index(u) == /\ Stage(u, "written", "indexed") /\ u \in files
            /\ indexed' = indexed \cup {u}
            /\ UNCHANGED <<files, batch, renewed, caches, uploadRest, late>>

\* The early returns: the directory cannot be cleaned, the file cannot be
\* written or the index built.  What is left of either stays; no cache is touched.
UploadFails(u, there, built) ==
  /\ upload[u] \in {"removing", "removed", "written"}
  /\ upload' = [upload EXCEPT ![u] = "failed"]
  /\ there \subseteq files /\ (upload[u] = "removed" => there = files)
  /\ upload[u] = "written" => files \ {u} \subseteq there
  /\ built => upload[u] = "written"
  /\ files' = there /\ indexed' = IF built THEN indexed \cup {u} ELSE indexed
  /\ UNCHANGED <<batch, renewed, caches, uploadRest, late>>

InvalidateUser(u) ==
  /\ Stage(u, "indexed", "invalidated") /\ query' = NoQuery
  /\ UNCHANGED <<files, indexed, batch, renewed, exact, negative, semantic, uploadRest, late>>

\* InvalidateAll: three caches, each under its own lock.
PurgeExact(u) ==
  /\ Stage(u, "invalidated", "exactPurged") /\ exact' = NoAnswer
  /\ UNCHANGED <<files, indexed, batch, renewed, query, negative, semantic, uploadRest, late>>

PurgeNegative(u) ==
  /\ Stage(u, "exactPurged", "negativePurged") /\ negative' = NoAnswer
  /\ UNCHANGED <<files, indexed, batch, renewed, query, exact, semantic, uploadRest, late>>

UploadEnds(u) == /\ Stage(u, "negativePurged", "ended")
                 /\ renewed' = TRUE
                 /\ UNCHANGED <<files, indexed, batch, query, exact, negative, uploadRest, late>>

\* Mutant: the semantic cache is forgotten.
PurgeSkipsSemantic(u) == UploadEnds(u) /\ UNCHANGED semantic

PurgeSemantic(u) == UploadEnds(u) /\ semantic' = {}
-----------------------------------------------------------------------------
Request(r) ==
  \/ LookupLocal(r) \/ LookupSemantic(r) \/ Join(r) \/ FlightEnds(r)
  \/ FindQuery(r) \/ InsertQuery(r) \/ Retrieve(r) \/ WithoutDocuments(r)
  \/ \E document \in Documents : BuildQuery(r, document) \/ ReadWhole(r, document)
  \/ \E refusal \in BOOLEAN : AnswerArrives(r, refusal)
  \/ GenerationFails(r) \/ StoreLocal(r)
  \/ \E embedded \in BOOLEAN : StoreSemantic(r, embedded)

Upload(u) ==
  \/ \E gone \in SUBSET Documents : UploadBegins(u, gone)
  \/ RemoveFiles(u) \/ WriteFile(u) \/ Index(u)
  \/ \E there \in SUBSET Documents, built \in BOOLEAN : UploadFails(u, there, built)
  \/ InvalidateUser(u) \/ PurgeExact(u) \/ PurgeNegative(u) \/ PurgeSemantic(u)

\* All requests answered and all uploads done.
Over == /\ \A r \in Requests : at[r] = "done"
        /\ Active = {}
        /\ UNCHANGED vars

Next == (\E r \in Requests : Request(r)) \/ (\E u \in Uploads : Upload(u)) \/ Expire \/ Over

Spec == Init /\ [][Next]_vars
-----------------------------------------------------------------------------
Generating(r) == kind[r] = "sync" /\ at[r] \in {"querying", "building", "retrieving",
                                               "answering", "storing", "embeddingAnswer"}

\* Of the synchronous requests for one question, at most one is generating,
\* whatever expires or is purged meanwhile; and whoever waits, waits for it
\* (coordinator.go: a hot key that expires is generated once, not N times).
OneGeneration ==
  /\ \A r, q \in Requests : Generating(r) /\ Generating(q) => r = q
  /\ \A r \in Requests : at[r] = "waiting" => flight # None /\ at[flight] \notin {"waiting", "done"}

Outdated(e) == e.ver \notin files \cup {None}
Cached == semantic \cup ({exact, negative} \ {NoAnswer})

\* When uploads are over of which one has succeeded, whatever the caches hold
\* was cached after them, with or without a document that is still there, or
\* comes from a request that overlapped an upload: of what was cached before
\* nothing is left, and nothing that begins after brings an old document back
\* (InvalidateUser and InvalidateAll after IndexFile, in service/file).  What
\* a request that overlapped stores after the purge may be an old answer, which
\* later requests are then given.
StaleOnlyFromOverlap ==
  renewed /\ Active = {} =>
    /\ \A e \in Cached : e.late \/ (e.era = batch /\ ~Outdated(e))
    /\ query.late \/ ~Outdated(query)
=============================================================================
