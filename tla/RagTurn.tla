------------------------------- MODULE RagTurn -------------------------------
(***************************************************************************)
(* internal/llm/model_rag.go: a turn of the RAG model, from the intent of  *)
(* the question (internal/decision, with its cache in the process) over    *)
(* rewrite, keywords and retrieval to the answer.  Everything before the   *)
(* answer may fail, and none of it may cost the user the answer.  The two  *)
(* handlers, GenerateResponse and StreamResponse, take the same steps.     *)
(*                                                                         *)
(* The user's document may come and go at any time, so each step that      *)
(* needs it may find it or not; what it then finds is in AnswerCache.      *)
(***************************************************************************)
EXTENDS Intent, FiniteSets

CONSTANTS Turns, Asked,      \* turns of the process, the questions they may ask
          TTL, MaxEntries,   \* [intentConfig] cacheTTLSeconds, maxCacheEntries
          MaxClock,          \* bound on the clock
          None

Intents == {"summary", "question", "chat"}
Verdicts == [intent : Intents, at : Nat]

RagAssumption == /\ {TTL, MaxClock} \subseteq Nat /\ MaxEntries \in Nat \ {0}
                 /\ Asked \subseteq Questions
                 /\ None \notin Intents /\ None \notin Verdicts

VARIABLES clock,
          cache,             \* intentCache: [question -> intent and when it was set, or None]
          question, history, \* [turn -> its question, are there messages before it?]
          at, intent,        \* [turn -> where it stands, what its question is after]
          rewritten,         \* [turn -> was its query rewritten?]
          prompt,            \* [turn -> what the model is to answer from]
          failed,            \* history: [turn -> the steps that have failed]
          judged, since      \* history: the judgements of the model; [turn -> when it had its intent]

inputs == <<question, history>>
ragVars == <<clock, cache, inputs, at, intent, rewritten, prompt, failed, judged, since>>

RagTypeOK ==
  /\ clock \in 0 .. MaxClock
  /\ cache \in [Asked -> Verdicts \cup {None}] /\ \A q \in Asked : cache[q] # None => cache[q].at <= clock
  /\ Cardinality({q \in Asked : cache[q] # None}) <= MaxEntries
  /\ question \in [Turns -> Asked] /\ history \in [Turns -> BOOLEAN]
  /\ at \in [Turns -> {"new", "judging", "routing", "querying", "rewriting", "extracting",
                       "retrieving", "answering", "answered", "error"}]
  /\ intent \in [Turns -> Intents \cup {None}] /\ rewritten \in [Turns -> BOOLEAN]
  /\ prompt \in [Turns -> {"none", "plain", "summary", "documents"}]
  /\ failed \in [Turns -> SUBSET {"judge", "read", "query", "rewrite", "extract", "retrieve"}]
  /\ judged \subseteq [question : Asked, intent : Intents, at : 0 .. clock, failed : BOOLEAN]
  /\ since \in [Turns -> 0 .. clock]

Init == /\ clock = 0
        /\ cache = [q \in Asked |-> None]
        /\ question \in [Turns -> Asked] /\ history \in [Turns -> BOOLEAN]
        /\ at = [t \in Turns |-> "new"] /\ intent = [t \in Turns |-> None]
        /\ rewritten = [t \in Turns |-> FALSE] /\ prompt = [t \in Turns |-> "none"]
        /\ failed = [t \in Turns |-> {}] /\ judged = {} /\ since = [t \in Turns |-> 0]

Goto(t, place) == at' = [at EXCEPT ![t] = place]
Fails(t, step) == failed' = [failed EXCEPT ![t] = @ \cup {step}]
AnswerFrom(t, what) == prompt' = [prompt EXCEPT ![t] = what] /\ Goto(t, "answering")

Tick == /\ clock < MaxClock /\ clock' = clock + 1
        /\ UNCHANGED <<cache, inputs, at, intent, rewritten, prompt, failed, judged, since>>
-----------------------------------------------------------------------------
(* ClassifyIntent *)

Decide(t, result) == /\ intent' = [intent EXCEPT ![t] = result]
                     /\ since' = [since EXCEPT ![t] = clock] /\ Goto(t, "routing")

Expired(q) == cache[q] # None /\ clock - cache[q].at > TTL

Classify(t) ==
  LET q == question[t]  r == RuleIntent(q) IN
  /\ at[t] = "new"
  /\ CASE r.sure -> Decide(t, r.intent) /\ UNCHANGED cache
       [] ~r.sure /\ cache[q] # None /\ ~Expired(q) -> Decide(t, cache[q].intent) /\ UNCHANGED cache
       [] OTHER -> /\ cache' = [cache EXCEPT ![q] = None] /\ Goto(t, "judging")
                   /\ UNCHANGED <<intent, since>>
  /\ UNCHANGED <<clock, inputs, rewritten, prompt, failed, judged>>

\* Mutant: a full cache takes one more.
RememberMore(q, result) == cache' = [cache EXCEPT ![q] = [intent |-> result, at |-> clock]]

\* intentCacheSet: a full cache is emptied.
Remember(q, result) ==
  cache' = [p \in Asked |-> IF p = q THEN [intent |-> result, at |-> clock]
                            ELSE IF Cardinality({x \in Asked : cache[x] # None}) >= MaxEntries THEN None
                            ELSE cache[p]]

Note(t, result, fails) ==
  judged' = judged \cup {[question |-> question[t], intent |-> result, at |-> clock, failed |-> fails]}

\* llmIntent calls the tool with one of the intents.
Judge(t, result) ==
  /\ at[t] = "judging"
  /\ Decide(t, result) /\ Remember(question[t], result) /\ Note(t, result, FALSE)
  /\ UNCHANGED <<clock, inputs, rewritten, prompt, failed>>

\* Mutant: where the model fails, the guess of the rules stands.
JudgeByRule(t) ==
  LET guess == RuleIntent(question[t]).intent IN
  /\ at[t] = "judging"
  /\ Decide(t, guess) /\ Remember(question[t], guess) /\ Note(t, guess, TRUE)
  /\ Fails(t, "judge")
  /\ UNCHANGED <<clock, inputs, rewritten, prompt>>

\* The call fails, or its answer names no intent: the default, which is
\* remembered like any other.
JudgeFails(t) ==
  /\ at[t] = "judging"
  /\ Decide(t, "question") /\ Remember(question[t], "question") /\ Note(t, "question", TRUE)
  /\ Fails(t, "judge")
  /\ UNCHANGED <<clock, inputs, rewritten, prompt>>
-----------------------------------------------------------------------------
(* From the intent to the prompt *)

turnRest == <<clock, cache, inputs, intent, judged, since>>

\* loadFullDocument
Summarise(t) == /\ at[t] = "routing" /\ intent[t] = "summary"
                /\ AnswerFrom(t, "summary")
                /\ UNCHANGED <<turnRest, rewritten, failed>>

\* Without a document, or if it cannot be read, a summary is a question.
CannotRead(t) == /\ at[t] = "routing" /\ intent[t] = "summary"
                 /\ Fails(t, "read") /\ Goto(t, "querying")
                 /\ UNCHANGED <<turnRest, rewritten, prompt>>

Route(t) == /\ at[t] = "routing" /\ intent[t] # "summary"
            /\ IF intent[t] = "chat" THEN AnswerFrom(t, "plain")
               ELSE Goto(t, "querying") /\ UNCHANGED prompt
            /\ UNCHANGED <<turnRest, rewritten, failed>>

\* NewRAGQuery
Query(t) == /\ at[t] = "querying"
            /\ Goto(t, "rewriting")
            /\ UNCHANGED <<turnRest, rewritten, prompt, failed>>

NoQuery(t) == /\ at[t] = "querying"
              /\ Fails(t, "query") /\ AnswerFrom(t, "plain")
              /\ UNCHANGED <<turnRest, rewritten>>

Rewrite(t) ==
  /\ at[t] = "rewriting"
  /\ rewritten' = [rewritten EXCEPT ![t] = ShouldRewrite(question[t], history[t])]
  /\ Goto(t, "extracting")
  /\ UNCHANGED <<turnRest, prompt, failed>>

\* An error, the timeout of 800 ms, or nothing left of the model's answer:
\* the question stays as it is.
RewriteFails(t) ==
  /\ at[t] = "rewriting" /\ ShouldRewrite(question[t], history[t])
  /\ Fails(t, "rewrite") /\ Goto(t, "extracting")
  /\ UNCHANGED <<turnRest, rewritten, prompt>>

\* extractKeywords: none of a short query that was not rewritten.
Extract(t) == /\ at[t] = "extracting"
              /\ Goto(t, "retrieving")
              /\ UNCHANGED <<turnRest, rewritten, prompt, failed>>

ExtractFails(t) == /\ at[t] = "extracting" /\ (question[t].length >= 10 \/ rewritten[t])
                   /\ Fails(t, "extract") /\ Goto(t, "retrieving")
                   /\ UNCHANGED <<turnRest, rewritten, prompt>>

\* RetrieveDocuments gives what either search has found, filterByRelevance
\* leaves some of it, and BuildRAGPrompt makes a prompt of that.
Retrieve(t) == /\ at[t] = "retrieving"
               /\ AnswerFrom(t, "documents")
               /\ UNCHANGED <<turnRest, rewritten, failed>>

\* Neither has found anything: the prompt is the question.
RetrieveNothing(t) == /\ at[t] = "retrieving"
                      /\ Fails(t, "retrieve") /\ AnswerFrom(t, "plain")
                      /\ UNCHANGED <<turnRest, rewritten>>

\* Generate or Stream.
Answer(t) == /\ at[t] = "answering"
             /\ Goto(t, "answered")
             /\ UNCHANGED <<turnRest, rewritten, prompt, failed>>

AnswerFails(t) == /\ at[t] = "answering"
                  /\ Goto(t, "error")
                  /\ UNCHANGED <<turnRest, rewritten, prompt, failed>>
-----------------------------------------------------------------------------
Turn(t) == \/ Classify(t) \/ JudgeFails(t) \/ \E i \in Intents : Judge(t, i)
           \/ Summarise(t) \/ CannotRead(t) \/ Route(t) \/ Query(t) \/ NoQuery(t)
           \/ Rewrite(t) \/ RewriteFails(t) \/ Extract(t) \/ ExtractFails(t)
           \/ Retrieve(t) \/ RetrieveNothing(t) \/ Answer(t) \/ AnswerFails(t)

Next == Tick \/ \E t \in Turns : Turn(t)
-----------------------------------------------------------------------------
(***************************************************************************)
(* No failure but that of the search itself keeps the documents from the   *)
(* answer: a question is answered without them only if it is chat, by the  *)
(* rules or by a judgement that has not failed, or if no RAGQuery could be *)
(* made or nothing was found.  And what refers back is not searched for as *)
(* it stands, unless its rewrite has failed (rewrite.go: a failure falls   *)
(* back on the question; intent.go: uncertain is never chat).              *)
(***************************************************************************)
DocumentsUnlessLost ==
  \A t \in Turns :
    /\ prompt[t] = "plain" /\ failed[t] \cap {"query", "retrieve"} = {} =>
         \/ RuleIntent(question[t]) = Sure("chat")
         \/ \E j \in judged : j.question = question[t] /\ j.intent = "chat" /\ ~j.failed
    /\ prompt[t] = "documents" /\ Has(question[t], "pronoun") => rewritten[t] \/ "rewrite" \in failed[t]

(***************************************************************************)
(* An intent the rules did not give was judged for this very question, and *)
(* no longer ago than the cache keeps it; a failed judgement, which is     *)
(* kept as long, has never said anything but "question" (cache.go).        *)
(***************************************************************************)
VerdictFresh ==
  \A t \in Turns : intent[t] # None /\ ~RuleIntent(question[t]).sure =>
    \E j \in judged : /\ j.question = question[t] /\ j.intent = intent[t]
                      /\ since[t] - j.at \in 0 .. TTL
                      /\ j.failed => intent[t] = "question"
=============================================================================
