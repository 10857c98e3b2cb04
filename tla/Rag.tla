---------------------------------- MODULE Rag ----------------------------------
(***************************************************************************)
(* What a turn of the RAG model is made of: the rules for its intent, the  *)
(* way to its answer, the merge of two searches, the compression of its    *)
(* conversation and the stores its answer may come from.  The parts share  *)
(* no state with one another, so one is picked and the others stay as they *)
(* begin; the rules, and how a text is cut (Chunking), are functions of an *)
(* input.                                                                  *)
(***************************************************************************)
EXTENDS Integers, FiniteSets, Sequences

\* The constants of the parts.
CONSTANTS Nothing, MaxTime,
          Texts,                                            \* Chunking
          RagTurns, Posed, VerdictTTL, MaxVerdicts,         \* RagTurn
          Docs, TopK, RankOffset, FallbackTopN,             \* Retrieval
          Contents, Counts, Summaries, Written, MaxTokens,  \* Memory
          Keys, Alike, Streamed, MaxWorking,                \* AnswerStores
          MaxExact, MaxSemantic, ExactTTL, Jitter,
          RefusalTTL, RefusalJitter, SemanticTTL

VARIABLES ragPart, input,
          verdictClock, cache, question, history, turnAt, intent, rewritten, prompt, failed, judged, since,
          vec, near, kw, fused, kept,
          messages, prev, memoryAt, recent, summary, added,
          storeClock, exactStore, refused, semanticStore, flights, streams, hit, lastUsed, overlapped

Answering == INSTANCE RagTurn
  WITH None <- Nothing, MaxClock <- MaxTime, clock <- verdictClock, at <- turnAt,
       Turns <- RagTurns, Asked <- Posed, TTL <- VerdictTTL, MaxEntries <- MaxVerdicts
Search == INSTANCE Retrieval WITH None <- Nothing, K <- RankOffset
Memory == INSTANCE Memory WITH at <- memoryAt
Stores == INSTANCE AnswerStores
  WITH None <- Nothing, MaxClock <- MaxTime, clock <- storeClock, exact <- exactStore, semantic <- semanticStore,
       used <- lastUsed, Close <- Alike

ASSUME RagAssumption ==
  /\ Answering!RagAssumption /\ Search!RetrievalAssumption
  /\ Memory!MemoryAssumption /\ Stores!StoresAssumption

answering == <<verdictClock, cache, question, history, turnAt, intent, rewritten, prompt, failed, judged, since>>
search == <<vec, near, kw, fused, kept>>
memory == <<messages, prev, memoryAt, recent, summary, added>>
stores == <<storeClock, exactStore, refused, semanticStore, flights, streams, hit, lastUsed, overlapped>>
ragVars == <<ragPart, input, answering, search, memory, stores>>

RagInit ==
  /\ ragPart \in {"rules", "text", "answering", "search", "memory", "stores"}
  /\ input \in IF ragPart = "rules" THEN Answering!Questions ELSE Texts
  /\ Answering!Init /\ Search!Init /\ Memory!Init /\ Stores!Init

AnsweringStep == ragPart = "answering" /\ Answering!Next /\ UNCHANGED <<ragPart, input, search, memory, stores>>
SearchStep == ragPart = "search" /\ Search!Next /\ UNCHANGED <<ragPart, input, answering, memory, stores>>
MemoryStep == ragPart = "memory" /\ Memory!Next /\ UNCHANGED <<ragPart, input, answering, search, stores>>
StoresStep == ragPart = "stores" /\ Stores!Next /\ UNCHANGED <<ragPart, input, answering, search, memory>>

RagNext == AnsweringStep \/ SearchStep \/ MemoryStep \/ StoresStep

RagSpec == RagInit /\ [][RagNext]_ragVars
-----------------------------------------------------------------------------
\* The variables of every part keep their types.
PartsTypeOK == /\ ragPart = "answering" => Answering!RagTypeOK
               /\ ragPart = "search" => Search!RetrievalTypeOK
               /\ ragPart = "memory" => Memory!MemoryTypeOK
               /\ ragPart = "stores" => Stores!StoresTypeOK

\* Neither the rules nor any failure but that of the search itself cost a
\* question its documents (intent.go, model_rag.go, rewrite.go, cache.go),
\* see Intent and RagTurn.
DocumentsUnlessLost ==
  /\ ragPart = "rules" => Answering!RulesSafe(input)
  /\ ragPart = "answering" => Answering!DocumentsUnlessLost /\ Answering!VerdictFresh

\* The merge of two rankings, and the filter behind it (retrieve.go,
\* rag_support.go), see Retrieval.
DocumentsFound == ragPart = "search" => Search!RetrievalSound

\* Answers and refusals in their stores (internal/cache), see AnswerStores.
StoresSound == ragPart = "stores" => Stores!StoresSound

\* Where a conversation is compressed, its last messages and its summary stay
\* (compressor.go), see Memory.
ConversationKept == ragPart = "memory" => Memory!MemorySound

\* Trimming ends (compressor.go), see Memory.
EveryCutShortens == ragPart = "memory" => Memory!EveryCutShortens
=============================================================================
