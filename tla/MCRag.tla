-------------------------------- MODULE MCRag --------------------------------
(***************************************************************************)
(* Small values for the parts of a RAG turn, and the cutting of documents. *)
(***************************************************************************)
EXTENDS Rag

CONSTANTS t1, t2             \* two turns

Chunks == INSTANCE Chunking WITH MaxLen <- 3, Overlap <- 1

ASSUME ChunkingAssumption == Chunks!ChunkAssumption

UpTo(n, symbols) == UNION {[1 .. k -> symbols] : k \in 0 .. n}

\* Texts of characters and documents of lines.
NoText == [of |-> "characters", text |-> <<>>]
ShortTexts == [of : {"characters"}, text : UpTo(6, {"x", "n", ".", " "})] \cup
              [of : {"lines"}, text : UpTo(6, {"h1", "h2", "text"})]

\* A short remark and a long greeting the model is asked about, in a cache
\* for one of them; and a question the rules are sure of.
Remark == [words |-> {}, length |-> 4]
Greeting == [words |-> {"chat"}, length |-> 13]
Reference == [words |-> {"pronoun", "weakSummary"}, length |-> 7]
ThreeQuestions == {Remark, Greeting, Reference}

\* Messages of 2, 30 and 90 tokens; a budget of 80, and so of 20 at least.
Short == [narrow |-> 8, wide |-> 0]
ThreeMessages == {Short, [narrow |-> 40, wide |-> 40], [narrow |-> 0, wide |-> 180]}
SomeSummaries == {<<>>, <<20>>, <<15, 20>>, <<90, 60>>}
NewSummaries == {<<>>, <<18>>, <<30, 25>>, <<5, 50>>}

\* Two questions of a user that mean the same, and one of another user.
ThreeKeys == {<<"u", "p">>, <<"u", "q">>, <<"v", "p">>}
SameMeaning == {{"p", "q"}}
OneStreamed == {<<"u", "p">>}

\* What is not picked has one beginning; the messages before a turn are
\* there for both turns or for neither, and ids have no meaning.
MCInit ==
  /\ ragPart \in {"rules", "text", "answering", "search", "memory", "stores"}
  /\ input \in CASE ragPart = "rules" -> Answering!Questions
                 [] ragPart = "text" -> Texts
                 [] OTHER -> {NoText}
  /\ question \in IF ragPart = "answering" THEN [RagTurns -> Posed] ELSE {[t \in RagTurns |-> Remark]}
  /\ history \in {[t \in RagTurns |-> FALSE]} \cup
               IF ragPart = "answering" THEN {[t \in RagTurns |-> TRUE]} ELSE {}
  /\ vec \in IF ragPart = "search" THEN {[i \in 1 .. n |-> i] : n \in 0 .. 3} ELSE {<<>>}
  /\ kw \in IF ragPart = "search" THEN Search!Rankings ELSE {<<>>}
  /\ messages \in IF ragPart = "memory" THEN UNION {[1 .. n -> Contents] : n \in Counts}
                 ELSE {[i \in 1 .. 4 |-> Short]}
  /\ prev \in IF ragPart = "memory" THEN Summaries ELSE {<<>>}
  /\ RagInit

MCSpec == MCInit /\ [][RagNext]_ragVars
-----------------------------------------------------------------------------
\* What is left of a text: its letters and sections in its chunks (chunk.go),
\* and the last messages of a conversation and its summary (compressor.go),
\* see Chunking and Memory.
TextsKept == /\ ragPart = "text" /\ input.of = "characters" => Chunks!ChunksSound(input.text)
             /\ ragPart = "text" /\ input.of = "lines" => Chunks!SectionsSound(input.text)
             /\ ConversationKept
=============================================================================
