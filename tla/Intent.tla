-------------------------------- MODULE Intent --------------------------------
(***************************************************************************)
(* internal/decision/intent.go (the rules that guess what a question is    *)
(* after) and the trigger of the query rewrite in internal/rag/rewrite.go. *)
(* A question is what the rules can tell of it: which of their word lists  *)
(* it has a word of, and how many characters it has.                       *)
(***************************************************************************)
EXTENDS Integers

Lists == {"pronoun", "strongSummary", "weakSummary", "task", "identity", "ability",
          "marker", "filler", "chat"}

\* One length for each side of the thresholds: 0, 4, 8 and 12 of the rules,
\* 8 of the rewrite and 10 of the keywords.
Lengths == {0, 4, 7, 8, 9, 10, 12, 13}

Questions == [words : SUBSET Lists, length : Lengths]

Has(q, list) == list \in q.words

\* isMetaQuestion: is it about the assistant, and no task it is given?
IsMeta(q) == ~Has(q, "task") /\ (Has(q, "identity") \/ Has(q, "ability"))

\* A weak word with the word of a question asks for one thing only.
WantsSummary(q) == Has(q, "strongSummary") \/ (Has(q, "weakSummary") /\ ~Has(q, "marker"))

Sure(intent) == [intent |-> intent, sure |-> TRUE]
Unsure(intent) == [intent |-> intent, sure |-> FALSE]

\* ruleIntent: the first rule that applies.
RuleIntent(q) ==
  IF q.length = 0 THEN Sure("chat")
  ELSE IF Has(q, "pronoun") THEN Sure("question")
  ELSE IF WantsSummary(q) THEN Sure("summary")
  ELSE IF IsMeta(q) THEN Sure("chat")
  ELSE IF Has(q, "marker") THEN Sure("question")
  ELSE IF q.length <= 8 /\ Has(q, "filler") THEN Sure("chat")
  ELSE IF Has(q, "chat") THEN IF q.length <= 12 THEN Sure("chat") ELSE Unsure("question")
  ELSE IF q.length <= 4 THEN Unsure("chat")
  ELSE Sure("question")

\* ShouldRewrite.
ShouldRewrite(q, history) == Has(q, "pronoun") \/ (q.length < 8 /\ history)
-----------------------------------------------------------------------------
(***************************************************************************)
(* What the rules are sure is chat, and so never looked up in the          *)
(* document, asks nothing (unless it asks the assistant about itself),     *)
(* refers to nothing said before and wants no summary; and the model is    *)
(* asked only about what has no word of a question or a summary.  What     *)
(* refers back is a question, and is rewritten with or without a history:  *)
(* the two layers use one list of pronouns (intent.go, HasPronoun).        *)
(***************************************************************************)
RulesSafe(q) ==
  LET r == RuleIntent(q) IN
  /\ q.length > 0 /\ r = Sure("chat") =>
       (~Has(q, "marker") \/ IsMeta(q)) /\ ~Has(q, "pronoun") /\ ~Has(q, "strongSummary")
  /\ q.length > 0 /\ ~r.sure => q.words \cap {"marker", "pronoun", "strongSummary", "weakSummary"} = {}
  /\ q.length > 0 /\ Has(q, "pronoun") => r = Sure("question") /\ ShouldRewrite(q, FALSE)
=============================================================================
