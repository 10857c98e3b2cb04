-------------------------------- MODULE Memory --------------------------------
(***************************************************************************)
(* internal/agent/memory/compressor.go: a conversation that has outgrown   *)
(* its budget of tokens is cut to its last messages, those to what is left *)
(* of the budget, and the rest goes into a summary.  A message is how many *)
(* narrow characters it begins with and how many wide ones follow, a       *)
(* summary is the lengths of its paragraphs.  When the compressor runs,    *)
(* and on what, is in ChatTurn.                                            *)
(***************************************************************************)
EXTENDS Integers, Sequences, SequencesExt

CONSTANTS Contents,          \* messages, as [narrow, wide]
          Counts,            \* how many messages a conversation may have
          Summaries,         \* what the summary so far may be
          Written,           \* what the model may write as the summary of a part
          MaxTokens          \* [ragModelConfig] maxContextTokens, 4000 if it is not set

VARIABLES messages, prev,    \* the arguments of Compress
          at,                \* where it stands
          recent,            \* what it keeps, as far as it has got
          summary,           \* the summary it returns
          added              \* what the model has written of the part that goes

arguments == <<messages, prev>>
memoryVars == <<arguments, at, recent, summary, added>>

Content == [narrow : Nat, wide : Nat]

MemoryAssumption == /\ MaxTokens \in Nat \ {0} /\ Counts \subseteq Nat
                    /\ Contents \subseteq Content /\ Summaries \cup Written \subseteq Seq(Nat)

MemoryTypeOK ==
  /\ messages \in Seq(Content) /\ recent \in Seq(Content)
  /\ at \in {"start", "shrinking", "trimming", "summarising", "kept", "compressed", "failed"}
  /\ prev \in Seq(Nat) /\ summary \in Seq(Nat) /\ added \in Seq(Nat)

\* countTokens: four narrow characters to a token, or two wide ones.
Tokens(c) == (c.narrow + 3) \div 4 + (c.wide + 1) \div 2
Sum(s) == LET sum[n \in 0 .. Len(s)] == IF n = 0 THEN 0 ELSE sum[n - 1] + s[n] IN sum[Len(s)]
Estimate(s) == Sum([i \in DOMAIN s |-> Tokens(s[i])])

\* The paragraphs of a summary are two newlines apart.
Runes(s) == IF s = <<>> THEN 0 ELSE Sum(s) + 2 * (Len(s) - 1)

\* What the summary so far leaves of the budget, and a quarter at least.  A
\* paragraph is of wide characters, the newlines between two are narrow.
Budget == LET left == MaxTokens - Tokens([narrow |-> Runes(prev) - Sum(prev), wide |-> Sum(prev)])
          IN IF left < MaxTokens \div 4 THEN MaxTokens \div 4 ELSE left

Init == /\ \E n \in Counts : messages \in [1 .. n -> Contents]
        /\ prev \in Summaries
        /\ at = "start" /\ recent = messages /\ summary = prev /\ added = <<>>

Goto(place) == at' = place
-----------------------------------------------------------------------------
\* Within the budget, or a handful of messages: as it is.
Enough == /\ at = "start"
          /\ Estimate(messages) <= MaxTokens \/ Len(messages) <= 4
          /\ Goto("kept")
          /\ UNCHANGED <<arguments, recent, summary, added>>

KeepLast(n) == SubSeq(messages, (IF Len(messages) > n THEN Len(messages) - n ELSE 0) + 1, Len(messages))

Begin == /\ at = "start"
         /\ Estimate(messages) > MaxTokens /\ Len(messages) > 4
         /\ recent' = KeepLast(6) /\ Goto("shrinking")
         /\ UNCHANGED <<arguments, summary, added>>

Shrink == /\ at = "shrinking"
          /\ IF Len(recent) > 2 /\ Estimate(recent) > Budget
             THEN recent' = Tail(recent) /\ UNCHANGED at
             ELSE Goto("trimming") /\ UNCHANGED recent
          /\ UNCHANGED <<arguments, summary, added>>

Mark == 10                   \* wide characters that say something was cut

\* truncateToTokens: cut before the character that reaches the limit.
Truncate(c, limit) ==
  LET prefix(n) == [narrow |-> IF n < c.narrow THEN n ELSE c.narrow,
                    wide |-> IF n < c.narrow THEN 0 ELSE n - c.narrow]
      reach == {n \in 1 .. c.narrow + c.wide : Tokens(prefix(n)) >= limit}
  IN IF limit <= 0 THEN [narrow |-> 0, wide |-> 0]
     ELSE IF reach = {} THEN c
     ELSE LET cut == prefix((CHOOSE n \in reach : \A m \in reach : n <= m) - 1)
          IN [cut EXCEPT !.wide = @ + Mark]

Longest == CHOOSE i \in DOMAIN recent :
             \A j \in DOMAIN recent : /\ Tokens(recent[j]) <= Tokens(recent[i])
                                      /\ Tokens(recent[j]) = Tokens(recent[i]) => i <= j

\* Mutant: a token at a time.
CutByOne(c) == Truncate(c, Tokens(c) - 1)

Cut(c) == Truncate(c, Tokens(c) \div 2)

MayCut == Estimate(recent) > Budget /\ Tokens(recent[Longest]) > 1

\* trimLongMessages: halve the longest until the budget is kept.
Trim == /\ at = "trimming"
        /\ IF MayCut
           THEN recent' = [recent EXCEPT ![Longest] = Cut(@)] /\ UNCHANGED at
           ELSE Goto("summarising") /\ UNCHANGED recent
        /\ UNCHANGED <<arguments, summary, added>>

\* Mutant: the new summary replaces the old one.
MergeReplaces(next) == next

\* mergeSummary: paragraphs go from the oldest on, the last one never.
Merge(next) ==
  LET merged == prev \o next
      short == {n \in 1 .. Len(merged) : Runes(SubSeq(merged, n, Len(merged))) <= MaxTokens \div 2}
      from == IF short = {} THEN Len(merged) ELSE CHOOSE n \in short : \A m \in short : n <= m
  IN IF prev = <<>> THEN next ELSE IF next = <<>> THEN prev
     ELSE IF MaxTokens < 2 THEN merged
     ELSE SubSeq(merged, from, Len(merged))

Summarise(next) == /\ at = "summarising"
                   /\ added' = next /\ summary' = Merge(next) /\ Goto("compressed")
                   /\ UNCHANGED <<arguments, recent>>

\* The model fails or there is none: everything stays as it was.
SummaryFails == /\ at = "summarising"
                /\ recent' = messages /\ Goto("failed")
                /\ UNCHANGED <<arguments, summary, added>>
-----------------------------------------------------------------------------
Next == Enough \/ Begin \/ Shrink \/ Trim \/ SummaryFails \/ \E next \in Written : Summarise(next)
-----------------------------------------------------------------------------
(***************************************************************************)
(* What is kept after a compression fits into what the summary so far left *)
(* of the budget, the last question is among it, and no message of it is   *)
(* cut while a longer one is not.  The summary loses its oldest paragraphs *)
(* first, of the new one never the last, and fits if more than one is      *)
(* left.  Where compression fails, nothing is lost.  (compressor.go: the   *)
(* last six alone did not look at the budget)                              *)
(***************************************************************************)
MemorySound ==
  LET was(i) == messages[Len(messages) - Len(recent) + i] IN
  /\ at = "compressed" =>
       /\ Estimate(recent) <= Budget /\ Len(recent) \in 1 .. 6
       /\ \A i \in DOMAIN recent : recent[i] # was(i) =>
            /\ Len(recent) <= 2 /\ Tokens(recent[i]) < Tokens(was(i))
            /\ \A j \in DOMAIN recent : Tokens(was(j)) > Tokens(was(i)) => recent[j] # was(j)
       /\ IsSuffix(summary, prev \o added)
       /\ added # <<>> => summary # <<>> /\ Last(summary) = Last(added)
       /\ prev # <<>> /\ added # <<>> => Len(summary) = 1 \/ Runes(summary) <= MaxTokens \div 2
  /\ at \in {"kept", "failed"} => recent = messages /\ summary = prev

(***************************************************************************)
(* Trimming ends (compressor.go: no endless loop): every cut leaves fewer  *)
(* tokens.  It does only while the longest has more than twice what the    *)
(* mark adds to half of it, so a quarter of the budget must be 16 tokens.  *)
(***************************************************************************)
EveryCutShortens == at = "trimming" /\ MayCut => Tokens(Cut(recent[Longest])) < Tokens(recent[Longest])
=============================================================================
