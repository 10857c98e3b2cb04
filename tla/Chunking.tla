------------------------------- MODULE Chunking -------------------------------
(***************************************************************************)
(* internal/rag/chunk.go: how a document is cut before it is indexed.  A   *)
(* text is a sequence of characters, each a separator or a letter ("x") in *)
(* its place; a line of Markdown is a heading of the first or of the       *)
(* second and third level, or text.                                        *)
(***************************************************************************)
EXTENDS Integers, Sequences, FiniteSets, SequencesExt, FiniteSetsExt

CONSTANTS MaxLen, Overlap    \* chunkSize, chunkOverlap

ChunkAssumption == MaxLen \in Nat \ {0} /\ Overlap \in Nat

\* The characters of s, with their places.
Text(s) == [i \in DOMAIN s |-> [kind |-> s[i], place |-> i]]

\* "\n\n", "\n", and the marks between and within sentences; after the last
\* of them the text is cut hard.
Separators == <<<<"n", "n">>, <<"n">>, <<".">>, <<",">>, <<" ">>>>

Occurs(sep, text) == {i \in 1 .. Len(text) - Len(sep) + 1 : \A j \in DOMAIN sep : text[i + j - 1].kind = sep[j]}

\* strings.Split
RECURSIVE Split(_, _)
Split(text, sep) ==
  IF Occurs(sep, text) = {} THEN <<text>>
  ELSE LET i == Min(Occurs(sep, text))
       IN <<SubSeq(text, 1, i - 1)>> \o Split(SubSeq(text, i + Len(sep), Len(text)), sep)

\* splitBySize: pieces of MaxLen, each beginning Overlap before the end of
\* the last, until one reaches the end.
SplitBySize(text) ==
  LET step == IF MaxLen > Overlap THEN MaxLen - Overlap ELSE MaxLen
      pieces == Min({n \in 1 .. Len(text) : (n - 1) * step + MaxLen >= Len(text)})
  IN [n \in 1 .. pieces |->
       SubSeq(text, (n - 1) * step + 1, Min({(n - 1) * step + MaxLen, Len(text)}))]

\* addOverlap: a chunk that is not full begins with the end of the last one.
AddOverlap(chunks) ==
  [i \in DOMAIN chunks |->
    IF i > 1 /\ Len(chunks[i]) < MaxLen /\ Len(chunks[i - 1]) > Overlap
    THEN SubSeq(chunks[i - 1], Len(chunks[i - 1]) - Overlap + 1, Len(chunks[i - 1])) \o chunks[i]
    ELSE chunks[i]]

\* recursiveSplit at the first separator the text has; every level adds its
\* overlap to what the levels below have made.
RECURSIVE RecursiveSplit(_)
RecursiveSplit(text) ==
  LET at == {k \in DOMAIN Separators : Occurs(Separators[k], text) # {}} IN
  IF text = <<>> THEN <<>>
  ELSE IF Len(text) <= MaxLen THEN <<text>>
  ELSE IF at = {} THEN SplitBySize(text)
  ELSE LET parts == Split(text, Separators[Min(at)])
       IN AddOverlap(FlattenSeq([i \in DOMAIN parts |-> RecursiveSplit(parts[i])]))

(***************************************************************************)
(* No letter of a document is missing from its chunks, whatever levels of  *)
(* separators cut it.  A chunk runs forward and on beyond the chunk before *)
(* it, but for what it repeats of that: every level adds its overlap, so a *)
(* text cut hard below a separator has it twice.  Still no chunk exceeds   *)
(* the size by the overlap or more.                                        *)
(***************************************************************************)
ChunksSound(s) ==
  LET text == Text(s)
      chunks == RecursiveSplit(text)
      told(c) == IF c = 1 THEN 0 ELSE Last(chunks[c - 1]).place
  IN /\ \A i \in DOMAIN text : text[i].kind = "x" => \E c \in DOMAIN chunks : text[i] \in ToSet(chunks[c])
     /\ \A c \in DOMAIN chunks :
          /\ chunks[c] # <<>> /\ Len(chunks[c]) < MaxLen + Max({Overlap, 1})
          /\ told(c) < Last(chunks[c]).place
          /\ \A i, j \in DOMAIN chunks[c] :
               i < j => chunks[c][i].place < chunks[c][j].place \/ chunks[c][j].place <= told(c)
-----------------------------------------------------------------------------
(* splitByHeaders; a title is the number of its line, 0 if there is none *)

Section(title, lines) == [title |-> title, lines |-> lines]

\* The section under way is saved if it has a line of text.
Saved(state) == IF state.lines = <<>> THEN state.sections
                ELSE Append(state.sections, Section(state.title, state.lines))

ReadLine(lines, state, i) ==
  CASE lines[i] = "h2" -> [sections |-> Saved(state), title |-> i, lines |-> <<>>]
    [] lines[i] = "h1" -> [state EXCEPT !.title = IF @ = 0 THEN i ELSE @]
    [] lines[i] = "text" -> [state EXCEPT !.lines = Append(@, i)]

SplitByHeaders(lines) ==
  LET read(state, i) == ReadLine(lines, state, i)
      end == FoldLeft(read, [sections |-> <<>>, title |-> 0, lines |-> <<>>], [i \in DOMAIN lines |-> i])
  IN IF Saved(end) = <<>> THEN <<Section(0, [i \in DOMAIN lines |-> i])>> ELSE Saved(end)

\* What it should be: the lines between two headings of the second level are
\* a section under the first of them; those before any, under the first
\* heading of the first level; one without text is no section.
Segments(lines) ==
  LET heads == {0} \cup {i \in DOMAIN lines : lines[i] = "h2"}
      title(h) == IF h > 0 THEN h
                  ELSE LET first == {i \in DOMAIN lines : lines[i] = "h1" /\ \A j \in heads \ {0} : i < j}
                       IN IF first = {} THEN 0 ELSE Min(first)
      text(h) == {i \in DOMAIN lines : lines[i] = "text" /\ h < i /\ \A j \in heads : h < j => i < j}
  IN {Section(title(h), SetToSortSeq(text(h), <)) : h \in {g \in heads : text(g) # {}}}

(***************************************************************************)
(* Every line of text is in one section and under the heading it stands    *)
(* under, in order, and the sections are in the order of the document;     *)
(* only where there is no text at all, its headings are the one section.   *)
(***************************************************************************)
SectionsSound(lines) ==
  LET sections == SplitByHeaders(lines) IN
  IF Segments(lines) = {} THEN sections = <<Section(0, [i \in DOMAIN lines |-> i])>>
  ELSE /\ ToSet(sections) = Segments(lines) /\ Len(sections) = Cardinality(Segments(lines))
       /\ \A i, j \in DOMAIN sections : i < j => Last(sections[i].lines) < Head(sections[j].lines)
=============================================================================
