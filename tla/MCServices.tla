------------------------------ MODULE MCServices ------------------------------
(* Small values for the services. *)
EXTENDS Services

CONSTANTS read, write, exec, ask   \* tools

\* Two servers; one of the tools of the second is not allowed.
TwoOffers == <<{read}, {write, exec}>>
OneAllowed == <<{}, {write}>>

\* The ids do not sort as the slice does; a weight may be wrong.
ShuffledIds == <<2, 3, 1>>
SomeWeights == {-1, 1, 3}

\* What a model gives ask_user, with names of its own, twice the same or too
\* little; and two tools that fail.
Option(label, other) == [label |-> label, other |-> other, id |-> 0]
Objects(options) == [question |-> TRUE, form |-> "objects", options |-> options]
SomeOptions == {Option(l, o) : l \in {"A", "a", ""}, o \in {"", "B"}}
GivenArgs == {Objects(s) : s \in UNION {[1 .. n -> SomeOptions] : n \in 0 .. 3}} \cup
  {[question |-> TRUE, form |-> "strings", options |-> <<Option("A", ""), Option("C", ""), Option("B", "")>>],
   [question |-> FALSE, form |-> "objects", options |-> <<Option("A", ""), Option("C", "")>>],
   [question |-> TRUE, form |-> "none", options |-> <<>>]}
TwoFailures == {<<read, "failed">>, <<write, "failed">>}

\* What does not move has one beginning.
MCInit == /\ Init
          /\ part # "mcp" => state = [s \in 1 .. Servers |-> "up"]
          /\ part # "trace" => store = "idle"
          /\ part # "balance" => strategy = "weighted" /\ weight = [i \in 1 .. Size |-> 1]

MCSpec == MCInit /\ [][Next]_vars /\ Fairness
=============================================================================
