-------------------------------- MODULE Places --------------------------------
(***************************************************************************)
(* Loops that go through a list and keep some of it: of options in         *)
(* internal/agent/loop/ask_user.go, of entries in internal/cache and of    *)
(* documents in internal/llm/rag_support.go.                               *)
(***************************************************************************)
EXTENDS Integers, FiniteSets

\* The places in D, one after the other.
InOrder(D) == [n \in 1 .. Cardinality(D) |-> CHOOSE i \in D : Cardinality({j \in D : j < i}) = n - 1]
=============================================================================
