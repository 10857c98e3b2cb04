----------------------------- MODULE MCChatTurn -----------------------------
(* Requests of one user to one session; they are interchangeable. *)
EXTENDS ChatTurn, TLC

Interchangeable == Permutations(Requests)
=============================================================================
