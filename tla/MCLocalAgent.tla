---------------------------- MODULE MCLocalAgent ----------------------------
(***************************************************************************)
(* One agent that dials twice, so that its second connection can push out  *)
(* a first one the server still believes in, and one call of each kind.    *)
(***************************************************************************)
EXTENDS LocalAgent
=============================================================================
