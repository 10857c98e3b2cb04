------------------------- MODULE MCInferencePool -------------------------
(***************************************************************************)
(* A model-checking instance of the inference pool: one caller more than   *)
(* slots and places together, so that the queue fills up and the next call *)
(* is refused.  Callers are not declared symmetric, because the run checks *)
(* liveness too; more slots are the business of the proofs.                *)
(***************************************************************************)
EXTENDS InferencePool
=============================================================================
