------------------------ MODULE MCInferenceScheduler ------------------------
EXTENDS InferenceScheduler, TLC
CallerSymmetry == Permutations(Callers)
=============================================================================
