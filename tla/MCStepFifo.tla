----------------------------- MODULE MCStepFifo -----------------------------
(* StepFifo on small rings, for TLC: three slots, so that batches of up to  *)
(* three ticks wrap at every offset and fill the ring exactly.              *)
EXTENDS StepFifo
=============================================================================
