--------------------------- MODULE MCInlineWorker ---------------------------
(* InlineWorker on small instances; no symmetry, the runs check liveness.  *)
EXTENDS InlineWorker
=============================================================================
