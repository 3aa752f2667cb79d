------------------------ MODULE MCProcessingScheduler ------------------------
(* Model-checking instance of ProcessingScheduler: batches larger than the   *)
(* limit on executing writes, so that backpressure strikes.                  *)
EXTENDS ProcessingScheduler
=============================================================================
