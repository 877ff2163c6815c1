----------------------------- MODULE MCEmbedPool -----------------------------
(***************************************************************************)
(* Instances of EmbedPool for TLC: three chunks, so that two can run, one   *)
(* waits for a slot and one can be passed over after a cancellation; two    *)
(* workers; one retry, so that both the back-off and its exhaustion occur.  *)
(***************************************************************************)
EXTENDS EmbedPool

MCChunks  == 3
MCWorkers == 2
MCRetries == 1
==============================================================================
