----------------------------- MODULE MCBatchJobs -----------------------------
(* Two jobs of one model, sent in one batch or, with batches of one, in two. *)
EXTENDS BatchJobs

CONSTANTS j1, j2, model

OneModel == [j \in Job |-> model]
=============================================================================
