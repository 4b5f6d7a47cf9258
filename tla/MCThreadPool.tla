---------------------------- MODULE MCThreadPool ----------------------------
(* Three workers; a batch smaller than the pool between two larger ones.   *)
EXTENDS ThreadPool

CONSTANTS w1, w2, w3

MCWorkers == {w1, w2, w3}
MCBatchSizes == <<4, 2, 3>>
=============================================================================
