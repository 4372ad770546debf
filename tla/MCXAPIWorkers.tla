--------------------------- MODULE MCXAPIWorkers ---------------------------
(* XAPIWorkers with two workers and three process numbers, so that the     *)
(* number of one that ended is used again while the others run.            *)
EXTENDS XAPIWorkers
=============================================================================
