------------------------------ MODULE MCXTask ------------------------------
(* XTask with calls that wait and calls that do not.                       *)
EXTENDS XTask

MCIntervals == {"wait", "poll"}
=============================================================================
