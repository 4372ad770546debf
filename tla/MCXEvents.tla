----------------------------- MODULE MCXEvents -----------------------------
(* XEvents with small constants: two buckets, so that descriptors collide. *)
EXTENDS XEventsRefines, TLC

MCBucket(f) == f % NBuckets
MCReady == {{"RDHUP"}, {"OUT", "IN"}}
Symmetry == Permutations(Data)
=============================================================================
