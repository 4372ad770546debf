------------------------------- MODULE MCXAPI -------------------------------
(* XAPI with two sessions and four event objects.                         *)
EXTENDS XAPI, TLC

Symmetry == Permutations(Session) \cup Permutations(Object)
=============================================================================
