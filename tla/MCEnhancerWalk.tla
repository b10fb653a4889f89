--------------------------- MODULE MCEnhancerWalk ---------------------------
(***************************************************************************)
(* The walk of the enhancer over histories in which the pitch changes once, *)
(* between the shortest, the longest and two other periods.                *)
(***************************************************************************)
EXTENDS EnhancerWalk

Pitches == {19, 38, 105, 119}

MCHistories ==
  {[i \in Periods |-> IF i <= k THEN a ELSE b] : a, b \in Pitches, k \in Periods}
=============================================================================
