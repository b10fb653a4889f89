----------------------------- MODULE MCDecoder -----------------------------
(***************************************************************************)
(* The decoder with lags at the ends of their ranges.                      *)
(***************************************************************************)
EXTENDS Decoder

MCSearchOffsets == {-3, 3}
MCSeamOffsets == {-1, 1}
=============================================================================
