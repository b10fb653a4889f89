----------------------------- MODULE FrameMode -----------------------------
(***************************************************************************)
(* The two frame lengths of the codec, and the sizes that depend on them   *)
(* (src/ilbc_encode.go, initEncode; initDecode sets the same).             *)
(***************************************************************************)
EXTENDS Integers

VARIABLE mode   \* frame length in ms

subframes         == IF mode = 30 THEN 6 ELSE 4
shortStateSamples == IF mode = 30 THEN 58 ELSE 57
lpcAnalyses       == IF mode = 30 THEN 2 ELSE 1
adaptiveSubframes == IF mode = 30 THEN 4 ELSE 2
FrameBytes        == IF mode = 30 THEN 50 ELSE 38
=============================================================================
