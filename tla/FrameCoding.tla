----------------------------- MODULE FrameCoding -----------------------------
(***************************************************************************)
(* One frame on its way from encodeFrame (src/ilbc_encode.go) to           *)
(* decodeFrame (src/ilbc_decode.go): the start state is quantised and      *)
(* rebuilt (StartState), the rest of the residual is coded around it       *)
(* (ResidualSchedule), the parameters become bytes and parameters again    *)
(* (FramePacking), and the decoder goes through the residual a second      *)
(* time.  The three share the frame length and the place of the state.     *)
(***************************************************************************)
EXTENDS FrameMode

VARIABLES
  start, stateFirst,
  n, filter, weighted, quantised, rebuilt,
  side, step, subframe, subcount, mem, decresidual, reverse, searched, built, encoded,
  stage, values, ulp, at, looping, index, bitno, bytes, byteAt, pos

State    == INSTANCE StartState
Residual == INSTANCE ResidualSchedule
Wire     == INSTANCE FramePacking

stateVars    == <<n, filter, weighted, quantised, rebuilt>>
residualVars == <<side, step, subframe, subcount, mem, decresidual, reverse,
                  searched, built, encoded>>
wireVars     == <<stage, values, ulp, at, looping, index, bitno, bytes, byteAt, pos>>
frameVars == <<mode, start, stateFirst, stateVars, residualVars, wireVars>>

FrameInit == State!Init /\ Residual!Init /\ Wire!Init

StateCoded == n > State!len

\* stateSearchW and stateConstructW, before any other vector is coded.
CodeState == State!Next /\ UNCHANGED <<residualVars, wireVars>>

\* The rest of encodeFrame up to the packing.
CodeResidual ==
  /\ side = "encode" /\ StateCoded
  /\ Residual!Next
  /\ UNCHANGED <<stateVars, wireVars>>

\* The packing ends encodeFrame, and the unpacking begins decodeFrame.
Transfer ==
  /\ side = "decode"
  /\ Wire!Next
  /\ UNCHANGED <<start, stateFirst, stateVars, residualVars>>

\* decode, with the parameters of the whole frame.
RebuildResidual ==
  /\ side = "decode" /\ stage = "done"
  /\ Residual!Next
  /\ UNCHANGED <<stateVars, wireVars>>

Done == side = "done" /\ UNCHANGED frameVars

FrameNext == CodeState \/ CodeResidual \/ Transfer \/ RebuildResidual \/ Done

FrameSpec == FrameInit /\ [][FrameNext]_frameVars
-----------------------------------------------------------------------------
\* Each sample of the start state is weighted and quantised under the filter
\* of its own subframe and rebuilt from its own code (absQuantW and
\* stateConstructW).
StateInPlace == State!StateInPlace

\* Decoder and encoder agree on the codebook memory of every vector (the
\* loops of encodeFrame and decode).
MemoriesAgree == Residual!MemoriesAgree

\* The whole residual is rebuilt, every sample from the vector that was
\* searched for it (encodeFrame and decode).
RebuiltInPlace == Residual!RebuiltInPlace

\* Every bit of every parameter survives packing and unpacking, within the
\* bytes of the frame (dopack and unpack, in the loops over the classes of encodeFrame and decodeFrame).
RoundTrip == Wire!RoundTrip
=============================================================================
