----------------------------- MODULE LpcStream -----------------------------
(***************************************************************************)
(* Linear prediction over a stream of frames: the encoder's analysis       *)
(* buffer and windows, the quantised sets of line spectral frequencies,    *)
(* and the filter either side interpolates for each subframe from its own  *)
(* copy of the previous frame's set (src/lpcencode.go, src/lpcdecode.go).  *)
(* A set is named by the analysis it comes from and by the codebook        *)
(* entries it was read from.  Time is in units of 20 samples.              *)
(***************************************************************************)
EXTENDS FrameMode, Sequences

CONSTANT FrameLimit   \* frames encoded in a run

VARIABLES
  frame,         \* frames encoded
  since,         \* frames encoded since the encoder was reset
  lpcBuffer,     \* when each part of the analysis buffer was recorded
  windows,       \* what each analysis of the frame looked at
  lsfold, lsfdeqold,        \* the encoder's previous sets
  syntdenum, weightdenum,   \* its filters for the frame
  packet,        \* the LSF indices under way, or <<>>
  decoderOld,    \* the decoder's lsfdeqold
  decoderSynt,   \* its filters, or <<>> when the last frame was concealed
  decoderLast,   \* the last frame decoded since the decoder was reset, or 0
  inStep         \* the frame decoded last came right after the one before

encoder == <<frame, since, lpcBuffer, windows, lsfold, lsfdeqold, syntdenum,
             weightdenum, packet>>
decoder == <<decoderOld, decoderSynt, decoderLast, inStep>>
vars == <<mode, encoder, decoder>>

frameSize == IF mode = 30 THEN 12 ELSE 8

\* The codebook of each split: its entries, their length, where it starts.
sizeLsfCb == <<64, 128, 128>>
dimLsfCb  == <<3, 3, 4>>
cbPos     == <<0, 64 * 3, 64 * 3 + 128 * 3>>
Splits    == 1 .. 3

\* lsfmeanTbl, and a set before it is quantised.
Mean == [frame |-> 0, analysis |-> 0, entries |-> <<>>, checked |-> TRUE]
Analysed(k) == [frame |-> frame + 1, analysis |-> k, entries |-> <<>>, checked |-> FALSE]

\* splitVQ and vq: the index and the entry it copies, for each split.
Quantised(k, indices) ==
  [frame |-> frame + 1, analysis |-> k, checked |-> FALSE,
   entries |-> [s \in Splits |-> cbPos[s] + indices[3 * (k - 1) + s] * dimLsfCb[s]]]

\* Mutant: the second analysis reads the indices of the first.
DequantisedFirst(k, indices) ==
  [frame |-> frame, analysis |-> k, checked |-> FALSE,
   entries |-> [s \in Splits |-> cbPos[s] + indices[s] * dimLsfCb[s]]]
Dequantised(k, indices) ==
  [frame |-> frame, analysis |-> k, checked |-> FALSE,
   entries |-> [s \in Splits |-> cbPos[s] + indices[3 * (k - 1) + s] * dimLsfCb[s]]]

\* Both sides push the frequencies of a set apart before they use it.
checkLSF(set) == [set EXCEPT !.checked = TRUE]

\* A mixture of two sets, the weight of the first in twelfths.
interpolate(a, b, coef) ==
  IF a = b \/ coef = 12 THEN {<<a, 12>>}
  ELSE IF coef = 0 THEN {<<b, 12>>}
  ELSE {<<a, coef>>, <<b, 12 - coef>>}

lsfWeight30 == <<6, 12, 8, 4, 0, 0>>
lsfWeight20 == <<9, 6, 3, 0>>

\* The filters of a frame from the previous set and the frame's own.
InterpolateLSF(old, new) ==
  [i \in 1 .. subframes |->
     IF mode = 20 THEN interpolate(old, new[1], lsfWeight20[i])
     ELSE IF i = 1 THEN interpolate(old, new[1], lsfWeight30[1])
     ELSE interpolate(new[1], new[2], lsfWeight30[i])]

\* The set that is kept for the next frame.
Kept(new) == IF mode = 30 THEN new[2] ELSE new[1]

\* Zeros, at no time in particular.
Silence == [i \in 1 .. 15 |-> 0]

Init ==
  /\ mode \in {20, 30}
  /\ frame = 0 /\ packet = <<>>
  /\ lpcBuffer = Silence /\ since = 0 /\ windows = <<>>
  /\ lsfold = Mean /\ lsfdeqold = Mean /\ syntdenum = <<>> /\ weightdenum = <<>>
  /\ decoderOld = Mean /\ decoderSynt = <<>>
  /\ decoderLast = 0 /\ inStep = FALSE
-----------------------------------------------------------------------------
\* The new frame goes to the end of the buffer.
Recorded == SubSeq(lpcBuffer, 1, 15 - frameSize)
            \o [i \in 1 .. frameSize |-> since * frameSize + i]

\* The last analysis has the asymmetric window over the newest samples.
Window(buffer, k) == SubSeq(buffer, IF k < lpcAnalyses THEN 1 ELSE 4,
                                    IF k < lpcAnalyses THEN 12 ELSE 15)

\* Mutant: one part too old is kept.
RotatedShort(buffer) ==
  SubSeq(buffer, frameSize, 14) \o SubSeq(buffer, 16 - frameSize, 15)
\* What stays for the next frame; the rest is overwritten by it.
Rotated(buffer) ==
  LET is == 15 - frameSize
  IN  SubSeq(buffer, 15 - is + 1, 15) \o SubSeq(buffer, is + 1, 15)

Encode ==
  /\ frame < FrameLimit /\ packet = <<>>
  /\ \E last \in [1 .. 3 * lpcAnalyses -> {0, 1}] :
       LET indices == [x \in DOMAIN last |-> last[x] * (sizeLsfCb[((x - 1) % 3) + 1] - 1)]
           lsf     == [k \in 1 .. lpcAnalyses |-> Analysed(k)]
           lsfdeq  == [k \in 1 .. lpcAnalyses |-> checkLSF(Quantised(k, indices))]
       IN  /\ packet' = indices
           /\ syntdenum' = InterpolateLSF(lsfdeqold, lsfdeq)
           /\ weightdenum' = InterpolateLSF(lsfold, lsf)
           /\ lsfold' = Kept(lsf) /\ lsfdeqold' = Kept(lsfdeq)
  /\ windows' = [k \in 1 .. lpcAnalyses |-> Window(Recorded, k)]
  /\ lpcBuffer' = Rotated(Recorded)
  /\ frame' = frame + 1 /\ since' = since + 1
  /\ UNCHANGED <<mode, decoder>>

Decode ==
  LET lsfdeq == [k \in 1 .. lpcAnalyses |-> checkLSF(Dequantised(k, packet))]
  IN  /\ packet # <<>>
      /\ packet' = <<>>
      /\ decoderSynt' = InterpolateLSF(decoderOld, lsfdeq)
      /\ decoderOld' = Kept(lsfdeq)
      /\ decoderLast' = frame
      /\ inStep' = (decoderLast = IF since = 1 THEN 0 ELSE frame - 1)
      /\ UNCHANGED <<mode, frame, since, lpcBuffer, windows, lsfold, lsfdeqold,
                     syntdenum, weightdenum>>

\* The frame is missing or damaged: its indices are not used.
Conceal ==
  /\ packet # <<>>
  /\ packet' = <<>>
  /\ decoderSynt' = <<>>
  /\ UNCHANGED <<mode, frame, since, lpcBuffer, windows, lsfold, lsfdeqold,
                 syntdenum, weightdenum, decoderOld, decoderLast, inStep>>

Cleared == lsfold' = Mean /\ lsfdeqold' = Mean

ResetEncoder ==
  /\ packet = <<>>
  /\ lpcBuffer' = Silence /\ since' = 0 /\ Cleared
  /\ windows' = <<>> /\ syntdenum' = <<>> /\ weightdenum' = <<>>
  /\ decoderSynt' = <<>>
  /\ UNCHANGED <<mode, frame, packet, decoderOld, decoderLast, inStep>>

ResetDecoder ==
  /\ packet = <<>>
  /\ decoderOld' = Mean /\ decoderLast' = 0 /\ decoderSynt' = <<>>
  /\ UNCHANGED <<mode, encoder, inStep>>

Next == Encode \/ Decode \/ Conceal \/ ResetEncoder \/ ResetDecoder

Spec == Init /\ [][Next]_vars
-----------------------------------------------------------------------------
\* Each analysis looks at 240 samples in a row, the last one up to the newest
\* sample, whatever was moved in the buffer before (lpcencode.go,
\* simpleAnalysis: the windows and both copies of lpcBuffer).
WindowsContiguous ==
  \A k \in DOMAIN windows, i \in 1 .. 12 :
    LET newest == since * frameSize - (IF k = lpcAnalyses THEN 0 ELSE 3)
        time   == newest - (12 - i)
    IN  windows[k][i] = IF time > 0 THEN time ELSE 0

\* A filter without the quantisation.
Uncoded(filter) ==
  {<<[m[1] EXCEPT !.entries = <<>>, !.checked = (m[1] = Mean)], m[2]>> : m \in filter}

\* The three filters of a subframe stand for one spectrum.  The encoder weights
\* with the uncoded form of its synthesis filter, across every reset.  A
\* decoder that has the encoder's previous frame uses the encoder's filters;
\* one that has not, uses them again within the frame: at 30 ms from the
\* second subframe on, at 20 ms in the last (lpcencode.go,
\* simpleInterpolateLSF, and its copy decoderInterpolateLSF in lpcdecode.go).
FiltersAgree ==
  /\ \A i \in DOMAIN syntdenum : weightdenum[i] = Uncoded(syntdenum[i])
  /\ packet = <<>> => \A i \in DOMAIN decoderSynt :
       inStep \/ i = subframes \/ (mode = 30 /\ i > 1) => decoderSynt[i] = syntdenum[i]
=============================================================================
