-------------------------- MODULE AgreementProofs --------------------------
(***************************************************************************)
(* Proofs that encoder and decoder agree.  First linear prediction, over a *)
(* stream of any number of frames, whatever frames are lost and whichever  *)
(* side is reset in between; then the start state of a frame, and the      *)
(* residual that is coded around it.                                       *)
(***************************************************************************)
EXTENDS LpcStream, FrameCoding, SequenceTheorems, TLAPS

\* Counts, and sets of line spectral frequencies as records.
IsSet(s) == s = [frame |-> s.frame, analysis |-> s.analysis, entries |-> s.entries,
                 checked |-> s.checked]
TypeInv ==
  /\ mode \in {20, 30}
  /\ frame \in Nat /\ since \in 0 .. frame /\ decoderLast \in 0 .. frame
  /\ inStep \in BOOLEAN
  /\ IsSet(lsfdeqold) /\ lsfdeqold.frame \in 0 .. frame
  /\ (packet # <<>> => since > 0 /\ decoderLast < frame)

\* When something was recorded: before the first frame there is silence.
Recording(time) == IF time > 0 THEN time ELSE 0

\* What the analysis buffer keeps is the end of what was recorded.
BufferInv ==
  \A i \in 1 .. (15 - frameSize) :
    lpcBuffer[i] = Recording(since * frameSize - (15 - frameSize) + i)

\* The encoder's previous sets are two forms of one.
UncodedSet(s) == [s EXCEPT !.entries = <<>>, !.checked = (s = Mean)]
PreviousInv ==
  /\ lsfold = UncodedSet(lsfdeqold)
  /\ since = 0 => lsfdeqold = Mean

\* The sets the decoder would read from the indices under way.
Received == [k \in 1 .. lpcAnalyses |-> checkLSF(Dequantised(k, packet))]

\* The decoder has the encoder's set of the frame before.
Caught == decoderLast = IF since = 1 THEN 0 ELSE frame - 1
\* Subframes whose filter does not depend on the frame before.
OwnSubframe(i) == i = subframes \/ (mode = 30 /\ i > 1)

\* The decoder's previous set is the encoder's, when it has decoded the last
\* frame, and the encoder's mean before the first one.
DecoderInv ==
  /\ decoderLast = 0 => decoderOld = Mean
  /\ packet = <<>> /\ since > 0 /\ decoderLast = frame => decoderOld = lsfdeqold

\* Under way: what is sent decodes to the encoder's sets and, where it can,
\* to its filters.
PacketInv ==
  packet # <<>> =>
    /\ lsfdeqold = Kept(Received)
    /\ DOMAIN syntdenum = 1 .. subframes
    /\ \A i \in 1 .. subframes : Caught \/ OwnSubframe(i) =>
         InterpolateLSF(decoderOld, Received)[i] = syntdenum[i]

IInv ==
  /\ TypeInv /\ BufferInv /\ PreviousInv /\ DecoderInv /\ PacketInv
  /\ WindowsContiguous /\ FiltersAgree
-----------------------------------------------------------------------------
\* The sizes of either mode.
LEMMA ModeSizes ==
  ASSUME mode \in {20, 30}
  PROVE  \/ /\ mode = 20 /\ frameSize = 8 /\ subframes = 4 /\ lpcAnalyses = 1
         \/ /\ mode = 30 /\ frameSize = 12 /\ subframes = 6 /\ lpcAnalyses = 2
BY DEF frameSize, subframes, lpcAnalyses

(* The analysis buffer.                                                    *)

\* Joining the kept part with the new frame: the last 15 parts recorded.
LEMMA RecordedParts ==
  ASSUME mode \in {20, 30}, since \in Nat, BufferInv
  PROVE  \A i \in 1 .. 15 : Recorded[i] = Recording((since + 1) * frameSize - 15 + i)
<1> DEFINE kept == SubSeq(lpcBuffer, 1, 15 - frameSize)
           new  == [i \in 1 .. frameSize |-> since * frameSize + i]
<1>1. frameSize \in {8, 12} /\ since * frameSize \in Nat
      /\ (since + 1) * frameSize = since * frameSize + frameSize
  BY ModeSizes
<1>2. PICK f \in {8, 12}, t \in Nat : f = frameSize /\ t = since * frameSize
  BY <1>1
<1>3. \A i \in 1 .. (15 - f) : lpcBuffer[i] = Recording(t - (15 - f) + i)
  BY <1>2 DEF BufferInv
<1>4. \A i \in 1 .. (15 - f) : lpcBuffer[i] \in Nat
  BY <1>2, <1>3 DEF Recording
<1>5. /\ kept \in Seq(Nat) /\ Len(kept) = 15 - f
      /\ \A i \in 1 .. (15 - f) : kept[i] = lpcBuffer[i]
  <2>1. 1 \in Int /\ 15 - f \in Int /\ 1 <= 15 - f /\ (15 - f) - 1 + 1 = 15 - f
    BY <1>2
  <2>2. /\ SubSeq(lpcBuffer, 1, 15 - f) \in Seq(Nat)
        /\ Len(SubSeq(lpcBuffer, 1, 15 - f)) = IF 1 <= 15 - f THEN 15 - f - 1 + 1 ELSE 0
        /\ \A i \in 1 .. 15 - f - 1 + 1 : SubSeq(lpcBuffer, 1, 15 - f)[i] = lpcBuffer[1 + i - 1]
    BY <1>4, <2>1, SubSeqProperties
  <2>3. \A i \in 1 .. (15 - f) : 1 + i - 1 = i
    BY <1>2
  <2> QED BY <1>2, <2>1, <2>2, <2>3
<1>6. new \in Seq(Nat) /\ Len(new) = f /\ \A i \in 1 .. f : new[i] = t + i
  BY <1>2
<1>7. Recorded = kept \o new
  BY DEF Recorded
<1> HIDE DEF kept, new
<1>8. \A i \in 1 .. 15 : (kept \o new)[i] = IF i <= 15 - f THEN kept[i] ELSE new[i - (15 - f)]
  <2>1. \A i \in 1 .. Len(kept) + Len(new) :
          (kept \o new)[i] = IF i <= Len(kept) THEN kept[i] ELSE new[i - Len(kept)]
    BY <1>5, <1>6, ConcatProperties
  <2>2. Len(kept) = 15 - f /\ Len(kept) + Len(new) = 15
    BY <1>2, <1>5, <1>6
  <2> QED BY <2>1, <2>2, Zenon
<1>9. \A i \in 1 .. 15 : Recorded[i] = Recording(t + f - 15 + i)
  <2> SUFFICES ASSUME NEW i \in 1 .. 15 PROVE Recorded[i] = Recording(t + f - 15 + i)
    OBVIOUS
  <2>1. CASE i <= 15 - f
    <3>1. i \in 1 .. (15 - f) /\ t - (15 - f) + i = t + f - 15 + i
      BY <1>2, <2>1
    <3> QED BY <1>3, <1>5, <1>7, <1>8, <2>1, <3>1
  <2>2. CASE ~(i <= 15 - f)
    <3>1. i - (15 - f) \in 1 .. f
      BY <1>2, <2>2
    <3>2. Recorded[i] = t + (i - (15 - f))
      BY <1>6, <1>7, <1>8, <2>2, <3>1
    <3>3. t + f - 15 + i > 0 /\ t + f - 15 + i = t + (i - (15 - f))
      BY <1>2, <2>2, <3>1
    <3> QED BY <3>2, <3>3 DEF Recording
  <2> QED BY <2>1, <2>2
<1>10. \A i \in 1 .. 15 : (since + 1) * frameSize - 15 + i = t + f - 15 + i
  BY <1>1, <1>2
<1> QED BY <1>9, <1>10

\* After a frame the buffer keeps the end of what it held.
LEMMA RotatedParts ==
  ASSUME NEW b, \A i \in 1 .. 15 : b[i] \in Nat, mode \in {20, 30}
  PROVE  \A i \in 1 .. (15 - frameSize) : Rotated(b)[i] = b[frameSize + i]
<1>1. PICK f \in {8, 12} : f = frameSize
  BY ModeSizes
<1>2. 15 - (15 - f) + 1 = f + 1 /\ (15 - f) + 1 \in 1 .. 15 /\ f + 1 \in 1 .. 15
  BY <1>1
<1> DEFINE end == SubSeq(b, f + 1, 15)  rest == SubSeq(b, (15 - f) + 1, 15)
<1>3. Rotated(b) = end \o rest
  BY <1>1, <1>2 DEF Rotated
<1>4. /\ end \in Seq(Nat) /\ Len(end) = 15 - f
      /\ \A i \in 1 .. (15 - f) : end[i] = b[f + i]
  <2>1. \A i \in f + 1 .. 15 : b[i] \in Nat
    BY <1>1
  <2>2. /\ SubSeq(b, f + 1, 15) \in Seq(Nat)
        /\ Len(SubSeq(b, f + 1, 15)) = IF f + 1 <= 15 THEN 15 - (f + 1) + 1 ELSE 0
        /\ \A i \in 1 .. 15 - (f + 1) + 1 : SubSeq(b, f + 1, 15)[i] = b[(f + 1) + i - 1]
    <3>1. f + 1 \in Int /\ 15 \in Int
      BY <1>1
    <3> QED BY <2>1, <3>1, SubSeqProperties
  <2>3. 15 - (f + 1) + 1 = 15 - f /\ f + 1 <= 15
    BY <1>1
  <2>4. \A i \in 1 .. (15 - f) : (f + 1) + i - 1 = f + i
    BY <1>1
  <2> QED BY <2>2, <2>3, <2>4
<1>5. rest \in Seq(Nat)
  <2>1. (15 - f) + 1 \in Int /\ 15 \in Int /\ \A i \in ((15 - f) + 1) .. 15 : b[i] \in Nat
    BY <1>1
  <2> QED BY <2>1, SubSeqProperties
<1> HIDE DEF end, rest
<1>6. \A i \in 1 .. (15 - f) : (end \o rest)[i] = end[i]
  <2>1. Len(rest) \in Nat
    BY <1>5, LenProperties
  <2>2. \A i \in 1 .. Len(end) + Len(rest) :
          (end \o rest)[i] = IF i <= Len(end) THEN end[i] ELSE rest[i - Len(end)]
    BY <1>4, <1>5, ConcatProperties
  <2> QED BY <1>1, <1>4, <2>1, <2>2
<1> QED BY <1>1, <1>3, <1>4, <1>6

\* The windows cut the recording without a gap.
LEMMA WindowParts ==
  ASSUME NEW b, \A i \in 1 .. 15 : b[i] \in Nat, NEW k
  PROVE  \A i \in 1 .. 12 : Window(b, k)[i] = b[IF k < lpcAnalyses THEN i ELSE 3 + i]
<1>1. CASE k < lpcAnalyses
  <2>1. Window(b, k) = SubSeq(b, 1, 12)
    BY <1>1 DEF Window
  <2>2. \A i \in 1 .. 12 - 1 + 1 : SubSeq(b, 1, 12)[i] = b[1 + i - 1]
    BY SubSeqProperties
  <2>3. \A i \in 1 .. 12 : i \in 1 .. 12 - 1 + 1 /\ 1 + i - 1 = i
    OBVIOUS
  <2> QED BY <1>1, <2>1, <2>2, <2>3
<1>2. CASE ~(k < lpcAnalyses)
  <2>1. Window(b, k) = SubSeq(b, 4, 15)
    BY <1>2 DEF Window
  <2>2. \A i \in 1 .. 15 - 4 + 1 : SubSeq(b, 4, 15)[i] = b[4 + i - 1]
    BY SubSeqProperties
  <2>3. \A i \in 1 .. 12 : i \in 1 .. 15 - 4 + 1 /\ 4 + i - 1 = 3 + i
    OBVIOUS
  <2> QED BY <1>2, <2>1, <2>2, <2>3
<1> QED BY <1>1, <1>2
-----------------------------------------------------------------------------
(* The filters.                                                            *)

\* The weights of every subframe are twelfths.
LEMMA Weights ==
  /\ \A i \in 1 .. 6 : lsfWeight30[i] \in 0 .. 12
  /\ \A i \in 1 .. 4 : lsfWeight20[i] \in 0 .. 12
  /\ lsfWeight20[4] = 0
BY DEF lsfWeight30, lsfWeight20

\* What taking the quantisation away leaves of a set.
LEMMA UncodedFields ==
  ASSUME NEW s, IsSet(s)
  PROVE  /\ UncodedSet(s) = [frame |-> s.frame, analysis |-> s.analysis, entries |-> <<>>,
                             checked |-> (s = Mean)]
         /\ UncodedSet(s).frame = s.frame /\ UncodedSet(s).analysis = s.analysis
<1>1. PICK f, a, e, c : s = [frame |-> f, analysis |-> a, entries |-> e, checked |-> c]
  BY DEF IsSet
<1>2. PICK m : m = (s = Mean)
  OBVIOUS
<1>3. UncodedSet(s) = [[frame |-> f, analysis |-> a, entries |-> e, checked |-> c]
                         EXCEPT !.entries = <<>>, !.checked = m]
  BY <1>1, <1>2 DEF UncodedSet
<1>4. UncodedSet(s) = [frame |-> f, analysis |-> a, entries |-> <<>>, checked |-> m]
  BY <1>3
<1>5. s.frame = f /\ s.analysis = a
  BY <1>1
<1>6. UncodedSet(s).frame = f /\ UncodedSet(s).analysis = a
  BY <1>4
<1> QED BY <1>2, <1>4, <1>5, <1>6

\* The filters of one set and of two.
LEMMA UncodedMixture ==
  \A a, b, c, d, mix, raw :
    /\ mix = {<<a, c>>, <<b, d>>}
    /\ raw = {<<UncodedSet(a), c>>, <<UncodedSet(b), d>>}
    => Uncoded(mix) = raw
<1> TAKE a, b, c, d, mix, raw
<1> HAVE /\ mix = {<<a, c>>, <<b, d>>}
         /\ raw = {<<UncodedSet(a), c>>, <<UncodedSet(b), d>>}
<1>1. Uncoded(mix) = {<<UncodedSet(m[1]), m[2]>> : m \in mix}
  BY DEF Uncoded, UncodedSet
<1>2. \A m \in mix : m = <<a, c>> \/ m = <<b, d>>
  OBVIOUS
<1>3. PICK p, q : p = UncodedSet(a) /\ q = UncodedSet(b)
  OBVIOUS
<1>4. <<a, c>> \in mix /\ <<b, d>> \in mix
  OBVIOUS
<1>5. ASSUME NEW x \in Uncoded(mix) PROVE x \in raw
  <2>1. PICK m \in mix : x = <<UncodedSet(m[1]), m[2]>>
    BY <1>1, <1>5
  <2>2. CASE m = <<a, c>>
    <3>1. m[1] = a /\ m[2] = c
      BY <2>2
    <3> QED BY <2>1, <3>1
  <2>3. CASE m = <<b, d>>
    <3>1. m[1] = b /\ m[2] = d
      BY <2>3
    <3> QED BY <2>1, <3>1
  <2> QED BY <1>2, <2>2, <2>3
<1>6. <<p, c>> \in Uncoded(mix) /\ <<q, d>> \in Uncoded(mix)
  <2>1. PICK m, o : m = <<a, c>> /\ o = <<b, d>>
    OBVIOUS
  <2>2. m[1] = a /\ m[2] = c /\ o[1] = b /\ o[2] = d /\ m \in mix /\ o \in mix
    BY <1>4, <2>1
  <2>3. <<UncodedSet(m[1]), m[2]>> \in Uncoded(mix)
        /\ <<UncodedSet(o[1]), o[2]>> \in Uncoded(mix)
    BY <1>1, <2>2
  <2> QED BY <1>3, <2>2, <2>3
<1> QED BY <1>3, <1>5, <1>6

\* Two sets that differ in time mix before the quantisation as after it.
LEMMA MixUncoded ==
  ASSUME NEW a, NEW b, NEW c \in 0 .. 12, IsSet(a), IsSet(b),
         a.frame # b.frame \/ a.analysis # b.analysis
  PROVE  Uncoded(interpolate(a, b, c)) = interpolate(UncodedSet(a), UncodedSet(b), c)
<1>1. a # b /\ UncodedSet(a) # UncodedSet(b)
  BY UncodedFields
<1>2. PICK x, y : /\ x = interpolate(a, b, c)
                  /\ y = interpolate(UncodedSet(a), UncodedSet(b), c)
  OBVIOUS
<1>3. PICK d, e, f, g : d = 12 - c /\ e = 12 /\ f = UncodedSet(a) /\ g = UncodedSet(b)
  OBVIOUS
<1>4. CASE c = 12
  <2>1. x = {<<a, e>>} /\ y = {<<f, e>>}
    BY <1>2, <1>3, <1>4 DEF interpolate
  <2>2. x = {<<a, e>>, <<a, e>>} /\ y = {<<f, e>>, <<f, e>>}
    BY <2>1
  <2>3. Uncoded(x) = y
    BY <1>3, <2>2, UncodedMixture, Zenon
  <2> QED BY <1>2, <2>3
<1>5. CASE c = 0
  <2>1. x = {<<b, e>>} /\ y = {<<g, e>>}
    BY <1>1, <1>2, <1>3, <1>5 DEF interpolate
  <2>2. x = {<<b, e>>, <<b, e>>} /\ y = {<<g, e>>, <<g, e>>}
    BY <2>1
  <2>3. Uncoded(x) = y
    BY <1>3, <2>2, UncodedMixture, Zenon
  <2> QED BY <1>2, <2>3
<1>6. CASE c # 12 /\ c # 0
  <2>1. x = {<<a, c>>, <<b, d>>} /\ y = {<<f, c>>, <<g, d>>}
    BY <1>1, <1>2, <1>3, <1>6 DEF interpolate
  <2>2. Uncoded(x) = y
    BY <1>3, <2>1, UncodedMixture, Zenon
  <2> QED BY <1>2, <2>2
<1> QED BY <1>4, <1>5, <1>6

\* The same for all subframes of a frame.
LEMMA FiltersUncoded ==
  ASSUME mode \in {20, 30}, NEW old, NEW new, NEW raw,
         IsSet(old), \A k \in 1 .. lpcAnalyses : IsSet(new[k]) /\ raw[k] = UncodedSet(new[k]),
         \A k \in 1 .. lpcAnalyses : new[k].frame # old.frame,
         \A j, k \in 1 .. lpcAnalyses : j # k => new[j].analysis # new[k].analysis
  PROVE  \A i \in 1 .. subframes :
           InterpolateLSF(UncodedSet(old), raw)[i] = Uncoded(InterpolateLSF(old, new)[i])
<1> SUFFICES ASSUME NEW i \in 1 .. subframes
             PROVE  InterpolateLSF(UncodedSet(old), raw)[i]
                      = Uncoded(InterpolateLSF(old, new)[i])
  OBVIOUS
<1>1. CASE mode = 20
  <2>1. 1 \in 1 .. lpcAnalyses /\ i \in 1 .. 4
    BY <1>1, ModeSizes
  <2>2. /\ InterpolateLSF(old, new)[i] = interpolate(old, new[1], lsfWeight20[i])
        /\ InterpolateLSF(UncodedSet(old), raw)[i]
             = interpolate(UncodedSet(old), raw[1], lsfWeight20[i])
    BY <1>1 DEF InterpolateLSF
  <2> QED BY <2>1, <2>2, MixUncoded, Weights
<1>2. CASE mode = 30 /\ i = 1
  <2>1. 1 \in 1 .. lpcAnalyses
    BY <1>2, ModeSizes
  <2>2. /\ InterpolateLSF(old, new)[i] = interpolate(old, new[1], lsfWeight30[1])
        /\ InterpolateLSF(UncodedSet(old), raw)[i]
             = interpolate(UncodedSet(old), raw[1], lsfWeight30[1])
    BY <1>2 DEF InterpolateLSF
  <2> QED BY <2>1, <2>2, MixUncoded, Weights
<1>3. CASE mode = 30 /\ i # 1
  <2>1. 1 \in 1 .. lpcAnalyses /\ 2 \in 1 .. lpcAnalyses /\ i \in 1 .. 6
    BY <1>3, ModeSizes
  <2>2. /\ InterpolateLSF(old, new)[i] = interpolate(new[1], new[2], lsfWeight30[i])
        /\ InterpolateLSF(UncodedSet(old), raw)[i]
             = interpolate(raw[1], raw[2], lsfWeight30[i])
    BY <1>3 DEF InterpolateLSF
  <2>3. new[1].analysis # new[2].analysis
    BY <2>1
  <2> QED BY <2>1, <2>2, <2>3, MixUncoded, Weights
<1> QED BY <1>1, <1>2, <1>3

\* Some subframes do not look at the frame before.
LEMMA OwnFilter ==
  ASSUME mode \in {20, 30}, NEW a, NEW b, NEW new, NEW i \in 1 .. subframes, OwnSubframe(i)
  PROVE  InterpolateLSF(a, new)[i] = InterpolateLSF(b, new)[i]
<1>1. CASE mode = 30
  BY <1>1, ModeSizes DEF OwnSubframe, InterpolateLSF
<1>2. CASE mode = 20
  <2>1. i = 4
    BY <1>2, ModeSizes DEF OwnSubframe
  <2>2. \A old : InterpolateLSF(old, new)[i] = {<<new[1], 12>>}
    <3> SUFFICES ASSUME NEW old PROVE InterpolateLSF(old, new)[i] = {<<new[1], 12>>}
      OBVIOUS
    <3>1. InterpolateLSF(old, new)[i] = interpolate(old, new[1], 0)
      BY <1>2, <2>1, Weights DEF InterpolateLSF
    <3> QED BY <3>1 DEF interpolate
  <2> QED BY <2>2
<1> QED BY <1>1, <1>2

\* A quantised set, its uncoded form, and what is read from its indices.
LEMMA CodedSets ==
  ASSUME frame \in Nat, NEW k, NEW indices
  PROVE  /\ IsSet(checkLSF(Quantised(k, indices)))
         /\ checkLSF(Quantised(k, indices)).frame = frame + 1
         /\ checkLSF(Quantised(k, indices)).analysis = k
         /\ Analysed(k) = UncodedSet(checkLSF(Quantised(k, indices)))
<1>1. PICK e : e = [s \in Splits |-> cbPos[s] + indices[3 * (k - 1) + s] * dimLsfCb[s]]
  OBVIOUS
<1>2. checkLSF(Quantised(k, indices))
        = [frame |-> frame + 1, analysis |-> k, checked |-> TRUE, entries |-> e]
  <2>1. Quantised(k, indices)
          = [frame |-> frame + 1, analysis |-> k, checked |-> FALSE, entries |-> e]
    BY <1>1 DEF Quantised
  <2>2. [[frame |-> frame + 1, analysis |-> k, checked |-> FALSE, entries |-> e]
           EXCEPT !.checked = TRUE]
          = [frame |-> frame + 1, analysis |-> k, checked |-> TRUE, entries |-> e]
    <3>1. PICK g, no, yes : g = frame + 1 /\ no = FALSE /\ yes = TRUE
      OBVIOUS
    <3>2. [[frame |-> g, analysis |-> k, checked |-> no, entries |-> e]
             EXCEPT !.checked = yes]
            = [frame |-> g, analysis |-> k, checked |-> yes, entries |-> e]
      OBVIOUS
    <3> QED BY <3>1, <3>2, Zenon
  <2> QED BY <2>1, <2>2 DEF checkLSF
<1>3. checkLSF(Quantised(k, indices)).frame = frame + 1 /\ Mean.frame = 0
  BY <1>2 DEF Mean
<1>4. checkLSF(Quantised(k, indices)) # Mean
  BY <1>3
<1>5. IsSet(checkLSF(Quantised(k, indices)))
  BY <1>2 DEF IsSet
<1>6. Analysed(k) = UncodedSet(checkLSF(Quantised(k, indices)))
  <2>1. (checkLSF(Quantised(k, indices)) = Mean) = FALSE
    BY <1>4
  <2>2. UncodedSet(checkLSF(Quantised(k, indices)))
          = [frame |-> frame + 1, analysis |-> k, entries |-> <<>>, checked |-> FALSE]
    <3>1. /\ checkLSF(Quantised(k, indices)).frame = frame + 1
          /\ checkLSF(Quantised(k, indices)).analysis = k
      BY <1>2
    <3> QED BY <1>5, <2>1, <3>1, UncodedFields
  <2> QED BY <2>2 DEF Analysed
<1> QED BY <1>2, <1>3, <1>5, <1>6
-----------------------------------------------------------------------------
(* The invariant.                                                          *)

\* The mean set is its own uncoded form.
LEMMA MeanSet == IsSet(Mean) /\ Mean.frame = 0 /\ UncodedSet(Mean) = Mean
<1>1. IsSet(Mean) /\ Mean.frame = 0
  BY DEF IsSet, Mean
<1>2. UncodedSet(Mean) = [frame |-> Mean.frame, analysis |-> Mean.analysis,
                          entries |-> <<>>, checked |-> (Mean = Mean)]
  BY <1>1, UncodedFields
<1>3. (Mean = Mean) = TRUE
  OBVIOUS
<1> QED BY <1>1, <1>2, <1>3 DEF Mean

\* A new encoder and decoder.
LEMMA InitInvariant == Init => IInv
<1> HAVE Init
<1>1. /\ mode \in {20, 30} /\ frame = 0 /\ since = 0 /\ packet = <<>> /\ windows = <<>>
      /\ lsfold = Mean /\ lsfdeqold = Mean /\ syntdenum = <<>> /\ decoderSynt = <<>>
      /\ decoderOld = Mean /\ decoderLast = 0 /\ inStep = FALSE /\ lpcBuffer = Silence
  BY DEF Init
<1>2. IsSet(Mean) /\ Mean.frame = 0
  BY MeanSet
<1>3. TypeInv
  <2>1. IsSet(lsfdeqold) /\ lsfdeqold.frame = 0
    BY <1>1, <1>2, Zenon
  <2>2. inStep \in BOOLEAN
    BY <1>1, Zenon
  <2>3. lsfdeqold.frame \in 0 .. frame /\ since \in 0 .. frame /\ decoderLast \in 0 .. frame
        /\ frame \in Nat
    BY <1>1, <2>1
  <2>4. ~(packet # <<>>)
    BY <1>1
  <2> QED BY <1>1, <2>1, <2>2, <2>3, <2>4, Zenon DEF TypeInv
<1>4. BufferInv
  <2>1. PICK f \in {8, 12} : f = frameSize
    BY <1>1, ModeSizes
  <2>2. \A i \in 1 .. (15 - f) : ~(0 * f - (15 - f) + i > 0) /\ i \in 1 .. 15
    BY <2>1
  <2> QED BY <1>1, <2>1, <2>2 DEF BufferInv, Recording, Silence
<1>5. UncodedSet(Mean) = Mean
  BY MeanSet
<1>6. PreviousInv /\ DecoderInv /\ PacketInv
  BY <1>1, <1>5 DEF PreviousInv, DecoderInv, PacketInv
<1>7. WindowsContiguous
  BY <1>1 DEF WindowsContiguous
<1>8. FiltersAgree
  BY <1>1 DEF FiltersAgree
<1> QED BY <1>3, <1>4, <1>6, <1>7, <1>8 DEF IInv

\* A new frame: what is analysed, and what stays for the next one.
LEMMA EncodeBuffer ==
  ASSUME IInv, Encode
  PROVE  BufferInv' /\ WindowsContiguous'
<1>1. mode \in {20, 30} /\ mode' = mode /\ since \in Nat /\ since' = since + 1 /\ BufferInv
  BY DEF IInv, TypeInv, Encode
<1>2. frameSize' = frameSize /\ lpcAnalyses' = lpcAnalyses
  BY <1>1 DEF frameSize, lpcAnalyses
<1>3. PICK f, t, r, b, w :
        /\ f \in {8, 12} /\ t \in Nat /\ f = frameSize /\ t = (since + 1) * frameSize
        /\ r = Recorded /\ b = lpcBuffer' /\ w = windows'
  <2>1. frameSize \in {8, 12}
    BY <1>1, ModeSizes
  <2>2. (since + 1) * frameSize \in Nat
    BY <1>1, <2>1
  <2> QED BY <2>1, <2>2
<1>4. \A i \in 1 .. 15 : r[i] = Recording(t - 15 + i) /\ r[i] \in Nat
  BY <1>1, <1>3, RecordedParts DEF Recording
<1>5. BufferInv'
  <2>1. b = Rotated(r)
    BY <1>3 DEF Encode
  <2>2. \A i \in 1 .. (15 - f) : b[i] = r[f + i]
    BY <1>1, <1>3, <1>4, <2>1, RotatedParts
  <2>3. \A i \in 1 .. (15 - f) : f + i \in 1 .. 15 /\ t - 15 + (f + i) = t - (15 - f) + i
    BY <1>3
  <2>4. \A i \in 1 .. (15 - f) : b[i] = Recording(t - (15 - f) + i)
    BY <1>4, <2>2, <2>3
  <2> QED BY <1>1, <1>2, <1>3, <2>4 DEF BufferInv
<1>6. WindowsContiguous'
  <2>1. w = [k \in 1 .. lpcAnalyses |-> Window(r, k)]
    BY <1>3 DEF Encode
  <2>2. ASSUME NEW k \in DOMAIN w, NEW i \in 1 .. 12
        PROVE  w[k][i] = Recording(t - (IF k = lpcAnalyses THEN 0 ELSE 3) - (12 - i))
    <3>1. k \in 1 .. lpcAnalyses /\ lpcAnalyses \in {1, 2} /\ w[k] = Window(r, k)
      BY <1>1, <2>1, <2>2, ModeSizes
    <3>2. w[k][i] = r[IF k < lpcAnalyses THEN i ELSE 3 + i]
      BY <1>4, <3>1, WindowParts
    <3>3. CASE k < lpcAnalyses
      <4>1. k # lpcAnalyses /\ t - 15 + i = t - 3 - (12 - i)
        BY <1>3, <3>1, <3>3
      <4> QED BY <1>4, <3>2, <3>3, <4>1
    <3>4. CASE ~(k < lpcAnalyses)
      <4>1. k = lpcAnalyses /\ 3 + i \in 1 .. 15 /\ t - 15 + (3 + i) = t - 0 - (12 - i)
        BY <1>3, <3>1, <3>4
      <4> QED BY <1>4, <3>2, <3>4, <4>1
    <3> QED BY <3>3, <3>4
  <2> QED BY <1>1, <1>2, <1>3, <2>2 DEF WindowsContiguous, Recording
<1> QED BY <1>5, <1>6

\* A new frame: its filters and their uncoded forms, and the sets kept.
LEMMA EncodeFilters ==
  ASSUME IInv, Encode
  PROVE  /\ PreviousInv' /\ IsSet(lsfdeqold)' /\ lsfdeqold'.frame = frame + 1
         /\ syntdenum' = InterpolateLSF(lsfdeqold, Received')
         /\ lsfdeqold' = Kept(Received')
         /\ packet' # <<>>
         /\ \A i \in DOMAIN syntdenum' : weightdenum'[i] = Uncoded(syntdenum'[i])
<1>1. /\ mode \in {20, 30} /\ mode' = mode /\ frame \in Nat /\ frame' = frame + 1
      /\ since \in Nat /\ since' = since + 1
      /\ IsSet(lsfdeqold) /\ lsfdeqold.frame \in 0 .. frame
      /\ lsfold = UncodedSet(lsfdeqold)
  BY DEF IInv, TypeInv, PreviousInv, Encode
<1>2. lpcAnalyses \in {1, 2} /\ lpcAnalyses' = lpcAnalyses /\ subframes \in {4, 6}
  BY <1>1, ModeSizes DEF lpcAnalyses
<1>3. PICK last \in [1 .. 3 * lpcAnalyses -> {0, 1}] :
        LET indices == [x \in DOMAIN last |-> last[x] * (sizeLsfCb[((x - 1) % 3) + 1] - 1)]
            lsf     == [k \in 1 .. lpcAnalyses |-> Analysed(k)]
            lsfdeq  == [k \in 1 .. lpcAnalyses |-> checkLSF(Quantised(k, indices))]
        IN  /\ packet' = indices
            /\ syntdenum' = InterpolateLSF(lsfdeqold, lsfdeq)
            /\ weightdenum' = InterpolateLSF(lsfold, lsf)
            /\ lsfold' = Kept(lsf) /\ lsfdeqold' = Kept(lsfdeq)
  BY DEF Encode
<1>4. PICK indices, raw, coded :
        /\ indices = [x \in DOMAIN last |-> last[x] * (sizeLsfCb[((x - 1) % 3) + 1] - 1)]
        /\ raw = [k \in 1 .. lpcAnalyses |-> Analysed(k)]
        /\ coded = [k \in 1 .. lpcAnalyses |-> checkLSF(Quantised(k, indices))]
  OBVIOUS
<1>5. /\ packet' = indices
      /\ syntdenum' = InterpolateLSF(lsfdeqold, coded)
      /\ weightdenum' = InterpolateLSF(lsfold, raw)
      /\ lsfold' = Kept(raw) /\ lsfdeqold' = Kept(coded)
  BY <1>3, <1>4
<1>6. \A k \in 1 .. lpcAnalyses :
        /\ IsSet(coded[k]) /\ coded[k].frame = frame + 1 /\ coded[k].analysis = k
        /\ raw[k] = UncodedSet(coded[k])
  BY <1>1, <1>4, CodedSets
<1>7. Received' = coded
  <2>1. \A k : (Dequantised(k, packet))' = Quantised(k, indices)
    BY <1>1, <1>5 DEF Dequantised, Quantised
  <2>2. Received' = [k \in 1 .. lpcAnalyses' |-> checkLSF((Dequantised(k, packet))')]
    BY DEF Received
  <2> QED BY <1>2, <1>4, <2>1, <2>2
<1>8. packet' # <<>>
  <2>1. 1 \in DOMAIN last
    BY <1>2
  <2>2. DOMAIN indices = DOMAIN last
    BY <1>4
  <2>3. DOMAIN <<>> = {}
    OBVIOUS
  <2> QED BY <1>5, <2>1, <2>2, <2>3
<1>9. PICK last1 \in 1 .. lpcAnalyses : Kept(raw) = raw[last1] /\ Kept(coded) = coded[last1]
  BY <1>1, ModeSizes DEF Kept
<1>10. PreviousInv' /\ IsSet(lsfdeqold)' /\ lsfdeqold'.frame = frame + 1
  <2>1. lsfold' = UncodedSet(lsfdeqold')
    BY <1>5, <1>6, <1>9
  <2>2. since' # 0
    BY <1>1
  <2>3. lsfdeqold' = coded[last1]
    BY <1>5, <1>9
  <2> QED BY <1>6, <2>1, <2>2, <2>3 DEF PreviousInv, IsSet
<1>11. \A i \in DOMAIN syntdenum' : weightdenum'[i] = Uncoded(syntdenum'[i])
  <2>1. DOMAIN syntdenum' = 1 .. subframes
    BY <1>5 DEF InterpolateLSF
  <2>2. \A k \in 1 .. lpcAnalyses : coded[k].frame # lsfdeqold.frame
    BY <1>1, <1>6
  <2>3. \A j, k \in 1 .. lpcAnalyses : j # k => coded[j].analysis # coded[k].analysis
    BY <1>6
  <2>4. \A i \in 1 .. subframes :
          InterpolateLSF(UncodedSet(lsfdeqold), raw)[i] = Uncoded(InterpolateLSF(lsfdeqold, coded)[i])
    BY <1>1, <1>6, <2>2, <2>3, FiltersUncoded
  <2> QED BY <1>1, <1>5, <2>1, <2>4
<1> QED BY <1>1, <1>5, <1>7, <1>8, <1>10, <1>11

\* A new frame: it decodes to the encoder's filters where it can.
LEMMA EncodeStep == ASSUME IInv, Encode PROVE IInv'
<1>1. /\ mode \in {20, 30} /\ mode' = mode /\ frame \in Nat /\ frame' = frame + 1
      /\ since \in 0 .. frame /\ since' = since + 1 /\ packet = <<>>
      /\ decoderLast \in 0 .. frame /\ decoderLast' = decoderLast
      /\ decoderOld' = decoderOld /\ inStep' = inStep /\ inStep \in BOOLEAN
  BY DEF IInv, TypeInv, Encode, decoder
<1>2. /\ PreviousInv' /\ IsSet(lsfdeqold)' /\ lsfdeqold'.frame = frame + 1
      /\ syntdenum' = InterpolateLSF(lsfdeqold, Received')
      /\ lsfdeqold' = Kept(Received')
      /\ packet' # <<>>
      /\ \A i \in DOMAIN syntdenum' : weightdenum'[i] = Uncoded(syntdenum'[i])
  BY EncodeFilters
<1>3. TypeInv'
  <2>1. lsfdeqold'.frame \in 0 .. frame' /\ since' \in 0 .. frame' /\ decoderLast' \in 0 .. frame'
        /\ frame' \in Nat /\ since' > 0 /\ decoderLast' < frame'
    BY <1>1, <1>2
  <2> QED BY <1>1, <1>2, <2>1 DEF TypeInv, IsSet
<1>4. DecoderInv'
  BY <1>1, <1>2 DEF IInv, DecoderInv
<1>5. PacketInv'
  <2>1. subframes' = subframes /\ DOMAIN syntdenum' = 1 .. subframes
    BY <1>1, <1>2 DEF InterpolateLSF, subframes
  <2>2. PICK got : got = Received'
    OBVIOUS
  <2>3. (Kept(Received))' = Kept(got) /\ (InterpolateLSF(decoderOld, Received))' = InterpolateLSF(decoderOld, got)
    BY <1>1, <2>2 DEF Kept, InterpolateLSF, subframes
  <2>4. ASSUME NEW i \in 1 .. subframes, Caught' \/ (OwnSubframe(i))'
        PROVE  InterpolateLSF(decoderOld, got)[i] = syntdenum'[i]
    <3>1. CASE Caught'
      <4>1. decoderLast = IF since = 0 THEN 0 ELSE frame
        BY <1>1, <3>1 DEF Caught
      <4>2. decoderOld = lsfdeqold
        BY <1>1, <4>1 DEF IInv, DecoderInv, PreviousInv
      <4> QED BY <1>2, <2>2, <4>2
    <3>2. CASE (OwnSubframe(i))'
      <4>1. OwnSubframe(i)
        BY <1>1, <2>1, <3>2 DEF OwnSubframe
      <4> QED BY <1>1, <1>2, <2>2, <4>1, OwnFilter
    <3> QED BY <2>4, <3>1, <3>2
  <2> QED BY <1>2, <2>1, <2>2, <2>3, <2>4 DEF PacketInv
<1>6. FiltersAgree'
  BY <1>2 DEF FiltersAgree
<1> QED BY <1>2, <1>3, <1>4, <1>5, <1>6, EncodeBuffer DEF IInv

\* The parts of the invariant that only the encoder's analysis touches.
LEMMA AnalysisUnchanged ==
  ASSUME BufferInv, WindowsContiguous, UNCHANGED <<mode, since, lpcBuffer, windows>>
  PROVE  BufferInv' /\ WindowsContiguous'
BY DEF BufferInv, WindowsContiguous, frameSize, lpcAnalyses

\* The decoder catches up with the encoder.
LEMMA DecodeStep == ASSUME IInv, Decode PROVE IInv'
<1>1. /\ mode \in {20, 30} /\ frame \in Nat /\ since > 0 /\ since \in 0 .. frame
      /\ packet # <<>> /\ packet' = <<>>
      /\ UNCHANGED <<mode, frame, since, lpcBuffer, windows, lsfold, lsfdeqold,
                     syntdenum, weightdenum>>
      /\ decoderLast' = frame /\ inStep' = Caught
  BY DEF IInv, TypeInv, Decode, Caught
<1>2. decoderSynt' = InterpolateLSF(decoderOld, Received) /\ decoderOld' = Kept(Received)
  BY DEF Decode, Received
<1>3. /\ lsfdeqold = Kept(Received) /\ DOMAIN syntdenum = 1 .. subframes
      /\ \A i \in 1 .. subframes : Caught \/ OwnSubframe(i) =>
           InterpolateLSF(decoderOld, Received)[i] = syntdenum[i]
  BY <1>1 DEF IInv, PacketInv
<1>4. TypeInv'
  <2>1. inStep' \in BOOLEAN
    BY <1>1 DEF Caught
  <2>2. IsSet(lsfdeqold') /\ lsfdeqold'.frame \in 0 .. frame' /\ decoderLast' \in 0 .. frame'
    BY <1>1 DEF IInv, TypeInv
  <2> QED BY <1>1, <2>1, <2>2 DEF TypeInv
<1>5. BufferInv' /\ WindowsContiguous'
  BY <1>1, AnalysisUnchanged DEF IInv
<1>6. PreviousInv'
  BY <1>1 DEF IInv, PreviousInv
<1>7. DecoderInv'
  <2>1. decoderLast' # 0 /\ decoderOld' = lsfdeqold'
    BY <1>1, <1>2, <1>3
  <2> QED BY <2>1 DEF DecoderInv
<1>8. PacketInv'
  BY <1>1 DEF PacketInv
<1>9. FiltersAgree'
  <2>1. subframes' = subframes
    BY <1>1 DEF subframes
  <2>2. DOMAIN decoderSynt' = 1 .. subframes
    BY <1>2 DEF InterpolateLSF
  <2>3. \A i \in DOMAIN syntdenum : weightdenum[i] = Uncoded(syntdenum[i])
    BY DEF IInv, FiltersAgree
  <2> QED BY <1>1, <1>2, <1>3, <2>1, <2>2, <2>3 DEF FiltersAgree, OwnSubframe
<1> QED BY <1>4, <1>5, <1>6, <1>7, <1>8, <1>9 DEF IInv

\* A frame is not decoded: the decoder falls behind.
LEMMA ConcealStep == ASSUME IInv, Conceal PROVE IInv'
<1>1. /\ frame \in Nat /\ decoderLast \in 0 .. frame /\ decoderLast < frame
      /\ packet' = <<>> /\ decoderSynt' = <<>>
      /\ UNCHANGED <<mode, frame, since, lpcBuffer, windows, lsfold, lsfdeqold,
                     syntdenum, weightdenum, decoderOld, decoderLast, inStep>>
  BY DEF IInv, TypeInv, Conceal
<1>2. TypeInv'
  BY <1>1 DEF IInv, TypeInv, IsSet
<1>3. BufferInv' /\ WindowsContiguous'
  BY <1>1, AnalysisUnchanged DEF IInv
<1>4. PreviousInv' /\ PacketInv'
  BY <1>1 DEF IInv, PreviousInv, PacketInv
<1>5. DecoderInv'
  BY <1>1 DEF IInv, DecoderInv
<1>6. FiltersAgree'
  <2>1. \A i \in DOMAIN syntdenum : weightdenum[i] = Uncoded(syntdenum[i])
    BY DEF IInv, FiltersAgree
  <2>2. DOMAIN decoderSynt' = {}
    BY <1>1
  <2> QED BY <1>1, <2>1, <2>2 DEF FiltersAgree
<1> QED BY <1>2, <1>3, <1>4, <1>5, <1>6 DEF IInv

\* The encoder starts over: the sets are the mean ones, the buffer is silent.
LEMMA ResetEncoderStep == ASSUME IInv, ResetEncoder PROVE IInv'
<1>1. /\ mode \in {20, 30} /\ frame \in Nat /\ packet = <<>> /\ packet' = <<>>
      /\ decoderLast \in 0 .. frame /\ inStep \in BOOLEAN
      /\ (decoderLast = 0 => decoderOld = Mean)
      /\ lpcBuffer' = Silence /\ since' = 0 /\ lsfold' = Mean /\ lsfdeqold' = Mean
      /\ windows' = <<>> /\ syntdenum' = <<>> /\ weightdenum' = <<>> /\ decoderSynt' = <<>>
      /\ UNCHANGED <<mode, frame, packet, decoderOld, decoderLast, inStep>>
  BY DEF IInv, TypeInv, DecoderInv, ResetEncoder, Cleared
<1>2. IsSet(Mean) /\ Mean.frame = 0 /\ UncodedSet(Mean) = Mean
  BY MeanSet
<1>3. TypeInv'
  BY <1>1, <1>2 DEF TypeInv, IsSet
<1>4. BufferInv'
  <2>1. frameSize' = frameSize
    BY <1>1 DEF frameSize
  <2>2. PICK f \in {8, 12} : f = frameSize
    BY <1>1, ModeSizes
  <2>3. \A i \in 1 .. (15 - f) : ~(0 * f - (15 - f) + i > 0) /\ i \in 1 .. 15
    BY <2>2
  <2> QED BY <1>1, <2>1, <2>2, <2>3 DEF BufferInv, Recording, Silence
<1>5. PreviousInv' /\ DecoderInv' /\ PacketInv'
  BY <1>1, <1>2 DEF PreviousInv, DecoderInv, PacketInv
<1>6. WindowsContiguous' /\ FiltersAgree'
  <2>1. DOMAIN windows' = {} /\ DOMAIN syntdenum' = {} /\ DOMAIN decoderSynt' = {}
    BY <1>1
  <2> QED BY <2>1 DEF WindowsContiguous, FiltersAgree
<1> QED BY <1>3, <1>4, <1>5, <1>6 DEF IInv

LEMMA ResetDecoderStep == ASSUME IInv, ResetDecoder PROVE IInv'
<1>1. /\ frame \in Nat /\ since \in 0 .. frame
      /\ packet = <<>> /\ packet' = <<>> /\ decoderOld' = Mean /\ decoderLast' = 0
      /\ decoderSynt' = <<>>
      /\ UNCHANGED <<mode, frame, since, lpcBuffer, windows, lsfold, lsfdeqold,
                     syntdenum, weightdenum, inStep>>
  BY DEF IInv, TypeInv, ResetDecoder, encoder
<1>2. TypeInv'
  BY <1>1 DEF IInv, TypeInv, IsSet
<1>3. BufferInv' /\ WindowsContiguous'
  BY <1>1, AnalysisUnchanged DEF IInv
<1>4. PreviousInv' /\ PacketInv'
  BY <1>1 DEF IInv, PreviousInv, PacketInv
<1>5. DecoderInv'
  BY <1>1 DEF DecoderInv
<1>6. FiltersAgree'
  <2>1. \A i \in DOMAIN syntdenum : weightdenum[i] = Uncoded(syntdenum[i])
    BY DEF IInv, FiltersAgree
  <2>2. DOMAIN decoderSynt' = {}
    BY <1>1
  <2> QED BY <1>1, <2>1, <2>2 DEF FiltersAgree
<1> QED BY <1>2, <1>3, <1>4, <1>5, <1>6 DEF IInv

LEMMA StepInvariant == IInv /\ [Next]_vars => IInv'
<1> SUFFICES ASSUME IInv, [Next]_vars PROVE IInv'
  OBVIOUS
<1>1. CASE UNCHANGED vars
  <2>1. BufferInv' /\ WindowsContiguous'
    BY <1>1, AnalysisUnchanged DEF IInv, vars, encoder
  <2>2. TypeInv' /\ PreviousInv' /\ DecoderInv'
    BY <1>1 DEF IInv, vars, encoder, decoder, TypeInv, IsSet, PreviousInv, DecoderInv
  <2>3. PacketInv'
    <3>1. UNCHANGED <<mode, frame, since, packet, lsfdeqold, syntdenum, decoderOld, decoderLast>>
      BY <1>1 DEF vars, encoder, decoder
    <3>2. PacketInv
      BY DEF IInv
    <3>3. Received' = Received
      BY <3>1 DEF Received, Dequantised, lpcAnalyses
    <3>4. subframes' = subframes /\ Kept(Received)' = Kept(Received)
      BY <3>1, <3>3 DEF subframes, Kept
    <3>5. InterpolateLSF(decoderOld, Received)' = InterpolateLSF(decoderOld, Received)
      BY <3>1, <3>3, <3>4 DEF InterpolateLSF
    <3> QED BY <3>1, <3>2, <3>3, <3>4, <3>5, Zenon DEF PacketInv, Caught, OwnSubframe
  <2>4. FiltersAgree'
    BY <1>1 DEF IInv, vars, encoder, decoder, FiltersAgree, subframes
  <2> QED BY <2>1, <2>2, <2>3, <2>4 DEF IInv
<1> QED BY <1>1, EncodeStep, DecodeStep, ConcealStep, ResetEncoderStep, ResetDecoderStep DEF Next

\* The invariant holds in every reachable state.
THEOREM InvariantHolds == Spec => []IInv
BY InitInvariant, StepInvariant, PTL DEF Spec

\* Whatever number of frames was moved through the analysis buffer, each
\* analysis looks at 240 samples in a row (lpcencode.go, simpleAnalysis).
THEOREM WindowsHold == Spec => []WindowsContiguous
<1>1. IInv => WindowsContiguous
  BY DEF IInv
<1> QED
  BY <1>1, InvariantHolds, PTL

\* Encoder and decoder filter alike where the decoder can know the filter,
\* after any history of losses and resets (simpleInterpolateLSF in
\* lpcencode.go, decoderInterpolateLSF in lpcdecode.go).
THEOREM FiltersHold == Spec => []FiltersAgree
<1>1. IInv => FiltersAgree
  BY DEF IInv
<1> QED
  BY <1>1, InvariantHolds, PTL
-----------------------------------------------------------------------------
(* The start state: filters change at the border of the two subframes.     *)

\* The first sample of the state in its second subframe.
Border == IF stateFirst = 1 THEN 40 ELSE shortStateSamples - 40

\* The subframe a sample of the state lies in.
Own(k) == IF k < Border THEN start - 1 ELSE start

\* The place of the start state in the frame.
StatePlaced ==
  /\ mode \in {20, 30}
  /\ start \in 1 .. (subframes - 1)
  /\ stateFirst \in {0, 1}

\* Samples before n are done; the second filter is in use once the border
\* was passed, and the targets were weighted up to the border or to the end.
StateInv ==
  /\ StatePlaced
  /\ n \in -1 .. (shortStateSamples + 1)
  /\ filter = IF n <= Border THEN start - 1 ELSE start
  /\ weighted = [k \in 0 .. (shortStateSamples - 1) |->
                   IF n = -1 \/ (k >= Border /\ n <= Border) THEN <<>> ELSE <<Own(k)>>]
  /\ quantised \in Seq(Int)
  /\ Len(quantised) = IF n = -1 THEN 0
                      ELSE IF n > shortStateSamples THEN shortStateSamples ELSE n
  /\ \A k \in 0 .. (Len(quantised) - 1) : quantised[k + 1] = Own(k)
  /\ n = shortStateSamples + 1 => rebuilt = [k \in 0 .. (shortStateSamples - 1) |-> k]

\* The sizes of the start state.
LEMMA StateSizes ==
  ASSUME StatePlaced
  PROVE  /\ shortStateSamples \in {57, 58} /\ Border \in {17, 18, 40}
         /\ start \in Int /\ start >= 1
         /\ State!len = shortStateSamples
         /\ State!Samples = 0 .. (shortStateSamples - 1)
         /\ State!shortStateSamples = shortStateSamples
         /\ State!Switch <=> n = Border
<1>1. mode \in {20, 30} /\ stateFirst \in {0, 1} /\ start \in 1 .. (subframes - 1)
  BY DEF StatePlaced
<1>2. shortStateSamples \in {57, 58} /\ Border \in {17, 18, 40} /\ subframes \in {4, 6}
  BY <1>1 DEF shortStateSamples, Border, subframes
<1>3. /\ State!shortStateSamples = shortStateSamples /\ State!len = shortStateSamples
      /\ State!Samples = 0 .. (shortStateSamples - 1)
  BY DEF State!shortStateSamples, State!len, State!Samples, shortStateSamples
<1>4. State!Switch <=> n = Border
  BY <1>3 DEF State!Switch, Border
<1> QED
  BY <1>1, <1>2, <1>3, <1>4

\* The border is where the subframe changes.
LEMMA OwnSubframe40 ==
  ASSUME StatePlaced, NEW k \in 0 .. (shortStateSamples - 1)
  PROVE  (State!startPos + k) \div 40 = Own(k)
<1>1. PICK l \in {57, 58}, s \in Int : l = shortStateSamples /\ s = start
  BY StateSizes
<1>2. CASE stateFirst = 1
  <2>1. State!startPos = (s - 1) * 40 + 0 /\ Border = 40
    BY <1>1, <1>2 DEF State!startPos, Border
  <2>2. CASE k < 40
    <3>1. ((s - 1) * 40 + 0 + k) \div 40 = s - 1
      BY <1>1, <2>2
    <3> QED BY <1>1, <2>1, <2>2, <3>1 DEF Own
  <2>3. CASE k >= 40
    <3>1. ((s - 1) * 40 + 0 + k) \div 40 = s
      BY <1>1, <2>3
    <3>2. ~(k < 40)
      BY <2>3, <1>1
    <3> QED BY <1>1, <2>1, <3>1, <3>2 DEF Own
  <2> QED BY <1>1, <2>2, <2>3
<1>3. CASE stateFirst # 1
  <2>1. State!startPos = (s - 1) * 40 + (80 - l) /\ Border = l - 40
    BY <1>1, <1>3, StateSizes DEF State!startPos, Border
  <2>2. CASE k < l - 40
    <3>1. ((s - 1) * 40 + (80 - l) + k) \div 40 = s - 1
      BY <1>1, <2>2
    <3> QED BY <1>1, <2>1, <2>2, <3>1 DEF Own
  <2>3. CASE k >= l - 40
    <3>1. ((s - 1) * 40 + (80 - l) + k) \div 40 = s
      BY <1>1, <2>3
    <3>2. ~(k < l - 40)
      BY <2>3, <1>1
    <3> QED BY <1>1, <2>1, <3>1, <3>2 DEF Own
  <2> QED BY <1>1, <2>2, <2>3
<1> QED
  BY <1>2, <1>3

\* Before a sample of the state is looked at, nothing is known of it.
LEMMA StateInitInv == State!Init => StateInv
<1> HAVE State!Init
<1>1. StatePlaced
  BY DEF State!Init, StatePlaced, State!subframes, subframes
<1>2. /\ n = -1 /\ filter = start - 1 /\ weighted = [k \in State!Samples |-> <<>>]
      /\ quantised = <<>>
  BY DEF State!Init
<1>3. -1 \in -1 .. (shortStateSamples + 1) /\ -1 <= Border /\ -1 # shortStateSamples + 1
  BY <1>1, StateSizes
<1>4. weighted = [k \in 0 .. (shortStateSamples - 1) |-> <<>>]
  BY <1>1, <1>2, StateSizes
<1>5. quantised \in Seq(Int) /\ Len(quantised) = 0
  BY <1>2
<1> QED
  BY <1>1, <1>2, <1>3, <1>4, <1>5 DEF StateInv

\* The place of the state does not change.
LEMMA SamePlace ==
  ASSUME UNCHANGED <<mode, start, stateFirst>>
  PROVE  /\ StatePlaced' <=> StatePlaced
         /\ shortStateSamples' = shortStateSamples /\ Border' = Border
         /\ \A k : Own(k)' = Own(k)
BY DEF StatePlaced, shortStateSamples, subframes, Border, Own

\* The targets of the first subframe are weighted, ...
LEMMA StateBeginInv ==
  ASSUME StateInv, State!Begin
  PROVE  StateInv'
<1>1. /\ UNCHANGED <<mode, start, stateFirst>> /\ n = -1 /\ n' = 0
      /\ filter' = filter /\ quantised' = quantised /\ rebuilt' = rebuilt
  BY DEF State!Begin
<1>2. PICK l \in {57, 58}, b \in {17, 18, 40}, s \in Int :
        l = shortStateSamples /\ b = Border /\ s = start
  BY StateSizes DEF StateInv
<1>3. filter = s - 1
  BY <1>1, <1>2 DEF StateInv
<1>4. weighted' = [k \in 0 .. (l - 1) |-> IF k \in 0 .. (b - 1) THEN <<s - 1>> ELSE <<>>]
  <2>1. (IF stateFirst = 1 THEN 40 ELSE State!len - 40) = b
    BY <1>2, StateSizes DEF Border, StateInv
  <2>2. weighted' = [k \in State!Samples |-> IF k \in 0 .. (0 + b - 1)
                       THEN Append(weighted[k], filter') ELSE weighted[k]]
    BY <2>1 DEF State!Begin, State!Weight
  <2>3. State!Samples = 0 .. (l - 1)
    BY <1>2, StateSizes DEF StateInv
  <2>4. \A k \in 0 .. (l - 1) : weighted[k] = <<>>
    BY <1>1, <1>2 DEF StateInv
  <2>5. Append(<<>>, s - 1) = <<s - 1>>
    OBVIOUS
  <2>6. \A k \in 0 .. (l - 1) :
          (IF k \in 0 .. (0 + b - 1) THEN Append(weighted[k], filter') ELSE weighted[k])
          = (IF k \in 0 .. (b - 1) THEN <<s - 1>> ELSE <<>>)
    <3> TAKE k \in 0 .. (l - 1)
    <3>1. weighted[k] = <<>> /\ filter' = s - 1 /\ 0 + b - 1 = b - 1
      BY <1>1, <1>3, <2>4
    <3> QED BY <3>1, <2>5, Zenon
  <2> QED BY <2>2, <2>3, <2>6
<1>5. weighted' = [k \in 0 .. (l - 1) |->
                     IF 0 = -1 \/ (k >= b /\ 0 <= b) THEN <<>> ELSE <<Own(k)>>]
  <2>1. \A k \in 0 .. (l - 1) :
          (IF k \in 0 .. (b - 1) THEN <<s - 1>> ELSE <<>>)
          = (IF 0 = -1 \/ (k >= b /\ 0 <= b) THEN <<>> ELSE <<Own(k)>>)
    <3> TAKE k \in 0 .. (l - 1)
    <3>1. CASE k < b
      <4>1. k \in 0 .. (b - 1) /\ ~(k >= b) /\ Own(k) = s - 1
        BY <1>2, <3>1 DEF Own
      <4> QED BY <4>1
    <3>2. CASE k >= b
      <4>1. ~(k \in 0 .. (b - 1)) /\ 0 <= b
        BY <1>2, <3>2
      <4> QED BY <4>1, <3>2
    <3> QED BY <1>2, <3>1, <3>2
  <2> QED BY <1>4, <2>1
<1>6. /\ shortStateSamples' = l /\ Border' = b /\ start' = s /\ StatePlaced'
      /\ \A k : Own(k)' = Own(k)
  BY <1>1, <1>2, SamePlace DEF StateInv
<1>7. 0 \in -1 .. (l + 1) /\ 0 <= b /\ ~(0 > l) /\ 0 # l + 1
  BY <1>2
<1>8. /\ quantised \in Seq(Int) /\ Len(quantised) = 0
  BY <1>1 DEF StateInv
<1>9. filter' = IF n' <= Border' THEN start' - 1 ELSE start'
  BY <1>1, <1>2, <1>3, <1>6, <1>7
<1>10. weighted' = [k \in 0 .. (shortStateSamples' - 1) |->
         IF n' = -1 \/ (k >= Border' /\ n' <= Border') THEN <<>> ELSE <<Own(k)'>>]
  BY <1>1, <1>5, <1>6
<1> QED
  BY <1>1, <1>6, <1>7, <1>8, <1>9, <1>10 DEF StateInv

\* ... those of the second when its first sample is due, ...
LEMMA StateQuantiseInv ==
  ASSUME StateInv, State!Quantise
  PROVE  StateInv'
<1>1. PICK l \in {57, 58}, b \in {17, 18, 40}, s \in Int :
        l = shortStateSamples /\ b = Border /\ s = start
  BY StateSizes DEF StateInv
<1>2. /\ UNCHANGED <<mode, start, stateFirst>> /\ n \in 0 .. (l - 1) /\ n' = n + 1
      /\ rebuilt' = rebuilt /\ quantised' = Append(quantised, filter')
  BY <1>1, StateSizes DEF State!Quantise, StateInv
<1>3. PICK m \in 0 .. (l - 1) : m = n
  BY <1>2
<1>4. /\ shortStateSamples' = l /\ Border' = b /\ start' = s /\ StatePlaced'
      /\ \A k : Own(k)' = Own(k)
  BY <1>1, <1>2, SamePlace DEF StateInv
<1>5. /\ quantised \in Seq(Int) /\ Len(quantised) = m
      /\ \A k \in 0 .. (m - 1) : quantised[k + 1] = Own(k)
  <2>1. ~(n = -1) /\ ~(n > l)
    BY <1>2
  <2> QED BY <1>1, <1>3, <2>1 DEF StateInv
<1>6. filter' = Own(m) /\ Own(m) \in Int
  <2>1. filter = IF m <= b THEN s - 1 ELSE s
    BY <1>1, <1>3 DEF StateInv
  <2>2. filter' = IF m = b THEN filter + 1 ELSE filter
    BY <1>1, <1>3, StateSizes DEF State!Quantise, StateInv
  <2>3. Own(m) = IF m < b THEN s - 1 ELSE s
    BY <1>1 DEF Own
  <2> QED BY <2>1, <2>2, <2>3
<1>7. filter' = IF n' <= Border' THEN start' - 1 ELSE start'
  BY <1>1, <1>2, <1>3, <1>4, <1>6 DEF Own
<1>8. /\ quantised' \in Seq(Int) /\ Len(quantised') = m + 1
      /\ \A k \in 0 .. m : quantised'[k + 1] = Own(k)
  <2>1. PICK f \in Int : f = filter' /\ f = Own(m)
    BY <1>6
  <2>2. quantised' = Append(quantised, f)
    BY <1>2, <2>1
  <2>3. /\ quantised' \in Seq(Int) /\ Len(quantised') = m + 1 /\ quantised'[m + 1] = f
        /\ \A k \in 0 .. (m - 1) : quantised'[k + 1] = quantised[k + 1]
    BY <1>5, <2>2
  <2> QED BY <1>5, <2>1, <2>3
<1>9. weighted = [k \in 0 .. (l - 1) |-> IF k >= b /\ m <= b THEN <<>> ELSE <<Own(k)>>]
  <2>1. n # -1
    BY <1>2
  <2> QED BY <1>1, <1>3, <2>1 DEF StateInv
<1>10. weighted' = [k \in 0 .. (l - 1) |-> IF k >= b /\ m + 1 <= b THEN <<>> ELSE <<Own(k)>>]
  <2>1. CASE m = b
    <3>1. filter' = s
      BY <1>1, <1>6, <2>1 DEF Own
    <3>2. weighted' = [k \in State!Samples |-> IF k \in m .. (m + (l - m) - 1)
                         THEN Append(weighted[k], filter') ELSE weighted[k]]
      <4>1. State!Switch /\ State!len = l
        BY <1>1, <1>3, <2>1, StateSizes DEF StateInv
      <4>2. State!Weight(n, State!len - n)
        BY <4>1 DEF State!Quantise
      <4> QED BY <1>3, <4>1, <4>2 DEF State!Weight
    <3>3. State!Samples = 0 .. (l - 1)
      BY <1>1, StateSizes DEF StateInv
    <3>4. \A k \in 0 .. (l - 1) :
            (IF k \in m .. (m + (l - m) - 1) THEN Append(weighted[k], filter') ELSE weighted[k])
            = (IF k >= b /\ m + 1 <= b THEN <<>> ELSE <<Own(k)>>)
      <4> TAKE k \in 0 .. (l - 1)
      <4>0. ~(m + 1 <= b)
        BY <2>1
      <4>1. CASE k < b
        <5>1. ~(k >= b) /\ ~(k \in m .. (m + (l - m) - 1))
          BY <2>1, <4>1
        <5>2. weighted[k] = <<Own(k)>>
          BY <1>9, <5>1
        <5> QED BY <4>0, <5>1, <5>2, Zenon
      <4>2. CASE k >= b
        <5>1. k \in m .. (m + (l - m) - 1) /\ m <= b
          BY <2>1, <4>2
        <5>2. weighted[k] = <<>>
          BY <1>9, <5>1, <4>2
        <5>3. Own(k) = s
          BY <1>1, <4>2 DEF Own
        <5>4. Append(<<>>, s) = <<s>>
          OBVIOUS
        <5> QED BY <3>1, <4>0, <5>1, <5>2, <5>3, <5>4, Zenon
      <4> QED BY <4>1, <4>2
    <3> QED BY <3>2, <3>3, <3>4
  <2>2. CASE m # b
    <3>1. weighted' = weighted
      BY <1>1, <1>3, <2>2, StateSizes DEF State!Quantise, StateInv
    <3>2. m <= b <=> m + 1 <= b
      BY <2>2
    <3> QED BY <1>9, <3>1, <3>2
  <2> QED BY <2>1, <2>2
<1>11. /\ n' \in -1 .. (l + 1) /\ n' # -1 /\ n' # l + 1 /\ n' = m + 1
       /\ m + 1 = IF n' = -1 THEN 0 ELSE IF n' > l THEN l ELSE n'
  BY <1>2, <1>3
<1>12. weighted' = [k \in 0 .. (shortStateSamples' - 1) |->
         IF n' = -1 \/ (k >= Border' /\ n' <= Border') THEN <<>> ELSE <<Own(k)'>>]
  BY <1>10, <1>11, <1>4
<1>13. \A k \in 0 .. (Len(quantised') - 1) : quantised'[k + 1] = Own(k)'
  BY <1>8, <1>4
<1> QED
  BY <1>4, <1>7, <1>8, <1>11, <1>12, <1>13 DEF StateInv

\* ... and the whole is rebuilt.
LEMMA StateConstructInv ==
  ASSUME StateInv, State!Construct
  PROVE  StateInv'
<1>1. PICK l \in {57, 58}, b \in {17, 18, 40}, s \in Int :
        l = shortStateSamples /\ b = Border /\ s = start
  BY StateSizes DEF StateInv
<1>2. State!len = l /\ State!Samples = 0 .. (l - 1)
  BY <1>1, StateSizes DEF StateInv
<1>3. /\ UNCHANGED <<mode, start, stateFirst, filter, weighted, quantised>>
      /\ n = l /\ n' = l + 1
  BY <1>2 DEF State!Construct
<1>4. rebuilt' = [k \in 0 .. (l - 1) |-> k]
  <2>1. rebuilt' = [k \in 0 .. (l - 1) |-> [j \in 0 .. (l - 1) |-> l - 1 - j][l - 1 - k]]
    BY <1>2 DEF State!Construct
  <2>2. \A k \in 0 .. (l - 1) : [j \in 0 .. (l - 1) |-> l - 1 - j][l - 1 - k] = k
    OBVIOUS
  <2> QED BY <2>1, <2>2
<1>5. /\ shortStateSamples' = l /\ Border' = b /\ start' = s /\ StatePlaced'
      /\ \A k : Own(k)' = Own(k)
  BY <1>1, <1>3, SamePlace DEF StateInv
<1>6. /\ filter = s /\ ~(n <= b) /\ ~(n' <= b) /\ n' \in -1 .. (l + 1) /\ ~(n = -1)
      /\ ~(n' = -1) /\ ~(n > l) /\ n' > l
  BY <1>1, <1>3 DEF StateInv
<1>7. weighted' = [k \in 0 .. (shortStateSamples' - 1) |->
         IF n' = -1 \/ (k >= Border' /\ n' <= Border') THEN <<>> ELSE <<Own(k)'>>]
  <2>1. weighted = [k \in 0 .. (l - 1) |->
          IF n = -1 \/ (k >= b /\ n <= b) THEN <<>> ELSE <<Own(k)>>]
    BY <1>1 DEF StateInv
  <2> QED BY <2>1, <1>3, <1>5, <1>6
<1>8. /\ quantised' \in Seq(Int) /\ Len(quantised') = l
      /\ \A k \in 0 .. (Len(quantised') - 1) : quantised'[k + 1] = Own(k)'
  BY <1>1, <1>3, <1>5, <1>6 DEF StateInv
<1> QED
  BY <1>3, <1>4, <1>5, <1>6, <1>7, <1>8 DEF StateInv

LEMMA StateKept ==
  ASSUME StateInv, UNCHANGED <<mode, start, stateFirst, stateVars>>
  PROVE  StateInv'
BY SamePlace DEF StateInv, stateVars

\* What StateInv says of the samples that are done.
LEMMA StateInvGives == StateInv => StateInPlace
<1> HAVE StateInv
<1>1. PICK l \in {57, 58}, b \in {17, 18, 40} : l = shortStateSamples /\ b = Border
  BY StateSizes DEF StateInv
<1>2. State!len = l /\ State!Samples = 0 .. (l - 1)
  BY <1>1, StateSizes DEF StateInv
<1>3. ASSUME NEW k \in 0 .. (n - 1), k \in 0 .. (l - 1)
      PROVE  weighted[k] = <<Own(k)>> /\ quantised[k + 1] = Own(k)
  <2>1. n \in -1 .. (l + 1) /\ ~(n = -1) /\ n > k
    BY <1>1, <1>3 DEF StateInv
  <2>2. ~(k >= b /\ n <= b)
    BY <2>1, <1>3
  <2>3. weighted[k] = <<Own(k)>>
    BY <1>1, <1>3, <2>1, <2>2 DEF StateInv
  <2>4. Len(quantised) = IF n > l THEN l ELSE n
    BY <1>1, <2>1 DEF StateInv
  <2>5. k \in 0 .. (Len(quantised) - 1)
    BY <2>1, <2>4, <1>3
  <2> QED BY <2>3, <2>5 DEF StateInv
<1>4. ASSUME n = l + 1, NEW k \in 0 .. (l - 1)
      PROVE  rebuilt[k] = k
  BY <1>1, <1>4 DEF StateInv
<1>5. \A k \in 0 .. (l - 1) : (State!startPos + k) \div 40 = Own(k)
  BY <1>1, OwnSubframe40 DEF StateInv
<1> QED
  BY <1>2, <1>3, <1>4, <1>5 DEF StateInPlace, State!StateInPlace

\* Only CodeState touches the start state.
LEMMA StateNextInv ==
  ASSUME StateInv, [FrameNext]_frameVars
  PROVE  StateInv'
<1>1. CASE CodeState
  BY <1>1, StateBeginInv, StateQuantiseInv, StateConstructInv DEF CodeState, State!Next
<1>2. CASE CodeResidual \/ RebuildResidual
  <2>1. UNCHANGED stateVars /\ Residual!Next
    BY <1>2 DEF CodeResidual, RebuildResidual
  <2>2. UNCHANGED <<mode, start, stateFirst>>
    BY <2>1 DEF Residual!Next, Residual!frame, Residual!EncodeState,
      Residual!EncodeExtraAfter, Residual!EncodeExtraBefore, Residual!EncodeForward,
      Residual!ForwardDone, Residual!EncodeBackward, Residual!EncodeFinish,
      Residual!DecodeState, Residual!DecodeExtraAfter, Residual!DecodeExtraBefore,
      Residual!DecodeForward, Residual!DecodeBackward, Residual!DecodeFinish
  <2> QED BY <2>1, <2>2, StateKept
<1>3. CASE Transfer
  <2>1. UNCHANGED mode
    BY <1>3 DEF Transfer, Wire!Next, Wire!PackPart, Wire!PackFlag, Wire!PackNextByte,
      Wire!PackBits, Wire!PackReturn, Wire!UnpackPart, Wire!UnpackNextByte,
      Wire!UnpackBits, Wire!UnpackReturn
  <2> QED BY <1>3, <2>1, StateKept DEF Transfer
<1>4. CASE UNCHANGED frameVars
  BY <1>4, StateKept DEF frameVars
<1> QED
  BY <1>1, <1>2, <1>3, <1>4 DEF FrameNext, Done

\* Whichever end of its two subframes the state is at, absQuantW weights and
\* quantises each of its samples once, under the filter of the sample's own
\* subframe, and stateConstructW rebuilds it from its own code.
THEOREM StateInPlaceHolds == FrameSpec => []StateInPlace
<1>1. FrameInit => StateInv
  BY StateInitInv DEF FrameInit
<1>2. StateInv /\ [FrameNext]_frameVars => StateInv'
  BY StateNextInv
<1> QED
  BY <1>1, <1>2, StateInvGives, PTL DEF FrameSpec
-----------------------------------------------------------------------------
(* The rest of the residual.  Each memory is determined by its vector's    *)
(* number, so both sides agree on it; each sample by its place.            *)

\* Where the two subframes of the state begin.
TwoAt == 40 * (start - 1)

\* The residual with the state coded, with the rest of its subframes, with k
\* subframes after them, and as a whole.
StateCodedOnly == Residual!Put(Residual!Silence, Residual!startPos, shortStateSamples, 0)

TwoCoded ==
  IF stateFirst = 1
  THEN Residual!Put(StateCodedOnly, Residual!startPos + shortStateSamples, Residual!diff, 1)
  ELSE [i \in Residual!Samples |->
         IF Residual!startPos - 1 - i \in 0 .. (Residual!diff - 1)
         THEN Residual!Put(Residual!Silence, 0, Residual!diff, 1)[Residual!startPos - 1 - i]
         ELSE StateCodedOnly[i]]

Following(k) ==
  [i \in Residual!Samples |->
     IF i \in (TwoAt + 80) .. (TwoAt + 80 + 40 * k - 1)
     THEN <<2 + (i - TwoAt - 80) \div 40, (i - TwoAt - 80) % 40>>
     ELSE TwoCoded[i]]

Whole ==
  [i \in Residual!Samples |->
     IF i < TwoAt
     THEN <<2 + Residual!nfor + (TwoAt - 1 - i) \div 40, (TwoAt - 1 - i) % 40>>
     ELSE Following(Residual!nfor)[i]]

\* What the i-th vector of the vectors s is searched in, for which samples and
\* with the filter of which subframe.
ExtraMemory ==
  IF stateFirst = 1
  THEN Residual!Forward(StateCodedOnly, Residual!startPos, shortStateSamples)
  ELSE Residual!Backward(StateCodedOnly, Residual!startPos, shortStateSamples)

MemoryOf(s, i) ==
  IF i = 1 THEN <<>>
  ELSE IF i = 2 THEN Residual!Last(ExtraMemory, 85)
  ELSE IF i = 3 /\ Residual!nfor > 0 THEN Residual!Forward(TwoCoded, TwoAt, 80)
  ELSE IF i = 3 + Residual!nfor
       THEN Residual!Backward(Following(Residual!nfor), TwoAt, Residual!memlGotten)
  ELSE Residual!Slide(s[i - 1].memory, i - 2)

TargetOf(i) ==
  IF i = 1 THEN [j \in 0 .. (shortStateSamples - 1) |-> Residual!startPos + j]
  ELSE IF i = 2
       THEN [j \in 0 .. (Residual!diff - 1) |->
               IF stateFirst = 1 THEN Residual!startPos + shortStateSamples + j
               ELSE Residual!startPos - 1 - j]
  ELSE IF i <= 2 + Residual!nfor
       THEN [j \in 0 .. 39 |-> TwoAt + 80 + 40 * (i - 3) + j]
  ELSE [j \in 0 .. 39 |-> TwoAt - 1 - 40 * (i - 3 - Residual!nfor) - j]

FilterOf(i) ==
  IF i = 1 THEN start - 1
  ELSE IF i = 2 THEN (IF stateFirst = 1 THEN start ELSE start - 1)
  ELSE IF i <= 2 + Residual!nfor THEN start + i - 2
  ELSE start + 1 + Residual!nfor - i

Vector(s, i) ==
  [memory |-> MemoryOf(s, i), target |-> TargetOf(i), filter |-> FilterOf(i)]

\* Vectors coded by the side at work.
Coded == IF step = "state" THEN 0 ELSE IF step = "extra" THEN 1 ELSE 2 + subcount
AllVectors == 2 + Residual!nfor + Residual!nback

Counters ==
  /\ StatePlaced
  /\ side \in {"encode", "decode", "done"}
  /\ \/ step \in {"state", "extra"} /\ subframe = 0 /\ subcount = 0
     \/ step = "forward" /\ subframe \in 0 .. Residual!nfor /\ subcount = subframe
     \/ step = "backward" /\ subframe \in 0 .. Residual!nback
        /\ subcount = Residual!nfor + subframe
  /\ side = "done" => step = "backward" /\ subframe = Residual!nback

\* k subframes are in r, after f others and in reverse.
Reversed(r, k, f) ==
  \A i \in 0 .. (40 * k - 1) : r[i] = <<2 + f + i \div 40, i % 40>>

Buffers ==
  /\ step = "state" => decresidual = Residual!Silence
  /\ step = "extra" => decresidual = StateCodedOnly
  /\ step = "forward" => decresidual = Following(subframe)
  /\ step = "backward" /\ side # "done" => decresidual = Following(Residual!nfor)
  /\ step \in {"state", "extra"} => reverse = Residual!Silence
  /\ step = "backward" => Reversed(reverse, subframe, Residual!nfor)
  /\ subframe > 0 => mem = Residual!Slide(searched[Coded].memory, Coded - 1)

\* A sequence, of whatever it holds.
Sequential(s) == s \in Seq({s[i] : i \in DOMAIN s})

SearchedVectors ==
  /\ Sequential(searched)
  /\ Len(searched) = IF side = "encode" THEN Coded ELSE AllVectors
  /\ \A i \in 1 .. Len(searched) : searched[i] = Vector(searched, i)

BuiltVectors ==
  /\ Sequential(built)
  /\ Len(built) = IF side = "encode" THEN 0 ELSE Coded
  /\ \A i \in 1 .. Len(built) : built[i] = searched[i].memory

Results ==
  /\ side # "encode" => encoded = Whole
  /\ side = "done" => decresidual = Whole

ResidualInv == Counters /\ Buffers /\ SearchedVectors /\ BuiltVectors /\ Results

\* What Append does to any sequence.
LEMMA AppendGrows ==
  ASSUME NEW s, Sequential(s), NEW e
  PROVE  /\ Sequential(Append(s, e)) /\ Len(s) \in Nat
         /\ Len(Append(s, e)) = Len(s) + 1 /\ Append(s, e)[Len(s) + 1] = e
         /\ \A i \in 1 .. Len(s) : Append(s, e)[i] = s[i]
<1> DEFINE S == {s[i] : i \in DOMAIN s}
           t == Append(s, e)
<1>1. s \in Seq(S)
  BY DEF Sequential
<1>2. s \in Seq(S \cup {e})
  BY <1>1
<1>3. t \in Seq(S \cup {e})
  BY <1>2
<1>4. /\ Len(s) \in Nat /\ Len(t) = Len(s) + 1 /\ t[Len(s) + 1] = e
      /\ \A i \in 1 .. Len(s) : t[i] = s[i]
  BY <1>2
<1>5. t \in Seq({t[i] : i \in DOMAIN t})
  BY <1>3
<1> QED
  BY <1>4, <1>5 DEF Sequential

\* The sizes of a frame and the place of its state.
LEMMA FrameSizes ==
  ASSUME StatePlaced
  PROVE  /\ start \in Int /\ start >= 1 /\ shortStateSamples \in {57, 58}
         /\ Residual!shortStateSamples = shortStateSamples
         /\ Residual!subframes = subframes /\ subframes \in {4, 6}
         /\ Residual!diff = 80 - shortStateSamples
         /\ Residual!nfor \in 0 .. 4 /\ Residual!nback \in 0 .. 4
         /\ Residual!nback = start - 1 /\ Residual!nfor = subframes - start - 1
         /\ TwoAt = 40 * Residual!nback /\ TwoAt \in 0 .. 160
         /\ TwoAt + 80 + 40 * Residual!nfor = 40 * subframes
         /\ stateFirst = 1 => Residual!startPos = TwoAt
         /\ stateFirst # 1 => stateFirst = 0 /\ Residual!startPos = TwoAt + 80 - shortStateSamples
         /\ Residual!startPos \in Int
         /\ Residual!FrameSamples = 40 * subframes
<1>1. mode \in {20, 30} /\ stateFirst \in {0, 1} /\ start \in 1 .. (subframes - 1)
  BY DEF StatePlaced
<1>2. shortStateSamples \in {57, 58} /\ subframes \in {4, 6}
  BY <1>1 DEF shortStateSamples, subframes
<1>3. Residual!shortStateSamples = shortStateSamples /\ Residual!subframes = subframes
  BY DEF Residual!shortStateSamples, shortStateSamples, Residual!subframes, subframes
<1>4. PICK s \in 1 .. 5, u \in {4, 6}, l \in {57, 58} :
        s = start /\ u = subframes /\ l = shortStateSamples /\ s <= u - 1
  BY <1>1, <1>2
<1>5. /\ Residual!nback = s - 1 /\ Residual!nfor = u - s - 1 /\ Residual!diff = 80 - l
      /\ TwoAt = 40 * (s - 1) /\ Residual!FrameSamples = 40 * u
      /\ Residual!startPos = (s - 1) * 40 + (IF stateFirst = 1 THEN 0 ELSE 80 - l)
  BY <1>3, <1>4 DEF Residual!nback, Residual!nfor, Residual!diff, TwoAt, Residual!startPos,
    Residual!FrameSamples
<1> QED
  BY <1>1, <1>3, <1>4, <1>5

\* The frame's shape does not change.
LEMMA SameFrame ==
  ASSUME UNCHANGED <<mode, start, stateFirst>>
  PROVE  /\ StatePlaced' <=> StatePlaced
         /\ Residual!nfor' = Residual!nfor /\ Residual!nback' = Residual!nback
         /\ StateCodedOnly' = StateCodedOnly /\ Whole' = Whole /\ AllVectors' = AllVectors
         /\ \A k : Following(k)' = Following(k)
         /\ Following(subframe)' = Following(subframe')
         /\ Following(Residual!nfor)' = Following(Residual!nfor)
         /\ \A i : TargetOf(i)' = TargetOf(i) /\ FilterOf(i)' = FilterOf(i)
<1>1. StatePlaced' <=> StatePlaced
  BY DEF StatePlaced, subframes
<1>2. /\ shortStateSamples' = shortStateSamples
      /\ Residual!shortStateSamples' = Residual!shortStateSamples
      /\ Residual!subframes' = Residual!subframes /\ start' = start /\ stateFirst' = stateFirst
  BY DEF shortStateSamples, Residual!shortStateSamples, Residual!subframes
<1>3. /\ Residual!diff' = Residual!diff /\ Residual!nfor' = Residual!nfor
      /\ Residual!nback' = Residual!nback /\ TwoAt' = TwoAt
  BY <1>2 DEF Residual!diff, Residual!nfor, Residual!nback, TwoAt
<1>4. Residual!startPos' = Residual!startPos
  BY <1>2, <1>3 DEF Residual!startPos
<1>5. StateCodedOnly' = StateCodedOnly
  BY <1>2, <1>4 DEF StateCodedOnly, Residual!Put, Residual!Silence, Residual!Samples,
    Residual!Zero
<1>6. TwoCoded' = TwoCoded
  BY <1>2, <1>3, <1>4, <1>5 DEF TwoCoded, Residual!Put, Residual!Silence,
    Residual!Samples, Residual!Zero
<1>7. /\ \A k : Following(k)' = Following(k)
      /\ Following(subframe)' = Following(subframe')
      /\ Following(Residual!nfor)' = Following(Residual!nfor)
  BY <1>3, <1>6 DEF Following, Residual!Samples
<1>8. Whole' = Whole
  BY <1>3, <1>7 DEF Whole, Residual!Samples
<1>9. \A i : TargetOf(i)' = TargetOf(i) /\ FilterOf(i)' = FilterOf(i)
  BY <1>2, <1>3, <1>4 DEF TargetOf, FilterOf
<1>10. AllVectors' = AllVectors
  BY <1>3 DEF AllVectors
<1> QED
  BY <1>1, <1>3, <1>5, <1>7, <1>8, <1>9, <1>10

\* The memory of a vector depends on the vector before it only.
LEMMA SameMemory ==
  ASSUME UNCHANGED <<mode, start, stateFirst>>, NEW i \in Int, i >= 1,
         i > 2 => searched'[i - 1] = searched[i - 1]
  PROVE  Vector(searched, i)' = Vector(searched, i)
<1>1. /\ Residual!nfor' = Residual!nfor /\ StateCodedOnly' = StateCodedOnly
      /\ \A k : Following(k)' = Following(k)
      /\ TargetOf(i)' = TargetOf(i) /\ FilterOf(i)' = FilterOf(i)
  BY SameFrame
<1>2. /\ start' = start /\ stateFirst' = stateFirst /\ TwoAt' = TwoAt
      /\ shortStateSamples' = shortStateSamples
      /\ Residual!startPos' = Residual!startPos
      /\ Residual!memlGotten' = Residual!memlGotten
  BY DEF TwoAt, Residual!startPos, Residual!memlGotten, Residual!diff, shortStateSamples,
    Residual!shortStateSamples, Residual!subframes
<1>3. TwoCoded' = TwoCoded
  BY <1>1, <1>2 DEF TwoCoded, Residual!Put, Residual!Silence,
    Residual!Samples, Residual!Zero, Residual!diff, Residual!shortStateSamples
<1>4. Residual!Last(ExtraMemory, 85)' = Residual!Last(ExtraMemory, 85)
  BY <1>1, <1>2 DEF ExtraMemory, Residual!Last, Residual!Forward, Residual!Backward,
    Residual!Memory, Residual!Zero
<1>5. Residual!Forward(TwoCoded, TwoAt, 80)' = Residual!Forward(TwoCoded, TwoAt, 80)
  BY <1>2, <1>3 DEF Residual!Forward, Residual!Memory, Residual!Zero
<1>6. Residual!Backward(Following(Residual!nfor), TwoAt, Residual!memlGotten)'
      = Residual!Backward(Following(Residual!nfor), TwoAt, Residual!memlGotten)
  <2>1. Following(Residual!nfor)' = Following(Residual!nfor)
    BY <1>1, <1>2, <1>3 DEF Following, Residual!Samples
  <2> QED BY <1>2, <2>1 DEF Residual!Backward, Residual!Memory, Residual!Zero
<1>7. i > 2 => Residual!Slide(searched[i - 1].memory, i - 2)'
               = Residual!Slide(searched[i - 1].memory, i - 2)
  BY DEF Residual!Slide, Residual!Memory
<1>8. MemoryOf(searched, i)' = MemoryOf(searched, i)
  <2>1. CASE i = 1 \/ i = 2
    BY <1>4, <2>1 DEF MemoryOf
  <2>2. CASE i = 3 \/ i = 3 + Residual!nfor
    BY <1>1, <1>4, <1>5, <1>6, <1>7, <2>2 DEF MemoryOf
  <2>3. CASE ~(i \in {1, 2, 3}) /\ i # 3 + Residual!nfor
    <3>1. i > 2
      BY <2>3
    <3> QED BY <1>1, <1>7, <2>3, <3>1 DEF MemoryOf
  <2> QED BY <2>1, <2>2, <2>3
<1> QED
  BY <1>1, <1>8 DEF Vector

\* The vectors coded before stay what they are when one is added.
LEMMA VectorsGrow ==
  ASSUME UNCHANGED <<mode, start, stateFirst>>, Sequential(searched),
         \A i \in 1 .. Len(searched) : searched[i] = Vector(searched, i),
         searched' = Append(searched, Vector(searched, Len(searched) + 1))
  PROVE  /\ Sequential(searched') /\ Len(searched) \in Nat
         /\ Len(searched') = Len(searched) + 1
         /\ \A i \in 1 .. Len(searched') : searched'[i] = Vector(searched, i)'
         /\ \A i \in 1 .. Len(searched) : searched'[i] = searched[i]
         /\ searched'[Len(searched) + 1].memory = MemoryOf(searched, Len(searched) + 1)
<1>1. PICK c : c = Len(searched)
  OBVIOUS
<1>2. PICK e : e = Vector(searched, c + 1)
  OBVIOUS
<1>3. /\ Sequential(searched') /\ c \in Nat /\ Len(searched') = c + 1
      /\ searched'[c + 1] = e /\ \A i \in 1 .. c : searched'[i] = searched[i]
  <2>1. searched' = Append(searched, e)
    BY <1>1, <1>2
  <2> QED BY <1>1, <2>1, AppendGrows
<1>4. ASSUME NEW i \in 1 .. (c + 1)
      PROVE  searched'[i] = Vector(searched, i)'
  <2>1. i \in Int /\ i >= 1 /\ (i > 2 => searched'[i - 1] = searched[i - 1])
    BY <1>3
  <2>2. Vector(searched, i)' = Vector(searched, i)
    BY <2>1, SameMemory
  <2>3. CASE i = c + 1
    BY <1>2, <1>3, <2>2, <2>3
  <2>4. CASE i \in 1 .. c
    BY <1>1, <1>3, <2>2, <2>4
  <2> QED BY <1>3, <2>3, <2>4
<1>5. e.memory = MemoryOf(searched, c + 1)
  BY <1>2 DEF Vector
<1> QED
  BY <1>1, <1>3, <1>4, <1>5

\* A codebook of memLf samples uses all of a memory.
LEMMA WholeMemory ==
  ASSUME NEW r, NEW p, NEW k
  PROVE  /\ Residual!Last(Residual!Forward(r, p, k), 147) = Residual!Forward(r, p, k)
         /\ Residual!Last(Residual!Backward(r, p, k), 147) = Residual!Backward(r, p, k)
         /\ Residual!Last(Residual!Slide(r, k), 147) = Residual!Slide(r, k)
<1>1. ASSUME NEW m, m = [i \in Residual!Memory |-> m[i]]
      PROVE  Residual!Last(m, 147) = m
  <2>1. Residual!Memory = (147 - 147) .. 146
    BY DEF Residual!Memory
  <2>2. Residual!Last(m, 147) = [i \in (147 - 147) .. 146 |-> m[i]]
    BY DEF Residual!Last
  <2> QED BY <1>1, <2>1, <2>2
<1>2. Residual!Forward(r, p, k) = [i \in Residual!Memory |-> Residual!Forward(r, p, k)[i]]
  BY DEF Residual!Forward
<1>3. Residual!Backward(r, p, k) = [i \in Residual!Memory |-> Residual!Backward(r, p, k)[i]]
  BY DEF Residual!Backward
<1>4. Residual!Slide(r, k) = [i \in Residual!Memory |-> Residual!Slide(r, k)[i]]
  BY DEF Residual!Slide
<1> QED
  BY <1>1, <1>2, <1>3, <1>4

\* The subframes after the state are coded one after the other.
LEMMA FollowingGrows ==
  ASSUME StatePlaced
  PROVE  /\ Following(0) = TwoCoded
         /\ \A k \in 0 .. (Residual!nfor - 1) :
              Residual!Put(Following(k), (start + 1 + k) * 40, 40, 2 + k) = Following(k + 1)
<1>1. PICK a \in 0 .. 160, f \in 0 .. 4, s \in Int :
        a = TwoAt /\ f = Residual!nfor /\ s = start /\ a = 40 * (s - 1)
  BY FrameSizes
<1>2. TwoCoded = [i \in Residual!Samples |-> TwoCoded[i]]
  <2>1. CASE stateFirst = 1
    BY <2>1 DEF TwoCoded, Residual!Put
  <2>2. CASE stateFirst # 1
    BY <2>2 DEF TwoCoded
  <2> QED BY <2>1, <2>2
<1>3. Following(0) = TwoCoded
  <2>1. \A i \in Residual!Samples : ~(i \in (a + 80) .. (a + 80 + 40 * 0 - 1))
    BY DEF Residual!Samples
  <2> QED BY <1>1, <1>2, <2>1 DEF Following
<1>4. ASSUME NEW k \in 0 .. (f - 1)
      PROVE  Residual!Put(Following(k), (s + 1 + k) * 40, 40, 2 + k) = Following(k + 1)
  <2> DEFINE b == a + 80 + 40 * k
             old(i) == IF i \in (a + 80) .. (a + 80 + 40 * k - 1)
                       THEN <<2 + (i - a - 80) \div 40, (i - a - 80) % 40>> ELSE TwoCoded[i]
             new(i) == IF i \in (a + 80) .. (a + 80 + 40 * (k + 1) - 1)
                       THEN <<2 + (i - a - 80) \div 40, (i - a - 80) % 40>> ELSE TwoCoded[i]
  <2>1. (s + 1 + k) * 40 = b
    BY <1>1
  <2>2. Following(k) = [i \in Residual!Samples |-> old(i)]
    BY <1>1 DEF Following
  <2>3. Following(k + 1) = [i \in Residual!Samples |-> new(i)]
    BY <1>1 DEF Following
  <2>4. \A i \in Residual!Samples :
          (IF i \in b .. (b + 40 - 1) THEN <<2 + k, i - b>> ELSE old(i)) = new(i)
    <3> TAKE i \in Residual!Samples
    <3>0. i \in Int
      BY DEF Residual!Samples
    <3>1. CASE i \in b .. (b + 40 - 1)
      <4>1. (i - a - 80) \div 40 = k /\ (i - a - 80) % 40 = i - b
        BY <3>0, <3>1
      <4>2. i \in (a + 80) .. (a + 80 + 40 * (k + 1) - 1)
        BY <3>0, <3>1
      <4>3. new(i) = <<2 + k, i - b>>
        BY <4>1, <4>2
      <4> QED BY <3>1, <4>3
    <3>2. CASE ~(i \in b .. (b + 40 - 1))
      <4>1. i \in (a + 80) .. (a + 80 + 40 * (k + 1) - 1)
            <=> i \in (a + 80) .. (a + 80 + 40 * k - 1)
        BY <3>0, <3>2
      <4> QED BY <3>2, <4>1
    <3> QED BY <3>1, <3>2
  <2>5. Residual!Put(Following(k), b, 40, 2 + k)
        = [i \in Residual!Samples |-> IF i \in b .. (b + 40 - 1) THEN <<2 + k, i - b>>
                                      ELSE Following(k)[i]]
    BY DEF Residual!Put
  <2> HIDE DEF b, old, new
  <2>6. \A i \in Residual!Samples : Following(k)[i] = old(i)
    BY <2>2
  <2> QED BY <2>1, <2>3, <2>4, <2>5, <2>6
<1> QED
  BY <1>1, <1>3, <1>4

\* The subframes before the state are coded in reverse.
LEMMA ReverseGrows ==
  ASSUME NEW r, NEW k \in 0 .. 4, NEW f \in 0 .. 4,
         Reversed(r, k, f)
  PROVE  Reversed(Residual!Put(r, k * 40, 40, 2 + (f + k)), k + 1, f)
<1> SUFFICES \A i \in 0 .. (40 * (k + 1) - 1) :
      Residual!Put(r, k * 40, 40, 2 + (f + k))[i] = <<2 + f + i \div 40, i % 40>>
  BY DEF Reversed
<1> TAKE i \in 0 .. (40 * (k + 1) - 1)
<1>1. i \in Residual!Samples
  BY DEF Residual!Samples
<1>2. Residual!Put(r, k * 40, 40, 2 + (f + k))[i]
      = IF i \in (k * 40) .. (k * 40 + 40 - 1) THEN <<2 + (f + k), i - k * 40>> ELSE r[i]
  BY <1>1 DEF Residual!Put
<1>3. CASE i \in (k * 40) .. (k * 40 + 40 - 1)
  <2>1. i \div 40 = k /\ i % 40 = i - k * 40 /\ 2 + f + k = 2 + (f + k)
    BY <1>3
  <2> QED BY <1>2, <1>3, <2>1
<1>4. CASE ~(i \in (k * 40) .. (k * 40 + 40 - 1))
  <2>1. i \in 0 .. (40 * k - 1)
    BY <1>4
  <2> QED BY <1>2, <1>4, <2>1 DEF Reversed
<1> QED
  BY <1>3, <1>4

\* Taken out of reverse, they complete the residual.
LEMMA UnreversedIsWhole ==
  ASSUME StatePlaced, decresidual = Following(Residual!nfor),
         Reversed(reverse, Residual!nback, Residual!nfor)
  PROVE  Residual!Unreversed = Whole
<1>1. PICK a \in 0 .. 160, f \in 0 .. 4 :
        a = TwoAt /\ f = Residual!nfor /\ a = 40 * Residual!nback
  BY FrameSizes
<1>2. Residual!Unreversed = [i \in Residual!Samples |->
        IF i < a THEN reverse[a - i - 1] ELSE decresidual[i]]
  BY <1>1 DEF Residual!Unreversed
<1>3. Whole = [i \in Residual!Samples |->
        IF i < a THEN <<2 + f + (a - 1 - i) \div 40, (a - 1 - i) % 40>> ELSE decresidual[i]]
  BY <1>1 DEF Whole
<1>4. ASSUME NEW i \in Residual!Samples, i < a
      PROVE  reverse[a - i - 1] = <<2 + f + (a - 1 - i) \div 40, (a - 1 - i) % 40>>
  <2>1. a - i - 1 \in 0 .. (a - 1) /\ a - i - 1 = a - 1 - i
    BY <1>4 DEF Residual!Samples
  <2> QED BY <1>1, <2>1 DEF Reversed
<1> QED
  BY <1>2, <1>3, <1>4

\* What the counters say of the vectors coded so far.
LEMMA CountersSay ==
  ASSUME Counters
  PROVE  /\ Coded \in 0 .. AllVectors /\ AllVectors \in 2 .. 10
         /\ subframe \in 0 .. 4 /\ subcount \in 0 .. 8
         /\ Residual!nfor \in 0 .. 4 /\ Residual!nback \in 0 .. 4
         /\ step \in {"state", "extra", "forward", "backward"}
         /\ step = "state" => Coded = 0 /\ subframe = 0 /\ subcount = 0
         /\ step = "extra" => Coded = 1 /\ subframe = 0 /\ subcount = 0
         /\ step = "forward" => /\ subframe \in 0 .. Residual!nfor /\ subcount = subframe
                                /\ Coded = 2 + subframe
         /\ step = "backward" => /\ subframe \in 0 .. Residual!nback
                                 /\ subcount = Residual!nfor + subframe
                                 /\ Coded = 2 + (Residual!nfor + subframe)
         /\ subframe > 0 => step \in {"forward", "backward"}
<1>1. PICK f \in 0 .. 4, b \in 0 .. 4 : f = Residual!nfor /\ b = Residual!nback
  BY FrameSizes DEF Counters
<1>2. AllVectors = 2 + f + b
  BY <1>1 DEF AllVectors
<1>3. CASE step \in {"state", "extra"} /\ subframe = 0 /\ subcount = 0
  BY <1>1, <1>2, <1>3 DEF Coded
<1>4. CASE step = "forward" /\ subframe \in 0 .. f /\ subcount = subframe
  BY <1>1, <1>2, <1>4 DEF Coded
<1>5. CASE step = "backward" /\ subframe \in 0 .. b /\ subcount = f + subframe
  BY <1>1, <1>2, <1>5 DEF Coded
<1> QED
  BY <1>1, <1>3, <1>4, <1>5 DEF Counters

\* The memory a subframe is coded from, on either side.
LEMMA ForwardMemory ==
  ASSUME Counters, Buffers, step = "forward", subframe < Residual!nfor,
         NEW m, m = IF subframe = 0 THEN Residual!Forward(decresidual, (start - 1) * 40, 80)
                    ELSE mem
  PROVE  m = MemoryOf(searched, Coded + 1) /\ Residual!Last(m, Residual!memLf) = m
<1>1. PICK f \in 0 .. 4, k \in 0 .. 4 :
        f = Residual!nfor /\ k = subframe /\ k < f /\ Coded = 2 + k
  BY CountersSay
<1>2. Residual!memLf = 147
  BY DEF Residual!memLf
<1>3. CASE k = 0
  <2>1. decresidual = TwoCoded
    BY <1>1, <1>3, FollowingGrows DEF Buffers, Counters
  <2>2. (start - 1) * 40 = TwoAt
    BY FrameSizes DEF TwoAt, Counters
  <2>3. m = Residual!Forward(TwoCoded, TwoAt, 80)
    BY <1>1, <1>3, <2>1, <2>2
  <2>4. Coded + 1 = 3 /\ f > 0
    BY <1>1, <1>3
  <2>5. MemoryOf(searched, 3) = Residual!Forward(TwoCoded, TwoAt, 80)
    BY <1>1, <2>4 DEF MemoryOf
  <2> QED BY <1>2, <2>3, <2>4, <2>5, WholeMemory
<1>4. CASE k > 0
  <2>1. m = Residual!Slide(searched[2 + k].memory, 1 + k)
    <3>1. m = mem /\ subframe > 0 /\ Coded - 1 = 1 + k
      BY <1>1, <1>4
    <3> QED BY <3>1, <1>1 DEF Buffers
  <2>2. /\ Coded + 1 = 3 + k /\ 3 + k # 1 /\ 3 + k # 2 /\ 3 + k # 3 /\ 3 + k # 3 + f
        /\ (3 + k) - 1 = 2 + k /\ (3 + k) - 2 = 1 + k
    BY <1>1, <1>4
  <2>3. MemoryOf(searched, 3 + k) = Residual!Slide(searched[2 + k].memory, 1 + k)
    BY <1>1, <2>2 DEF MemoryOf
  <2> QED BY <1>2, <2>1, <2>2, <2>3, WholeMemory
<1> QED
  BY <1>3, <1>4

LEMMA BackwardMemory ==
  ASSUME Counters, Buffers, step = "backward", side # "done", subframe < Residual!nback,
         NEW m, m = IF subframe = 0
                    THEN Residual!Backward(decresidual, (start - 1) * 40, Residual!memlGotten)
                    ELSE mem
  PROVE  m = MemoryOf(searched, Coded + 1) /\ Residual!Last(m, Residual!memLf) = m
<1>1. PICK f \in 0 .. 4, k \in 0 .. 4 :
        f = Residual!nfor /\ k = subframe /\ Coded = 2 + (f + k)
  BY CountersSay
<1>2. Residual!memLf = 147
  BY DEF Residual!memLf
<1>3. CASE k = 0
  <2>1. decresidual = Following(Residual!nfor)
    BY DEF Buffers
  <2>2. (start - 1) * 40 = TwoAt
    BY FrameSizes DEF TwoAt, Counters
  <2>3. m = Residual!Backward(Following(Residual!nfor), TwoAt, Residual!memlGotten)
    BY <1>1, <1>3, <2>1, <2>2
  <2>4. Coded + 1 = 3 + f /\ 3 + f # 1 /\ 3 + f # 2 /\ ~(3 + f = 3 /\ f > 0)
    BY <1>1, <1>3
  <2>5. MemoryOf(searched, 3 + f)
        = Residual!Backward(Following(Residual!nfor), TwoAt, Residual!memlGotten)
    BY <1>1, <2>4 DEF MemoryOf
  <2> QED BY <1>2, <2>3, <2>4, <2>5, WholeMemory
<1>4. CASE k > 0
  <2> DEFINE i == 3 + (f + k)
  <2>1. m = Residual!Slide(searched[i - 1].memory, i - 2)
    <3>1. m = mem /\ subframe > 0 /\ Coded - 1 = i - 2 /\ Coded = i - 1
      BY <1>1, <1>4
    <3> QED BY <3>1, <1>1 DEF Buffers
  <2>2. /\ Coded + 1 = i /\ i # 1 /\ i # 2 /\ i # 3 /\ i # 3 + f
    BY <1>1, <1>4
  <2> HIDE DEF i
  <2>3. MemoryOf(searched, i) = Residual!Slide(searched[i - 1].memory, i - 2)
    BY <1>1, <2>2 DEF MemoryOf
  <2> QED BY <1>2, <2>1, <2>2, <2>3, WholeMemory
<1> QED
  BY <1>3, <1>4

\* A step of the encoder codes the next vector.
LEMMA EncoderStep ==
  ASSUME ResidualInv, side = "encode", side' = "encode",
         UNCHANGED <<mode, start, stateFirst, built>>,
         searched' = Append(searched, Vector(searched, Coded + 1)),
         Counters', Buffers', Coded' = Coded + 1
  PROVE  ResidualInv'
<1>1. /\ Len(searched) = Coded /\ Sequential(searched)
      /\ \A i \in 1 .. Len(searched) : searched[i] = Vector(searched, i)
  BY DEF ResidualInv, SearchedVectors
<1>2. /\ Sequential(searched') /\ Len(searched') = Coded + 1
      /\ \A i \in 1 .. Len(searched') : searched'[i] = Vector(searched, i)'
  BY <1>1, VectorsGrow
<1>3. SearchedVectors'
  BY <1>2 DEF SearchedVectors
<1>4. Sequential(built) /\ Len(built) = 0
  BY DEF ResidualInv, BuiltVectors
<1>5. Sequential(built)'
  BY <1>4 DEF Sequential
<1>6. Len(built') = 0
  BY <1>4
<1>7. BuiltVectors'
  BY <1>5, <1>6 DEF BuiltVectors
<1>8. Results'
  BY DEF Results
<1> QED
  BY <1>3, <1>7, <1>8 DEF ResidualInv

\* A step of the decoder uses the memory that vector was searched in.
LEMMA DecoderStep ==
  ASSUME ResidualInv, side = "decode", side' = "decode", Coded < AllVectors,
         UNCHANGED <<mode, start, stateFirst, searched, encoded>>,
         built' = Append(built, MemoryOf(searched, Coded + 1)),
         Counters', Buffers', Coded' = Coded + 1
  PROVE  ResidualInv'
<1>1. /\ Len(searched) = AllVectors /\ Sequential(searched)
      /\ \A i \in 1 .. Len(searched) : searched[i] = Vector(searched, i)
      /\ Len(built) = Coded /\ Sequential(built)
      /\ \A i \in 1 .. Len(built) : built[i] = searched[i].memory
  BY DEF ResidualInv, SearchedVectors, BuiltVectors
<1>2. PICK c \in 0 .. 10, a \in 2 .. 10 : c = Coded /\ a = AllVectors /\ c < a
  <2>1. Coded \in 0 .. AllVectors /\ AllVectors \in 2 .. 10
    BY CountersSay DEF ResidualInv
  <2> QED BY <2>1
<1>3. AllVectors' = AllVectors /\ Whole' = Whole
  BY SameFrame
<1>4. \A i \in 1 .. a : Vector(searched, i)' = Vector(searched, i)
  <2> TAKE i \in 1 .. a
  <2>1. i \in Int /\ i >= 1
    BY <1>2
  <2> QED BY <2>1, SameMemory
<1>5. SearchedVectors'
  <2>1. Sequential(searched)'
    BY <1>1 DEF Sequential
  <2>2. Len(searched') = AllVectors' /\ side' # "encode"
    BY <1>1, <1>3
  <2>3. \A i \in 1 .. Len(searched') : searched'[i] = Vector(searched, i)'
    BY <1>1, <1>2, <1>4
  <2> QED BY <2>1, <2>2, <2>3 DEF SearchedVectors
<1>6. searched[c + 1].memory = MemoryOf(searched, c + 1)
  BY <1>1, <1>2 DEF Vector
<1>7. /\ Sequential(built') /\ Len(built') = c + 1 /\ built'[c + 1] = searched[c + 1].memory
      /\ \A i \in 1 .. c : built'[i] = built[i]
  <2>1. PICK e : e = MemoryOf(searched, c + 1)
    OBVIOUS
  <2>2. built' = Append(built, e)
    BY <1>2, <2>1
  <2> QED BY <1>1, <1>2, <1>6, <2>1, <2>2, AppendGrows
<1>8. BuiltVectors'
  <2>1. \A i \in 1 .. (c + 1) : built'[i] = searched'[i].memory
    BY <1>1, <1>2, <1>7
  <2> QED BY <1>2, <1>7, <2>1 DEF BuiltVectors
<1>9. Results'
  BY <1>3 DEF Results, ResidualInv
<1> QED
  BY <1>5, <1>8, <1>9 DEF ResidualInv

\* The buffers after each kind of step, on either side.
LEMMA StateBuffers ==
  ASSUME Counters, Buffers, step = "state", step' = "extra",
         UNCHANGED <<mode, start, stateFirst, side, subframe, subcount, reverse>>,
         decresidual' = Residual!Put(decresidual, Residual!startPos, shortStateSamples, 0)
  PROVE  Counters' /\ Buffers' /\ Coded' = Coded + 1 /\ Coded = 0
<1>1. /\ subframe = 0 /\ subcount = 0 /\ side # "done"
      /\ side \in {"encode", "decode", "done"} /\ StatePlaced /\ Coded = 0
  BY CountersSay DEF Counters
<1>2. /\ StatePlaced' /\ Residual!nfor' = Residual!nfor /\ Residual!nback' = Residual!nback
      /\ StateCodedOnly' = StateCodedOnly
  BY <1>1, SameFrame
<1>3. Counters'
  BY <1>1, <1>2 DEF Counters
<1>4. decresidual' = StateCodedOnly' /\ reverse' = Residual!Silence'
  <2>1. decresidual = Residual!Silence /\ reverse = Residual!Silence
    BY DEF Buffers
  <2>2. decresidual' = StateCodedOnly
    BY <2>1 DEF StateCodedOnly
  <2> QED BY <1>2, <2>1, <2>2 DEF Residual!Silence, Residual!Samples, Residual!Zero
<1>5. Buffers'
  BY <1>1, <1>4 DEF Buffers
<1> QED
  BY <1>1, <1>3, <1>5 DEF Coded

LEMMA ExtraBuffers ==
  ASSUME Counters, step = "extra",
         step' = IF Residual!nfor > 0 THEN "forward" ELSE "backward",
         UNCHANGED <<mode, start, stateFirst, side, subframe, subcount>>,
         decresidual' = TwoCoded
  PROVE  Counters' /\ Buffers' /\ Coded' = Coded + 1 /\ Coded = 1
<1>1. /\ subframe = 0 /\ subcount = 0 /\ side # "done"
      /\ side \in {"encode", "decode", "done"} /\ StatePlaced /\ Coded = 1
  BY CountersSay DEF Counters
<1>2. /\ StatePlaced' /\ Residual!nfor' = Residual!nfor /\ Residual!nback' = Residual!nback
      /\ Following(subframe)' = Following(subframe')
      /\ Following(Residual!nfor)' = Following(Residual!nfor)
  BY <1>1, SameFrame
<1>3. PICK f \in 0 .. 4, b \in 0 .. 4 : f = Residual!nfor /\ b = Residual!nback
  BY <1>1, FrameSizes
<1>4. decresidual' = Following(0)
  BY <1>1, FollowingGrows
<1>5. CASE f > 0
  <2>1. step' = "forward" /\ 0 \in 0 .. f
    BY <1>3, <1>5
  <2>2. Counters'
    BY <1>1, <1>2, <1>3, <2>1 DEF Counters
  <2>3. decresidual' = Following(subframe)'
    BY <1>1, <1>2, <1>4
  <2>4. Buffers'
    BY <1>1, <2>1, <2>3 DEF Buffers
  <2> QED BY <1>1, <2>1, <2>2, <2>4 DEF Coded
<1>6. CASE ~(f > 0)
  <2>1. step' = "backward" /\ f = 0 /\ 0 \in 0 .. b
    BY <1>3, <1>6
  <2>2. Counters'
    BY <1>1, <1>2, <1>3, <2>1 DEF Counters
  <2>3. decresidual' = Following(Residual!nfor)'
    BY <1>2, <1>3, <1>4, <2>1
  <2>4. Reversed(reverse, subframe, Residual!nfor)'
    BY <1>1 DEF Reversed
  <2>5. ~(subframe' > 0)
    BY <1>1
  <2>6. Buffers'
    BY <1>1, <2>1, <2>3, <2>4, <2>5 DEF Buffers
  <2> QED BY <1>1, <2>1, <2>2, <2>6 DEF Coded
<1> QED
  BY <1>5, <1>6

LEMMA ForwardBuffers ==
  ASSUME Counters, Buffers, step = "forward", subframe < Residual!nfor,
         UNCHANGED <<mode, start, stateFirst, side, step>>,
         subframe' = subframe + 1, subcount' = subcount + 1,
         decresidual' = Residual!Put(decresidual, (start + 1 + subframe) * 40, 40,
                                     2 + subcount),
         mem' = Residual!Slide(searched'[Coded + 1].memory, 2 + subcount)
  PROVE  Counters' /\ Buffers' /\ Coded' = Coded + 1
<1>1. PICK f \in 0 .. 4, b \in 0 .. 4, k \in 0 .. 4 :
        /\ f = Residual!nfor /\ b = Residual!nback /\ k = subframe /\ k < f
        /\ subcount = k /\ Coded = 2 + k
  BY CountersSay
<1>2. /\ StatePlaced /\ side # "done" /\ side \in {"encode", "decode", "done"}
  BY DEF Counters
<1>3. /\ StatePlaced' /\ Residual!nfor' = f /\ Residual!nback' = b
      /\ Following(subframe)' = Following(subframe')
  BY <1>1, <1>2, SameFrame
<1>4. subframe' = k + 1 /\ subcount' = k + 1 /\ k + 1 \in 0 .. f /\ step' = "forward"
  BY <1>1
<1>5. Counters'
  BY <1>2, <1>3, <1>4 DEF Counters
<1>6. decresidual' = Following(k + 1)
  <2>1. decresidual = Following(k) /\ k \in 0 .. (f - 1)
    BY <1>1 DEF Buffers
  <2> QED BY <1>1, <1>2, <2>1, FollowingGrows
<1>7. Coded' = 3 + k /\ Coded + 1 = 3 + k
  BY <1>1, <1>4 DEF Coded
<1>8. mem' = Residual!Slide(searched[Coded].memory, Coded - 1)'
  <2>1. (3 + k) - 1 = 2 + subcount
    BY <1>1
  <2>2. mem' = Residual!Slide(searched'[3 + k].memory, (3 + k) - 1)
    BY <1>7, <2>1
  <2> QED BY <1>7, <2>2 DEF Residual!Slide, Residual!Memory
<1>9. Buffers'
  BY <1>3, <1>4, <1>6, <1>8 DEF Buffers
<1> QED
  BY <1>5, <1>7, <1>9

LEMMA BackwardBuffers ==
  ASSUME Counters, Buffers, step = "backward", side # "done", subframe < Residual!nback,
         UNCHANGED <<mode, start, stateFirst, side, step, decresidual>>,
         subframe' = subframe + 1, subcount' = subcount + 1,
         NEW r, subframe > 0 => r = reverse,
         reverse' = Residual!Put(r, subframe * 40, 40, 2 + subcount),
         mem' = Residual!Slide(searched'[Coded + 1].memory, 2 + subcount)
  PROVE  Counters' /\ Buffers' /\ Coded' = Coded + 1
<1>1. PICK f \in 0 .. 4, b \in 0 .. 4, k \in 0 .. 4 :
        /\ f = Residual!nfor /\ b = Residual!nback /\ k = subframe /\ k < b
        /\ subcount = f + k /\ Coded = 2 + (f + k)
  BY CountersSay
<1>2. /\ StatePlaced /\ side \in {"encode", "decode", "done"}
  BY DEF Counters
<1>3. /\ StatePlaced' /\ Residual!nfor' = f /\ Residual!nback' = b
      /\ Following(Residual!nfor)' = Following(Residual!nfor)
  BY <1>1, <1>2, SameFrame
<1>4. /\ subframe' = k + 1 /\ subcount' = f + (k + 1) /\ k + 1 \in 0 .. b
      /\ step' = "backward"
  BY <1>1
<1>5. Counters'
  BY <1>2, <1>3, <1>4 DEF Counters
<1>6. decresidual' = Following(Residual!nfor)'
  BY <1>3 DEF Buffers
<1>7. Coded' = 3 + (f + k) /\ Coded + 1 = 3 + (f + k)
  BY <1>1, <1>4 DEF Coded
<1>8. mem' = Residual!Slide(searched[Coded].memory, Coded - 1)'
  <2>1. (3 + (f + k)) - 1 = 2 + subcount
    BY <1>1
  <2>2. mem' = Residual!Slide(searched'[3 + (f + k)].memory, (3 + (f + k)) - 1)
    BY <1>7, <2>1
  <2> QED BY <1>7, <2>2 DEF Residual!Slide, Residual!Memory
<1>9. Reversed(reverse', k + 1, f)
  <2>1. Reversed(r, k, f)
    <3>1. CASE k > 0
      BY <1>1, <3>1 DEF Buffers
    <3>2. CASE k = 0
      BY <3>2 DEF Reversed
    <3> QED BY <3>1, <3>2
  <2>2. reverse' = Residual!Put(r, k * 40, 40, 2 + (f + k))
    BY <1>1
  <2> QED BY <2>1, <2>2, ReverseGrows
<1>10. Reversed(reverse, subframe, Residual!nfor)'
  BY <1>3, <1>4, <1>9 DEF Reversed
<1>11. Buffers'
  BY <1>4, <1>6, <1>8, <1>10 DEF Buffers
<1> QED
  BY <1>5, <1>7, <1>11

\* One lemma for each step of encodeFrame, ...
LEMMA EncodeStateInv ==
  ASSUME ResidualInv, Residual!EncodeState
  PROVE  ResidualInv'
<1>1. Residual!shortStateSamples = shortStateSamples /\ Counters /\ Buffers
  BY FrameSizes DEF ResidualInv, Counters
<1>2. /\ side = "encode" /\ step = "state" /\ step' = "extra"
      /\ UNCHANGED <<mode, start, stateFirst, side, subframe, subcount, mem, reverse, built>>
      /\ decresidual' = Residual!Put(decresidual, Residual!startPos, shortStateSamples, 0)
  BY <1>1 DEF Residual!EncodeState, Residual!frame
<1>3. Counters' /\ Buffers' /\ Coded' = Coded + 1 /\ Coded = 0
  BY <1>1, <1>2, StateBuffers
<1>4. searched' = Append(searched, Vector(searched, Coded + 1))
  <2>1. searched' = Append(searched, [memory |-> <<>>,
          target |-> [j \in 0 .. (shortStateSamples - 1) |-> Residual!startPos + j],
          filter |-> start - 1])
    BY <1>1 DEF Residual!EncodeState, Residual!Record
  <2>2. Vector(searched, 1) = [memory |-> <<>>,
          target |-> [j \in 0 .. (shortStateSamples - 1) |-> Residual!startPos + j],
          filter |-> start - 1]
    BY DEF Vector, MemoryOf, TargetOf, FilterOf
  <2>3. Coded + 1 = 1
    BY <1>3
  <2> QED BY <2>1, <2>2, <2>3
<1> QED
  BY <1>2, <1>3, <1>4, EncoderStep

\* The rest of the two subframes, whose memory is the state.
LEMMA ExtraCoded ==
  ASSUME Counters, Buffers, step = "extra"
  PROVE  /\ stateFirst = 1 =>
              /\ Residual!Last(Residual!Forward(decresidual, Residual!startPos,
                   Residual!shortStateSamples), Residual!stMemL) = MemoryOf(searched, Coded + 1)
              /\ Residual!Put(decresidual, Residual!startPos + Residual!shortStateSamples,
                   Residual!diff, 1) = TwoCoded
         /\ stateFirst = 0 =>
              /\ Residual!Last(Residual!Backward(decresidual, Residual!startPos,
                   Residual!shortStateSamples), Residual!stMemL) = MemoryOf(searched, Coded + 1)
              /\ [i \in Residual!Samples |->
                   IF Residual!startPos - 1 - i \in 0 .. (Residual!diff - 1)
                   THEN Residual!Put(reverse, 0, Residual!diff, 1)[Residual!startPos - 1 - i]
                   ELSE decresidual[i]] = TwoCoded
<1>1. /\ Residual!shortStateSamples = shortStateSamples /\ Residual!stMemL = 85
      /\ decresidual = StateCodedOnly /\ reverse = Residual!Silence /\ Coded + 1 = 2
  BY FrameSizes, CountersSay DEF Counters, Buffers, Residual!stMemL
<1>2. MemoryOf(searched, 2) = Residual!Last(ExtraMemory, 85)
  BY DEF MemoryOf
<1>3. CASE stateFirst = 1
  BY <1>1, <1>2, <1>3 DEF ExtraMemory, TwoCoded
<1>4. CASE stateFirst = 0
  <2>1. stateFirst # 1
    BY <1>4
  <2> QED BY <1>1, <1>2, <2>1 DEF ExtraMemory, TwoCoded
<1> QED
  BY <1>3, <1>4

LEMMA EncodeExtraAfterInv ==
  ASSUME ResidualInv, Residual!EncodeExtraAfter
  PROVE  ResidualInv'
<1>1. /\ Counters /\ Buffers /\ side = "encode" /\ step = "extra" /\ stateFirst = 1
      /\ UNCHANGED <<mode, start, stateFirst, side, subframe, subcount, reverse, built>>
      /\ step' = IF Residual!nfor > 0 THEN "forward" ELSE "backward"
      /\ decresidual' = Residual!Put(decresidual,
           Residual!startPos + Residual!shortStateSamples, Residual!diff, 1)
  BY DEF Residual!EncodeExtraAfter, Residual!frame, ResidualInv
<1>2. decresidual' = TwoCoded
  BY <1>1, ExtraCoded
<1>3. Counters' /\ Buffers' /\ Coded' = Coded + 1 /\ Coded = 1
  BY <1>1, <1>2, ExtraBuffers
<1>4. searched' = Append(searched, Vector(searched, Coded + 1))
  <2>1. PICK m : m = Residual!Last(Residual!Forward(decresidual, Residual!startPos,
                       Residual!shortStateSamples), Residual!stMemL)
    OBVIOUS
  <2>2. m = MemoryOf(searched, 2)
    <3>1. Coded + 1 = 2
      BY <1>3
    <3> QED BY <1>1, <2>1, <3>1, ExtraCoded
  <2>3. Residual!shortStateSamples = shortStateSamples
    BY <1>1, FrameSizes DEF Counters
  <2>4. searched' = Append(searched, [memory |-> m,
          target |-> [j \in 0 .. (Residual!diff - 1) |->
                        Residual!startPos + shortStateSamples + j],
          filter |-> start])
    BY <2>1, <2>3 DEF Residual!EncodeExtraAfter, Residual!Record
  <2>5. Vector(searched, 2) = [memory |-> m,
          target |-> [j \in 0 .. (Residual!diff - 1) |->
                        Residual!startPos + shortStateSamples + j],
          filter |-> start]
    BY <1>1, <2>2 DEF Vector, TargetOf, FilterOf
  <2>6. Coded + 1 = 2
    BY <1>3
  <2> QED BY <2>4, <2>5, <2>6
<1> QED
  BY <1>1, <1>3, <1>4, EncoderStep

LEMMA EncodeExtraBeforeInv ==
  ASSUME ResidualInv, Residual!EncodeExtraBefore
  PROVE  ResidualInv'
<1>1. /\ Counters /\ Buffers /\ side = "encode" /\ step = "extra" /\ stateFirst = 0
      /\ UNCHANGED <<mode, start, stateFirst, side, subframe, subcount, built>>
      /\ step' = IF Residual!nfor > 0 THEN "forward" ELSE "backward"
      /\ decresidual' = [i \in Residual!Samples |->
           IF Residual!startPos - 1 - i \in 0 .. (Residual!diff - 1)
           THEN Residual!Put(reverse, 0, Residual!diff, 1)[Residual!startPos - 1 - i]
           ELSE decresidual[i]]
  BY DEF Residual!EncodeExtraBefore, Residual!frame, ResidualInv
<1>2. decresidual' = TwoCoded
  BY <1>1, ExtraCoded
<1>3. Counters' /\ Buffers' /\ Coded' = Coded + 1 /\ Coded = 1
  BY <1>1, <1>2, ExtraBuffers
<1>4. searched' = Append(searched, Vector(searched, Coded + 1))
  <2>1. PICK m : m = Residual!Last(Residual!Backward(decresidual, Residual!startPos,
                       Residual!shortStateSamples), Residual!stMemL)
    OBVIOUS
  <2>2. m = MemoryOf(searched, 2)
    <3>1. Coded + 1 = 2
      BY <1>3
    <3> QED BY <1>1, <2>1, <3>1, ExtraCoded
  <2>3. PICK t : t = [j \in 0 .. (Residual!diff - 1) |->
                        (start + 1) * 40 - 1 - (j + Residual!shortStateSamples)]
    OBVIOUS
  <2>4. t = [j \in 0 .. (Residual!diff - 1) |-> Residual!startPos - 1 - j]
    <3>1. PICK a \in 0 .. 160, l \in {57, 58}, s \in Int :
            /\ a = TwoAt /\ l = shortStateSamples /\ s = start /\ a = 40 * (s - 1)
            /\ Residual!shortStateSamples = l /\ Residual!diff = 80 - l
            /\ Residual!startPos = a + 80 - l
      BY <1>1, FrameSizes DEF Counters
    <3>2. \A j \in 0 .. (80 - l - 1) :
            (s + 1) * 40 - 1 - (j + l) = a + 80 - l - 1 - j
      BY <3>1
    <3> QED BY <2>3, <3>1, <3>2
  <2>5. searched' = Append(searched, [memory |-> m, target |-> t, filter |-> start - 1])
    BY <2>1, <2>3 DEF Residual!EncodeExtraBefore, Residual!Record
  <2>6. Vector(searched, 2) = [memory |-> m, target |-> t, filter |-> start - 1]
    BY <1>1, <2>2, <2>4 DEF Vector, TargetOf, FilterOf
  <2>7. Coded + 1 = 2
    BY <1>3
  <2> QED BY <2>5, <2>6, <2>7
<1> QED
  BY <1>1, <1>3, <1>4, EncoderStep

\* The vector just coded is in the encoder's history.
LEMMA JustCoded ==
  ASSUME ResidualInv, side = "encode", UNCHANGED <<mode, start, stateFirst>>,
         searched' = Append(searched, Vector(searched, Coded + 1))
  PROVE  searched'[Coded + 1].memory = MemoryOf(searched, Coded + 1)
<1>1. /\ Len(searched) = Coded /\ Sequential(searched)
      /\ \A i \in 1 .. Len(searched) : searched[i] = Vector(searched, i)
  BY DEF ResidualInv, SearchedVectors
<1> QED
  BY <1>1, VectorsGrow

LEMMA EncodeForwardInv ==
  ASSUME ResidualInv, Residual!EncodeForward
  PROVE  ResidualInv'
<1>1. PICK m : m = IF subframe = 0
                   THEN Residual!Forward(decresidual, (start - 1) * 40, 80) ELSE mem
  OBVIOUS
<1>2. /\ Counters /\ Buffers /\ side = "encode" /\ side' = "encode"
      /\ step = "forward" /\ subframe < Residual!nfor
      /\ UNCHANGED <<mode, start, stateFirst, side, step, built>>
      /\ subframe' = subframe + 1 /\ subcount' = subcount + 1
      /\ decresidual' = Residual!Put(decresidual, (start + 1 + subframe) * 40, 40, 2 + subcount)
      /\ mem' = Residual!Slide(m, 2 + subcount)
  BY <1>1 DEF Residual!EncodeForward, Residual!frame, ResidualInv
<1>3. m = MemoryOf(searched, Coded + 1) /\ Residual!Last(m, Residual!memLf) = m
  BY <1>1, <1>2, ForwardMemory
<1>4. searched' = Append(searched, Vector(searched, Coded + 1))
  <2>1. PICK t : t = [j \in 0 .. 39 |-> (start + 1 + subframe) * 40 + j]
    OBVIOUS
  <2>2. searched' = Append(searched, [memory |-> Residual!Last(m, Residual!memLf),
                                      target |-> t, filter |-> start + 1 + subframe])
    BY <1>1, <2>1 DEF Residual!EncodeForward, Residual!Record
  <2>3. PICK f \in 0 .. 4, k \in 0 .. 4, s \in Int :
          /\ f = Residual!nfor /\ k = subframe /\ k < f /\ Coded = 2 + k /\ s = start
          /\ TwoAt = 40 * (s - 1)
    BY <1>2, CountersSay, FrameSizes DEF Counters
  <2>4. /\ Coded + 1 = 3 + k /\ 3 + k # 1 /\ 3 + k # 2 /\ 3 + k <= 2 + f
        /\ s + (3 + k) - 2 = s + 1 + k
    BY <2>3
  <2>5. TargetOf(3 + k) = t
    <3>1. TargetOf(3 + k) = [j \in 0 .. 39 |-> 40 * (s - 1) + 80 + 40 * ((3 + k) - 3) + j]
      BY <2>3, <2>4 DEF TargetOf
    <3>2. \A j \in 0 .. 39 :
            40 * (s - 1) + 80 + 40 * ((3 + k) - 3) + j = (s + 1 + k) * 40 + j
      OBVIOUS
    <3> QED BY <2>1, <2>3, <3>1, <3>2
  <2>6. FilterOf(3 + k) = start + 1 + subframe
    BY <2>3, <2>4 DEF FilterOf
  <2>7. Vector(searched, 3 + k) = [memory |-> m, target |-> t, filter |-> start + 1 + subframe]
    BY <1>3, <2>4, <2>5, <2>6 DEF Vector
  <2> QED BY <1>3, <2>2, <2>4, <2>7
<1>5. searched'[Coded + 1].memory = m
  BY <1>2, <1>3, <1>4, JustCoded
<1>6. Counters' /\ Buffers' /\ Coded' = Coded + 1
  BY <1>2, <1>5, ForwardBuffers
<1> QED
  BY <1>2, <1>4, <1>6, EncoderStep

LEMMA EncodeBackwardInv ==
  ASSUME ResidualInv, Residual!EncodeBackward
  PROVE  ResidualInv'
<1>1. PICK m : m = IF subframe = 0
                   THEN Residual!Backward(decresidual, (start - 1) * 40, Residual!memlGotten)
                   ELSE mem
  OBVIOUS
<1>2. PICK r : r = IF subframe = 0
                   THEN [i \in Residual!Samples |->
                           IF i < 40 * Residual!nback
                           THEN decresidual[(start - 1) * 40 - 1 - i] ELSE reverse[i]]
                   ELSE reverse
  OBVIOUS
<1>3. /\ Counters /\ Buffers /\ side = "encode" /\ side' = "encode" /\ side # "done"
      /\ step = "backward" /\ subframe < Residual!nback
      /\ UNCHANGED <<mode, start, stateFirst, side, step, decresidual, built>>
      /\ subframe' = subframe + 1 /\ subcount' = subcount + 1
      /\ reverse' = Residual!Put(r, subframe * 40, 40, 2 + subcount)
      /\ mem' = Residual!Slide(m, 2 + subcount)
  BY <1>1, <1>2 DEF Residual!EncodeBackward, Residual!frame, ResidualInv
<1>4. m = MemoryOf(searched, Coded + 1) /\ Residual!Last(m, Residual!memLf) = m
  BY <1>1, <1>3, BackwardMemory
<1>5. searched' = Append(searched, Vector(searched, Coded + 1))
  <2>1. PICK t : t = [j \in 0 .. 39 |-> (start - 1) * 40 - 1 - subframe * 40 - j]
    OBVIOUS
  <2>2. searched' = Append(searched, [memory |-> Residual!Last(m, Residual!memLf),
                                      target |-> t, filter |-> start - 2 - subframe])
    BY <1>1, <2>1 DEF Residual!EncodeBackward, Residual!Record, Residual!BackFilter
  <2>3. PICK f \in 0 .. 4, k \in 0 .. 4, s \in Int :
          /\ f = Residual!nfor /\ k = subframe /\ Coded = 2 + (f + k) /\ s = start
          /\ TwoAt = 40 * (s - 1)
    BY <1>3, CountersSay, FrameSizes DEF Counters
  <2> DEFINE i == 3 + (f + k)
  <2>4. /\ Coded + 1 = i /\ i # 1 /\ i # 2 /\ ~(i <= 2 + f) /\ s + 1 + f - i = s - 2 - k
        /\ i - 3 - f = k
    BY <2>3
  <2> HIDE DEF i
  <2>5. TargetOf(i) = t
    <3>1. TargetOf(i) = [j \in 0 .. 39 |-> 40 * (s - 1) - 1 - 40 * k - j]
      BY <2>3, <2>4 DEF TargetOf
    <3>2. \A j \in 0 .. 39 : 40 * (s - 1) - 1 - 40 * k - j = (s - 1) * 40 - 1 - k * 40 - j
      OBVIOUS
    <3> QED BY <2>1, <2>3, <3>1, <3>2
  <2>6. FilterOf(i) = start - 2 - subframe
    BY <2>3, <2>4 DEF FilterOf
  <2>7. Vector(searched, i) = [memory |-> m, target |-> t, filter |-> start - 2 - subframe]
    BY <1>4, <2>4, <2>5, <2>6 DEF Vector
  <2> QED BY <1>4, <2>2, <2>4, <2>7
<1>6. searched'[Coded + 1].memory = m
  BY <1>3, <1>4, <1>5, JustCoded
<1>7. subframe > 0 => r = reverse
  BY <1>2
<1>8. Counters' /\ Buffers' /\ Coded' = Coded + 1
  BY <1>3, <1>6, <1>7, BackwardBuffers
<1> QED
  BY <1>3, <1>5, <1>8, EncoderStep

\* The vectors stay when no vector is coded.
LEMMA VectorsStay ==
  ASSUME ResidualInv, UNCHANGED <<mode, start, stateFirst, searched, built>>
  PROVE  /\ Sequential(searched)' /\ Sequential(built)'
         /\ \A i \in 1 .. Len(searched') : searched'[i] = Vector(searched, i)'
         /\ \A i \in 1 .. Len(built') : built'[i] = searched'[i].memory
         /\ Len(searched') = Len(searched) /\ Len(built') = Len(built)
<1>1. /\ Sequential(searched) /\ Sequential(built)
      /\ \A i \in 1 .. Len(searched) : searched[i] = Vector(searched, i)
      /\ \A i \in 1 .. Len(built) : built[i] = searched[i].memory
  BY DEF ResidualInv, SearchedVectors, BuiltVectors
<1>2. \A i \in 1 .. Len(searched) : Vector(searched, i)' = Vector(searched, i)
  <2> TAKE i \in 1 .. Len(searched)
  <2>1. i \in Int /\ i >= 1
    OBVIOUS
  <2> QED BY <2>1, SameMemory
<1>3. Sequential(searched)' /\ Sequential(built)'
  BY <1>1 DEF Sequential
<1> QED
  BY <1>1, <1>2, <1>3

LEMMA ForwardDoneInv ==
  ASSUME ResidualInv, Residual!ForwardDone
  PROVE  ResidualInv'
<1>1. /\ Counters /\ Buffers /\ step = "forward" /\ subframe = Residual!nfor
      /\ subframe' = 0 /\ step' = "backward"
      /\ UNCHANGED <<mode, start, stateFirst, side, subcount, mem, decresidual, reverse,
                     searched, built, encoded>>
  BY DEF Residual!ForwardDone, Residual!frame, ResidualInv
<1>2. PICK f \in 0 .. 4, b \in 0 .. 4 :
        /\ f = Residual!nfor /\ b = Residual!nback /\ f = subframe /\ subcount = f
        /\ Coded = 2 + f
  BY <1>1, CountersSay
<1>3. StatePlaced /\ side # "done" /\ side \in {"encode", "decode", "done"}
  BY <1>1 DEF Counters
<1>4. /\ StatePlaced' /\ Residual!nfor' = f /\ Residual!nback' = b
      /\ Following(Residual!nfor)' = Following(Residual!nfor)
      /\ AllVectors' = AllVectors /\ Whole' = Whole
  BY <1>1, <1>2, <1>3, SameFrame
<1>5. subcount' = f + 0 /\ 0 \in 0 .. b /\ ~(0 > 0)
  BY <1>1, <1>2
<1>6. Counters'
  BY <1>1, <1>3, <1>4, <1>5 DEF Counters
<1>7. Coded' = Coded
  BY <1>1, <1>2 DEF Coded
<1>8. Buffers'
  <2>1. Reversed(reverse, subframe, Residual!nfor)'
    BY <1>1 DEF Reversed
  <2>2. decresidual' = Following(Residual!nfor)'
    BY <1>1, <1>4 DEF Buffers
  <2> QED BY <1>1, <1>5, <2>1, <2>2 DEF Buffers
<1>9. SearchedVectors' /\ BuiltVectors'
  BY <1>1, <1>4, <1>7, VectorsStay DEF SearchedVectors, BuiltVectors, ResidualInv
<1>10. Results'
  BY <1>1, <1>3, <1>4 DEF Results, ResidualInv
<1> QED
  BY <1>6, <1>8, <1>9, <1>10 DEF ResidualInv

LEMMA EncodeFinishInv ==
  ASSUME ResidualInv, Residual!EncodeFinish
  PROVE  ResidualInv'
<1>1. /\ Counters /\ Buffers /\ step = "backward" /\ subframe = Residual!nback
      /\ side = "encode" /\ side' = "decode" /\ step' = "state"
      /\ subframe' = 0 /\ subcount' = 0 /\ encoded' = Residual!Unreversed
      /\ decresidual' = Residual!Silence /\ reverse' = Residual!Silence
      /\ UNCHANGED <<mode, start, stateFirst, searched, built>>
  BY DEF Residual!EncodeFinish, Residual!frame, ResidualInv
<1>2. PICK f \in 0 .. 4, b \in 0 .. 4 :
        /\ f = Residual!nfor /\ b = Residual!nback /\ b = subframe /\ Coded = 2 + (f + b)
  BY <1>1, CountersSay
<1>3. StatePlaced
  BY <1>1 DEF Counters
<1>4. StatePlaced' /\ AllVectors' = AllVectors /\ Whole' = Whole
  BY <1>1, <1>3, SameFrame
<1>5. Counters'
  BY <1>1, <1>4 DEF Counters
<1>6. encoded' = Whole
  <2>1. decresidual = Following(Residual!nfor)
        /\ Reversed(reverse, Residual!nback, Residual!nfor)
    BY <1>1 DEF Buffers
  <2> QED BY <1>1, <1>3, <2>1, UnreversedIsWhole
<1>7. Buffers'
  BY <1>1 DEF Buffers, Residual!Silence, Residual!Samples, Residual!Zero
<1>8. Coded = AllVectors /\ Coded' = 0
  BY <1>1, <1>2 DEF AllVectors, Coded
<1>9. SearchedVectors' /\ BuiltVectors'
  BY <1>1, <1>4, <1>8, VectorsStay DEF SearchedVectors, BuiltVectors, ResidualInv
<1>10. Results'
  BY <1>1, <1>4, <1>6 DEF Results
<1> QED
  BY <1>5, <1>7, <1>9, <1>10 DEF ResidualInv

\* The decoder's next vector is in the encoder's history.
LEMMA WasCoded ==
  ASSUME ResidualInv, side = "decode", Coded < AllVectors, searched' = searched
  PROVE  searched'[Coded + 1].memory = MemoryOf(searched, Coded + 1)
<1>1. PICK c \in 0 .. 10, a \in 2 .. 10 : c = Coded /\ a = AllVectors /\ c < a
  <2>1. Coded \in 0 .. AllVectors /\ AllVectors \in 2 .. 10
    BY CountersSay DEF ResidualInv
  <2> QED BY <2>1
<1>2. /\ Len(searched) = a /\ \A i \in 1 .. Len(searched) : searched[i] = Vector(searched, i)
  BY <1>1 DEF ResidualInv, SearchedVectors
<1>3. searched[c + 1] = Vector(searched, c + 1)
  BY <1>1, <1>2
<1> QED
  BY <1>1, <1>3 DEF Vector

\* ... and of decode.
LEMMA DecodeStateInv ==
  ASSUME ResidualInv, Residual!DecodeState
  PROVE  ResidualInv'
<1>1. Residual!shortStateSamples = shortStateSamples /\ Counters /\ Buffers
  BY FrameSizes DEF ResidualInv, Counters
<1>2. /\ side = "decode" /\ side' = "decode" /\ step = "state" /\ step' = "extra"
      /\ UNCHANGED <<mode, start, stateFirst, side, subframe, subcount, reverse, searched,
                     encoded>>
      /\ decresidual' = Residual!Put(decresidual, Residual!startPos, shortStateSamples, 0)
      /\ built' = Append(built, <<>>)
  BY <1>1 DEF Residual!DecodeState, Residual!frame
<1>3. Counters' /\ Buffers' /\ Coded' = Coded + 1 /\ Coded = 0
  BY <1>1, <1>2, StateBuffers
<1>4. Coded + 1 = 1 /\ Coded < AllVectors
  BY <1>1, <1>3, CountersSay
<1>5. MemoryOf(searched, 1) = <<>>
  BY DEF MemoryOf
<1>6. built' = Append(built, MemoryOf(searched, Coded + 1))
  BY <1>2, <1>4, <1>5
<1> QED
  BY <1>2, <1>3, <1>4, <1>6, DecoderStep

LEMMA DecodeExtraInv ==
  ASSUME ResidualInv, Residual!DecodeExtraAfter \/ Residual!DecodeExtraBefore
  PROVE  ResidualInv'
<1>1. /\ Counters /\ Buffers /\ side = "decode" /\ side' = "decode" /\ step = "extra"
      /\ UNCHANGED <<mode, start, stateFirst, side, subframe, subcount, searched, encoded>>
      /\ step' = IF Residual!nfor > 0 THEN "forward" ELSE "backward"
  BY DEF Residual!DecodeExtraAfter, Residual!DecodeExtraBefore, Residual!frame, ResidualInv
<1>2. decresidual' = TwoCoded /\ built' = Append(built, MemoryOf(searched, Coded + 1))
  <2>1. CASE Residual!DecodeExtraAfter
    <3>1. /\ stateFirst = 1
          /\ decresidual' = Residual!Put(decresidual,
               Residual!startPos + Residual!shortStateSamples, Residual!diff, 1)
          /\ built' = Append(built, Residual!Last(Residual!Forward(decresidual,
               Residual!startPos, Residual!shortStateSamples), Residual!stMemL))
      BY <2>1 DEF Residual!DecodeExtraAfter
    <3> QED BY <1>1, <3>1, ExtraCoded
  <2>2. CASE Residual!DecodeExtraBefore
    <3>1. /\ stateFirst = 0
          /\ decresidual' = [i \in Residual!Samples |->
               IF Residual!startPos - 1 - i \in 0 .. (Residual!diff - 1)
               THEN Residual!Put(reverse, 0, Residual!diff, 1)[Residual!startPos - 1 - i]
               ELSE decresidual[i]]
          /\ built' = Append(built, Residual!Last(Residual!Backward(decresidual,
               Residual!startPos, Residual!shortStateSamples), Residual!stMemL))
      BY <2>2 DEF Residual!DecodeExtraBefore
    <3> QED BY <1>1, <3>1, ExtraCoded
  <2> QED BY <2>1, <2>2
<1>3. Counters' /\ Buffers' /\ Coded' = Coded + 1 /\ Coded = 1
  BY <1>1, <1>2, ExtraBuffers
<1>4. Coded < AllVectors
  BY <1>1, <1>3, CountersSay
<1> QED
  BY <1>1, <1>2, <1>3, <1>4, DecoderStep

LEMMA DecodeForwardInv ==
  ASSUME ResidualInv, Residual!DecodeForward
  PROVE  ResidualInv'
<1>1. PICK m : m = IF subframe = 0
                   THEN Residual!Forward(decresidual, (start - 1) * 40, 80) ELSE mem
  OBVIOUS
<1>2. /\ Counters /\ Buffers /\ side = "decode" /\ side' = "decode"
      /\ step = "forward" /\ subframe < Residual!nfor
      /\ UNCHANGED <<mode, start, stateFirst, side, step, searched, encoded>>
      /\ subframe' = subframe + 1 /\ subcount' = subcount + 1
      /\ decresidual' = Residual!Put(decresidual, (start + 1 + subframe) * 40, 40, 2 + subcount)
      /\ mem' = Residual!Slide(m, 2 + subcount)
      /\ built' = Append(built, Residual!Last(m, Residual!memLf))
  BY <1>1 DEF Residual!DecodeForward, Residual!frame, ResidualInv
<1>3. m = MemoryOf(searched, Coded + 1) /\ Residual!Last(m, Residual!memLf) = m
  BY <1>1, <1>2, ForwardMemory
<1>4. Coded < AllVectors
  <2>1. PICK f \in 0 .. 4, b \in 0 .. 4, k \in 0 .. 4 :
          /\ f = Residual!nfor /\ b = Residual!nback /\ k = subframe /\ k < f
          /\ Coded = 2 + k
    BY <1>2, CountersSay
  <2> QED BY <2>1 DEF AllVectors
<1>5. searched'[Coded + 1].memory = m
  BY <1>2, <1>3, <1>4, WasCoded
<1>6. Counters' /\ Buffers' /\ Coded' = Coded + 1
  BY <1>2, <1>5, ForwardBuffers
<1>7. built' = Append(built, MemoryOf(searched, Coded + 1))
  BY <1>2, <1>3
<1> QED
  BY <1>2, <1>4, <1>6, <1>7, DecoderStep

LEMMA DecodeBackwardInv ==
  ASSUME ResidualInv, Residual!DecodeBackward
  PROVE  ResidualInv'
<1>1. PICK m : m = IF subframe = 0
                   THEN Residual!Backward(decresidual, (start - 1) * 40, Residual!memlGotten)
                   ELSE mem
  OBVIOUS
<1>2. /\ Counters /\ Buffers /\ side = "decode" /\ side' = "decode" /\ side # "done"
      /\ step = "backward" /\ subframe < Residual!nback
      /\ UNCHANGED <<mode, start, stateFirst, side, step, decresidual, searched, encoded>>
      /\ subframe' = subframe + 1 /\ subcount' = subcount + 1
      /\ reverse' = Residual!Put(reverse, subframe * 40, 40, 2 + subcount)
      /\ mem' = Residual!Slide(m, 2 + subcount)
      /\ built' = Append(built, Residual!Last(m, Residual!memLf))
  BY <1>1 DEF Residual!DecodeBackward, Residual!frame, ResidualInv
<1>3. m = MemoryOf(searched, Coded + 1) /\ Residual!Last(m, Residual!memLf) = m
  BY <1>1, <1>2, BackwardMemory
<1>4. Coded < AllVectors
  <2>1. PICK f \in 0 .. 4, b \in 0 .. 4, k \in 0 .. 4 :
          /\ f = Residual!nfor /\ b = Residual!nback /\ k = subframe /\ k < b
          /\ Coded = 2 + (f + k)
    BY <1>2, CountersSay
  <2> QED BY <2>1 DEF AllVectors
<1>5. searched'[Coded + 1].memory = m
  BY <1>2, <1>3, <1>4, WasCoded
<1>6. PICK r : r = reverse
  OBVIOUS
<1>7. reverse' = Residual!Put(r, subframe * 40, 40, 2 + subcount)
      /\ mem' = Residual!Slide(searched'[Coded + 1].memory, 2 + subcount)
  BY <1>2, <1>5, <1>6
<1>8. Counters' /\ Buffers' /\ Coded' = Coded + 1
  BY <1>2, <1>6, <1>7, BackwardBuffers
<1>9. built' = Append(built, MemoryOf(searched, Coded + 1))
  BY <1>2, <1>3
<1> QED
  BY <1>2, <1>4, <1>8, <1>9, DecoderStep

LEMMA DecodeFinishInv ==
  ASSUME ResidualInv, Residual!DecodeFinish
  PROVE  ResidualInv'
<1>1. /\ Counters /\ Buffers /\ step = "backward" /\ subframe = Residual!nback
      /\ side = "decode" /\ side' = "done" /\ decresidual' = Residual!Unreversed
      /\ UNCHANGED <<mode, start, stateFirst, step, subframe, subcount, mem, reverse,
                     searched, built, encoded>>
  BY DEF Residual!DecodeFinish, Residual!frame, ResidualInv
<1>2. PICK f \in 0 .. 4, b \in 0 .. 4 :
        /\ f = Residual!nfor /\ b = Residual!nback /\ b = subframe /\ subcount = f + b
        /\ Coded = 2 + (f + b)
  BY <1>1, CountersSay
<1>3. StatePlaced
  BY <1>1 DEF Counters
<1>4. /\ StatePlaced' /\ AllVectors' = AllVectors /\ Whole' = Whole
      /\ Residual!nfor' = f /\ Residual!nback' = b
  BY <1>1, <1>2, <1>3, SameFrame
<1>5. Counters'
  <2>1. subframe' \in 0 .. b /\ subcount' = f + subframe'
    BY <1>1, <1>2
  <2> QED BY <1>1, <1>2, <1>4, <2>1 DEF Counters
<1>6. decresidual' = Whole
  <2>1. decresidual = Following(Residual!nfor)
        /\ Reversed(reverse, Residual!nback, Residual!nfor)
    BY <1>1 DEF Buffers
  <2> QED BY <1>1, <1>3, <2>1, UnreversedIsWhole
<1>7. Coded' = Coded
  BY <1>1 DEF Coded
<1>8. Buffers'
  <2>1. Reversed(reverse, subframe, Residual!nfor)'
    BY <1>1, <1>2, <1>4 DEF Reversed, Buffers
  <2>2. subframe > 0 => mem' = Residual!Slide(searched[Coded].memory, Coded - 1)'
    <3>1. subframe > 0 => mem = Residual!Slide(searched[Coded].memory, Coded - 1)
      BY <1>1 DEF Buffers
    <3> QED BY <1>1, <1>7, <3>1 DEF Residual!Slide, Residual!Memory
  <2> QED BY <1>1, <2>1, <2>2 DEF Buffers
<1>9. SearchedVectors' /\ BuiltVectors'
  BY <1>1, <1>4, <1>7, VectorsStay DEF SearchedVectors, BuiltVectors, ResidualInv
<1>10. Results'
  BY <1>1, <1>4, <1>6 DEF Results, ResidualInv
<1> QED
  BY <1>5, <1>8, <1>9, <1>10 DEF ResidualInv

LEMMA ResidualInitInv == Residual!Init => ResidualInv
<1> HAVE Residual!Init
<1>1. /\ mode \in {20, 30} /\ start \in 1 .. (IF mode = 30 THEN 5 ELSE 3)
      /\ stateFirst \in {0, 1} /\ side = "encode" /\ step = "state" /\ subframe = 0
      /\ subcount = 0 /\ decresidual = Residual!Silence /\ reverse = Residual!Silence
      /\ searched = <<>> /\ built = <<>>
  BY DEF Residual!Init
<1>2. StatePlaced
  BY <1>1 DEF StatePlaced, subframes
<1>3. Counters /\ Coded = 0
  BY <1>1, <1>2 DEF Counters, Coded
<1>4. Buffers
  BY <1>1 DEF Buffers
<1>5. Sequential(<<>>) /\ Len(<<>>) = 0
  BY DEF Sequential
<1>6. SearchedVectors /\ BuiltVectors
  BY <1>1, <1>3, <1>5 DEF SearchedVectors, BuiltVectors
<1> QED
  BY <1>1, <1>3, <1>4, <1>6 DEF ResidualInv, Results

LEMMA ResidualKept ==
  ASSUME ResidualInv, UNCHANGED <<mode, start, stateFirst, residualVars>>
  PROVE  ResidualInv'
<1>1. /\ UNCHANGED <<mode, start, stateFirst>> /\ UNCHANGED <<searched, built>>
      /\ UNCHANGED <<side, step, subframe, subcount, mem, decresidual, reverse, encoded>>
  BY DEF residualVars
<1>2. /\ (StatePlaced' <=> StatePlaced) /\ Residual!nfor' = Residual!nfor
      /\ Residual!nback' = Residual!nback /\ StateCodedOnly' = StateCodedOnly
      /\ Whole' = Whole /\ AllVectors' = AllVectors
      /\ Following(subframe)' = Following(subframe')
      /\ Following(Residual!nfor)' = Following(Residual!nfor)
  BY <1>1, SameFrame
<1>3. Coded' = Coded
  BY <1>1 DEF Coded
<1>4. Counters'
  BY <1>1, <1>2 DEF Counters, ResidualInv
<1>5. Buffers'
  <2>1. Buffers
    BY DEF ResidualInv
  <2>2. step = "backward" => Reversed(reverse, subframe, Residual!nfor)'
    BY <1>1, <1>2, <2>1 DEF Reversed, Buffers
  <2>3. subframe > 0 => mem' = Residual!Slide(searched[Coded].memory, Coded - 1)'
    <3>1. subframe > 0 => mem = Residual!Slide(searched[Coded].memory, Coded - 1)
      BY <2>1 DEF Buffers
    <3> QED BY <1>1, <1>3, <3>1 DEF Residual!Slide, Residual!Memory
  <2>4. Residual!Silence' = Residual!Silence
    BY DEF Residual!Silence, Residual!Samples, Residual!Zero
  <2> QED BY <1>1, <1>2, <2>1, <2>2, <2>3, <2>4 DEF Buffers
<1>6. SearchedVectors' /\ BuiltVectors'
  BY <1>1, <1>2, <1>3, VectorsStay DEF SearchedVectors, BuiltVectors, ResidualInv
<1>7. Results'
  BY <1>1, <1>2 DEF Results, ResidualInv
<1> QED
  BY <1>4, <1>5, <1>6, <1>7 DEF ResidualInv

\* Each sample of the whole residual was coded by a vector searched for it.
LEMMA SampleInPlace ==
  ASSUME StatePlaced, NEW i \in 0 .. (40 * subframes - 1)
  PROVE  \E v \in 0 .. (AllVectors - 1), j \in Int :
           /\ Whole[i] = <<v, j>> /\ TargetOf(v + 1)[j] = i
           /\ v > 0 => FilterOf(v + 1) = i \div 40
<1>1. PICK a \in 0 .. 160, f \in 0 .. 4, b \in 0 .. 4, l \in {57, 58}, s \in Int,
           S \in Int :
        /\ a = TwoAt /\ f = Residual!nfor /\ b = Residual!nback /\ l = shortStateSamples
        /\ s = start /\ S = Residual!startPos /\ a = 40 * (s - 1) /\ b = s - 1
        /\ a + 80 + 40 * f = 40 * subframes /\ a + 80 + 40 * f <= 240
  <2>1. /\ TwoAt \in 0 .. 160 /\ Residual!nfor \in 0 .. 4 /\ Residual!nback \in 0 .. 4
        /\ shortStateSamples \in {57, 58} /\ start \in Int /\ Residual!startPos \in Int
        /\ TwoAt = 40 * Residual!nback /\ Residual!nback = start - 1
        /\ TwoAt + 80 + 40 * Residual!nfor = 40 * subframes /\ subframes \in {4, 6}
    BY FrameSizes
  <2> QED BY <2>1
<1>2. /\ Residual!diff = 80 - l /\ (stateFirst = 1 => S = a)
      /\ (stateFirst # 1 => S = a + 80 - l)
  BY <1>1, FrameSizes
<1>3. i \in Residual!Samples /\ i \in 0 .. 239 /\ i < a + 80 + 40 * f
  BY <1>1 DEF Residual!Samples
<1>4. AllVectors = 2 + f + b
  BY <1>1 DEF AllVectors
<1>5. CASE i < a
  <2>1. PICK q \in 0 .. (b - 1), r \in 0 .. 39 :
          a - 1 - i = 40 * q + r /\ q = (a - 1 - i) \div 40 /\ r = (a - 1 - i) % 40
    BY <1>1, <1>3, <1>5
  <2> DEFINE v == 2 + f + q
  <2>2. Whole[i] = <<v, r>>
    BY <1>1, <1>3, <1>5, <2>1 DEF Whole
  <2>3. /\ v \in 0 .. (2 + f + b - 1) /\ v + 1 # 1 /\ v + 1 # 2 /\ ~(v + 1 <= 2 + f)
        /\ (v + 1) - 3 - f = q /\ s + 1 + f - (v + 1) = s - 2 - q
    BY <2>1
  <2>4. i \div 40 = s - 2 - q
    BY <1>1, <2>1, <1>3
  <2>5. a - 1 - 40 * q - r = i
    BY <2>1, <1>3
  <2> HIDE DEF v
  <2>6. TargetOf(v + 1) = [j \in 0 .. 39 |-> a - 1 - 40 * q - j]
    BY <1>1, <2>3 DEF TargetOf
  <2>7. FilterOf(v + 1) = s - 2 - q
    BY <1>1, <2>3 DEF FilterOf
  <2>8. TargetOf(v + 1)[r] = i
    BY <2>5, <2>6
  <2> QED BY <1>4, <2>2, <2>3, <2>4, <2>7, <2>8
<1>6. CASE i >= a + 80
  <2>1. PICK q \in 0 .. (f - 1), r \in 0 .. 39 :
          i - a - 80 = 40 * q + r /\ q = (i - a - 80) \div 40 /\ r = (i - a - 80) % 40
    BY <1>1, <1>3, <1>6
  <2> DEFINE v == 2 + q
  <2>2. Whole[i] = <<v, r>>
    <3>1. ~(i < a) /\ i \in (a + 80) .. (a + 80 + 40 * f - 1)
      BY <1>3, <1>6
    <3>2. Whole[i] = Following(f)[i]
      BY <1>1, <1>3, <3>1 DEF Whole
    <3>3. Following(f)[i] = <<2 + (i - a - 80) \div 40, (i - a - 80) % 40>>
      BY <1>1, <1>3, <3>1 DEF Following
    <3> QED BY <2>1, <3>2, <3>3
  <2>3. /\ v \in 0 .. (2 + f + b - 1) /\ v + 1 # 1 /\ v + 1 # 2 /\ v + 1 <= 2 + f
        /\ (v + 1) - 3 = q /\ s + (v + 1) - 2 = s + 1 + q
    BY <2>1
  <2>4. i \div 40 = s + 1 + q
    BY <1>1, <2>1, <1>3
  <2>5. a + 80 + 40 * q + r = i
    BY <2>1, <1>3
  <2> HIDE DEF v
  <2>6. TargetOf(v + 1) = [j \in 0 .. 39 |-> a + 80 + 40 * q + j]
    BY <1>1, <2>3 DEF TargetOf
  <2>7. FilterOf(v + 1) = s + 1 + q
    BY <1>1, <2>3 DEF FilterOf
  <2>8. TargetOf(v + 1)[r] = i
    BY <2>5, <2>6
  <2> QED BY <1>4, <2>2, <2>3, <2>4, <2>7, <2>8
<1>7. CASE ~(i < a) /\ ~(i >= a + 80)
  <2>1. Whole[i] = TwoCoded[i]
    <3>1. ~(i \in (a + 80) .. (a + 80 + 40 * f - 1))
      BY <1>3, <1>7
    <3>2. Whole[i] = Following(f)[i]
      BY <1>1, <1>3, <1>7 DEF Whole
    <3> QED BY <1>1, <1>3, <3>1, <3>2 DEF Following
  <2>2. /\ TargetOf(1) = [j \in 0 .. (l - 1) |-> S + j]
        /\ FilterOf(2) = IF stateFirst = 1 THEN s ELSE s - 1
        /\ TargetOf(2) = [j \in 0 .. (80 - l - 1) |->
                            IF stateFirst = 1 THEN S + l + j ELSE S - 1 - j]
    BY <1>1, <1>2 DEF TargetOf, FilterOf
  <2>3. ASSUME i \in S .. (S + l - 1), TwoCoded[i] = StateCodedOnly[i]
        PROVE  Whole[i] = <<0, i - S>> /\ TargetOf(1)[i - S] = i
    <3>1. StateCodedOnly[i] = <<0, i - S>>
      BY <1>1, <1>3, <2>3 DEF StateCodedOnly, Residual!Put
    <3>2. i - S \in 0 .. (l - 1) /\ S + (i - S) = i
      BY <1>3, <2>3
    <3> QED BY <2>1, <2>2, <2>3, <3>1, <3>2
  <2>4. CASE stateFirst = 1
    <3>1. TwoCoded[i] = IF i \in (S + l) .. (S + l + (80 - l) - 1)
                        THEN <<1, i - (S + l)>> ELSE StateCodedOnly[i]
      BY <1>1, <1>2, <1>3, <2>4 DEF TwoCoded, Residual!Put
    <3>2. CASE i < S + l
      <4>1. i \in S .. (S + l - 1) /\ ~(i \in (S + l) .. (S + l + (80 - l) - 1))
        BY <1>2, <1>3, <1>7, <2>4, <3>2
      <4>2. Whole[i] = <<0, i - S>> /\ TargetOf(1)[i - S] = i
        BY <2>3, <3>1, <4>1
      <4>3. 0 \in 0 .. (AllVectors - 1) /\ i - S \in Int /\ 0 + 1 = 1
        BY <1>3, <1>4
      <4> QED BY <4>2, <4>3
    <3>3. CASE ~(i < S + l)
      <4>1. /\ i \in (S + l) .. (S + l + (80 - l) - 1)
            /\ i - (S + l) \in 0 .. (80 - l - 1) /\ S + l + (i - (S + l)) = i
        BY <1>2, <1>3, <1>7, <2>4, <3>3
      <4>2. Whole[i] = <<1, i - (S + l)>>
        BY <2>1, <3>1, <4>1
      <4>3. TargetOf(2)[i - (S + l)] = i
        BY <2>2, <2>4, <4>1
      <4>4. i \div 40 = s
        BY <1>1, <1>2, <1>3, <1>7, <2>4, <3>3
      <4>5. 1 \in 0 .. (AllVectors - 1) /\ i - (S + l) \in Int /\ 1 + 1 = 2
        BY <1>3, <1>4
      <4> QED BY <2>2, <2>4, <4>2, <4>3, <4>4, <4>5
    <3> QED BY <3>2, <3>3
  <2>5. CASE stateFirst # 1
    <3>1. TwoCoded[i] = IF S - 1 - i \in 0 .. (80 - l - 1)
                        THEN Residual!Put(Residual!Silence, 0, 80 - l, 1)[S - 1 - i]
                        ELSE StateCodedOnly[i]
      BY <1>1, <1>2, <1>3, <2>5 DEF TwoCoded
    <3>2. CASE ~(i < S)
      <4>1. i \in S .. (S + l - 1) /\ ~(S - 1 - i \in 0 .. (80 - l - 1))
        BY <1>2, <1>3, <1>7, <2>5, <3>2
      <4>2. Whole[i] = <<0, i - S>> /\ TargetOf(1)[i - S] = i
        BY <2>3, <3>1, <4>1
      <4>3. 0 \in 0 .. (AllVectors - 1) /\ i - S \in Int /\ 0 + 1 = 1
        BY <1>3, <1>4
      <4> QED BY <4>2, <4>3
    <3>3. CASE i < S
      <4>1. /\ S - 1 - i \in 0 .. (80 - l - 1) /\ S - 1 - (S - 1 - i) = i
        BY <1>2, <1>3, <1>7, <2>5, <3>3
      <4>2. PICK j \in 0 .. (80 - l - 1) : j = S - 1 - i
        BY <4>1
      <4>3. Residual!Put(Residual!Silence, 0, 80 - l, 1)[j] = <<1, j>>
        <5>1. j \in Residual!Samples /\ j \in 0 .. (0 + (80 - l) - 1) /\ j - 0 = j
          BY DEF Residual!Samples
        <5> QED BY <5>1 DEF Residual!Put
      <4>4. Whole[i] = <<1, j>>
        BY <2>1, <3>1, <4>2, <4>3
      <4>5. TargetOf(2)[j] = i
        BY <2>2, <2>5, <4>1, <4>2
      <4>6. i \div 40 = s - 1
        BY <1>1, <1>2, <1>3, <1>7, <2>5, <3>3
      <4>7. 1 \in 0 .. (AllVectors - 1) /\ j \in Int /\ 1 + 1 = 2
        BY <1>4
      <4> QED BY <2>2, <2>5, <4>4, <4>5, <4>6, <4>7
    <3> QED BY <3>2, <3>3
  <2> QED BY <2>4, <2>5
<1> QED
  BY <1>3, <1>5, <1>6, <1>7

\* What ResidualInv says of memories and samples.
LEMMA ResidualInvGives == ResidualInv => MemoriesAgree /\ RebuiltInPlace
<1> HAVE ResidualInv
<1>1. MemoriesAgree
  BY DEF ResidualInv, BuiltVectors, MemoriesAgree, Residual!MemoriesAgree
<1>2. ASSUME side = "done"
      PROVE  decresidual = Whole /\ encoded = Whole
  BY <1>2 DEF ResidualInv, Results
<1>3. ASSUME side = "done", NEW i \in 0 .. (Residual!FrameSamples - 1)
      PROVE  /\ Whole[i] # Residual!Zero
             /\ searched[Whole[i][1] + 1].target[Whole[i][2]] = i
             /\ Whole[i][1] > 0 => searched[Whole[i][1] + 1].filter = i \div 40
  <2>1. StatePlaced /\ i \in 0 .. (40 * subframes - 1)
    BY FrameSizes DEF ResidualInv, Counters
  <2>2. PICK v \in 0 .. (AllVectors - 1), j \in Int :
          /\ Whole[i] = <<v, j>> /\ TargetOf(v + 1)[j] = i
          /\ v > 0 => FilterOf(v + 1) = i \div 40
    BY <2>1, SampleInPlace
  <2>3. AllVectors \in 2 .. 10
    BY CountersSay DEF ResidualInv
  <2>4. /\ Len(searched) = AllVectors
        /\ \A k \in 1 .. Len(searched) : searched[k] = Vector(searched, k)
    BY <1>3 DEF ResidualInv, SearchedVectors
  <2>5. searched[v + 1] = Vector(searched, v + 1)
    BY <2>3, <2>4
  <2>6. searched[v + 1].target = TargetOf(v + 1) /\ searched[v + 1].filter = FilterOf(v + 1)
    BY <2>5 DEF Vector
  <2>7. <<v, j>> # <<-1, 0>>
    BY <2>3
  <2> QED BY <2>2, <2>6, <2>7 DEF Residual!Zero
<1>4. RebuiltInPlace
  <2> SUFFICES ASSUME side = "done"
               PROVE  /\ decresidual = encoded
                      /\ \A i \in 0 .. (Residual!FrameSamples - 1) :
                           /\ decresidual[i] # Residual!Zero
                           /\ searched[decresidual[i][1] + 1].target[decresidual[i][2]] = i
                           /\ decresidual[i][1] > 0 =>
                                searched[decresidual[i][1] + 1].filter = i \div 40
    BY DEF RebuiltInPlace, Residual!RebuiltInPlace
  <2>1. decresidual = Whole /\ encoded = Whole
    BY <1>2
  <2> QED BY <1>3, <2>1, Zenon
<1> QED
  BY <1>1, <1>4

\* Only CodeResidual and RebuildResidual touch the residual.
LEMMA ResidualNextInv ==
  ASSUME ResidualInv, [FrameNext]_frameVars
  PROVE  ResidualInv'
<1>1. CASE CodeResidual \/ RebuildResidual
  <2>1. Residual!Next
    BY <1>1 DEF CodeResidual, RebuildResidual
  <2> QED
    BY <2>1, EncodeStateInv, EncodeExtraAfterInv, EncodeExtraBeforeInv, EncodeForwardInv,
      ForwardDoneInv, EncodeBackwardInv, EncodeFinishInv, DecodeStateInv, DecodeExtraInv,
      DecodeForwardInv, DecodeBackwardInv, DecodeFinishInv DEF Residual!Next
<1>2. CASE CodeState
  <2>1. UNCHANGED <<mode, start, stateFirst>>
    BY <1>2 DEF CodeState, State!Next, State!Begin, State!Quantise, State!Construct
  <2> QED BY <1>2, <2>1, ResidualKept DEF CodeState
<1>3. CASE Transfer
  <2>1. UNCHANGED mode
    BY <1>3 DEF Transfer, Wire!Next, Wire!PackPart, Wire!PackFlag, Wire!PackNextByte,
      Wire!PackBits, Wire!PackReturn, Wire!UnpackPart, Wire!UnpackNextByte,
      Wire!UnpackBits, Wire!UnpackReturn
  <2> QED BY <1>3, <2>1, ResidualKept DEF Transfer
<1>4. CASE UNCHANGED frameVars
  BY <1>4, ResidualKept DEF frameVars
<1> QED
  BY <1>1, <1>2, <1>3, <1>4 DEF FrameNext, Done

\* The residual of one frame, on either side and at every step of it.
THEOREM ResidualInvHolds == FrameSpec => []ResidualInv
<1>1. FrameInit => ResidualInv
  BY ResidualInitInv DEF FrameInit
<1>2. ResidualInv /\ [FrameNext]_frameVars => ResidualInv'
  BY ResidualNextInv
<1> QED
  BY <1>1, <1>2, PTL DEF FrameSpec

\* Encoder and decoder fill and move the codebook memory with loops of their
\* own; what decode builds a vector from is always what encodeFrame searched
\* it in, wherever the start state lies in the frame.
THEOREM MemoriesHold == FrameSpec => []MemoriesAgree
<1>1. ResidualInv => MemoriesAgree
  BY ResidualInvGives
<1> QED
  BY <1>1, ResidualInvHolds, PTL

\* The residual decode ends with is sample for sample the one encodeFrame
\* kept, and each sample of the frame comes out of the vector that was
\* searched for it, under the filter of its subframe.
THEOREM RebuiltHolds == FrameSpec => []RebuiltInPlace
<1>1. ResidualInv => RebuiltInPlace
  BY ResidualInvGives
<1> QED
  BY <1>1, ResidualInvHolds, PTL
=============================================================================
