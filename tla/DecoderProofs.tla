--------------------------- MODULE DecoderProofs ---------------------------
(***************************************************************************)
(* Proofs about the decoder's stream history, for whatever lags the signal *)
(* makes the searches find and any sequence of losses.                     *)
(***************************************************************************)
EXTENDS Decoder, TLAPS

\* The inductive invariant: the state's ranges, the loss flags and the end of
\* the enhancer's buffer, with the properties of the last frame they imply.
FrameInv ==
  /\ AccessesInBounds
  /\ AttenuationExact
  /\ SynthesisAligned
IInv == TypeOK /\ LossFlagsAgree /\ BufferAligned /\ FrameInv

\* The sizes of either mode.
LEMMA ModeSizes ==
  ASSUME mode \in {20, 30}
  PROVE  \/ /\ mode = 20 /\ FrameSamples = 160 /\ Subframes = 4 /\ NewBlocks = 2
            /\ plcBlockl = 40 /\ corrLen = 40 /\ Delay = 1 /\ Centre = 11
         \/ /\ mode = 30 /\ FrameSamples = 240 /\ Subframes = 6 /\ NewBlocks = 3
            /\ plcBlockl = 80 /\ corrLen = 80 /\ Delay = 2 /\ Centre = 8
BY DEF FrameSamples, Subframes, NewBlocks, plcBlockl, corrLen, Delay, Centre

\* Tags stay tags.
LEMMA TagClosed ==
  /\ Blank \in Tag
  /\ \A t \in Tag : Older(t) \in Tag
  /\ \A s \in 0 .. 5 : Fresh(s) \in Tag
BY DEF Tag, Blank, Fresh, Older

\* A new or reset decoder satisfies the invariant.
LEMMA InitInvariant == Init => IInv
<1> HAVE Init
<1>1. mode \in {20, 30}
  BY DEF Init
<1>2. TypeOK
  <2>1. NoOutput \in [0 .. (Subframes - 1) -> [residual : Tag, coefs : Tag]]
    BY <1>1, ModeSizes, TagClosed DEF NoOutput
  <2>2. enhBuf \in [0 .. 15 -> Tag] /\ oldSyntdenum \in [0 .. 5 -> Tag]
    BY TagClosed DEF Init, NoResidual, NoCoefs
  <2>3. enhPeriod \in [0 .. 7 -> 19 .. 119]
    BY DEF Init, NoPeriods
  <2>4. /\ lastLag \in 20 .. 119 /\ prevLag \in 17 .. 122
        /\ consPLICount \in 0 .. 9 /\ run \in Nat /\ gain \in {0, 5, 7, 9, 10}
        /\ prevPLI \in {0, 1} /\ prevEnhPl \in {0, 1}
    BY DEF Init
  <2>5. enhancement \in {0, 1} /\ smoothed \subseteq Tag /\ out = NoOutput
    BY DEF Init
  <2> QED BY <1>1, <2>1, <2>2, <2>3, <2>4, <2>5 DEF TypeOK
<1>3. LossFlagsAgree /\ AttenuationExact /\ AccessesInBounds
  BY DEF Init, LossFlagsAgree, AttenuationExact, AccessesInBounds
<1>4. BufferAligned
  BY <1>1, ModeSizes DEF Init, BufferAligned, NoResidual, NoCoefs
<1>5. SynthesisAligned
  BY DEF Init, SynthesisAligned, NoOutput
<1> QED
  BY <1>2, <1>3, <1>4, <1>5 DEF IInv, FrameInv

InBounds(a) == 0 <= a.lo /\ a.lo <= a.hi /\ a.hi < a.size

\* What an access of a range with given ends amounts to.
LEMMA AccessBounds ==
  ASSUME NEW lo \in Int, NEW hi \in Int, NEW size \in Int,
         0 <= lo, lo <= hi, hi < size
  PROVE  InBounds(Access(lo, hi, size))
BY DEF InBounds, Access

\* The buffer after a shift holds tags, ends with the new frame, and continues
\* the saved coefficients at the enhancer's centre.
LEMMA ShiftedFacts ==
  ASSUME TypeOK, BufferAligned
  PROVE  /\ Shifted \in [0 .. 15 -> Tag]
         /\ \A s \in 0 .. (Subframes - 1) : Shifted[16 - Subframes + s] = Fresh(s)
         /\ enhancement = 1 => \A s \in 0 .. (Delay - 1) :
              Shifted[Centre + s] = Older(oldSyntdenum[s + Subframes - Delay])
         /\ \A s \in Delay .. (Subframes - 1) : Shifted[Centre + s] = Fresh(s - Delay)
<1>1. mode \in {20, 30} /\ enhBuf \in [0 .. 15 -> Tag]
  BY DEF TypeOK
<1>2. CASE mode = 20
  <2>1. Subframes = 4 /\ Delay = 1 /\ Centre = 11
    BY <1>2 DEF Subframes, Delay, Centre
  <2>2. Shifted = [s \in 0 .. 15 |-> IF s < 12 THEN Older(enhBuf[s + 4]) ELSE Fresh(s - 12)]
    BY <2>1 DEF Shifted
  <2>3. Shifted \in [0 .. 15 -> Tag]
    BY <2>2, <1>1, TagClosed
  <2>4. enhancement = 1 => enhBuf[15] = oldSyntdenum[3]
    BY <2>1 DEF BufferAligned
  <2>5. \A s \in 0 .. 3 : Shifted[12 + s] = Fresh(s)
    BY <2>2
  <2>6. Shifted[11] = Older(enhBuf[15])
    BY <2>2
  <2>7. \A s \in 1 .. 3 : Shifted[11 + s] = Fresh(s - 1)
    BY <2>2
  <2> QED BY <2>1, <2>3, <2>4, <2>5, <2>6, <2>7
<1>3. CASE mode = 30
  <2>1. Subframes = 6 /\ Delay = 2 /\ Centre = 8
    BY <1>3 DEF Subframes, Delay, Centre
  <2>2. Shifted = [s \in 0 .. 15 |-> IF s < 10 THEN Older(enhBuf[s + 6]) ELSE Fresh(s - 10)]
    BY <2>1 DEF Shifted
  <2>3. Shifted \in [0 .. 15 -> Tag]
    BY <2>2, <1>1, TagClosed
  <2>4. enhancement = 1 => enhBuf[14] = oldSyntdenum[4] /\ enhBuf[15] = oldSyntdenum[5]
    BY <2>1 DEF BufferAligned
  <2>5. \A s \in 0 .. 5 : Shifted[10 + s] = Fresh(s)
    BY <2>2
  <2>6. Shifted[8] = Older(enhBuf[14]) /\ Shifted[9] = Older(enhBuf[15])
    BY <2>2
  <2>7. \A s \in 2 .. 5 : Shifted[8 + s] = Fresh(s - 2)
    BY <2>2
  <2> QED BY <2>1, <2>3, <2>4, <2>5, <2>6, <2>7
<1> QED
  BY <1>1, <1>2, <1>3

\* Shifting the periods by N blocks and appending N new ones.
PeriodsAfter(old, new, N) ==
  [b \in 0 .. 7 |-> IF b < 8 - N THEN old[b + N] ELSE 2 * new[b - (8 - N)]]
LEMMA PeriodShift ==
  ASSUME NEW N \in {2, 3}, NEW old \in [0 .. 7 -> 19 .. 119],
         NEW new \in [0 .. (N - 1) -> 10 .. 59]
  PROVE  /\ PeriodsAfter(old, new, N) \in [0 .. 7 -> 19 .. 119]
         /\ PeriodsAfter(old, new, N)[8 - N] \in 20 .. 118
         /\ 2 * new[N - 1] \in 20 .. 118
<1>1. ASSUME NEW b \in 0 .. 7
      PROVE  (IF b < 8 - N THEN old[b + N] ELSE 2 * new[b - (8 - N)]) \in 19 .. 119
  <2>1. CASE b < 8 - N
    <3>1. b + N \in 0 .. 7
      BY <2>1
    <3>2. old[b + N] \in 19 .. 119
      BY <3>1, Zenon
    <3> QED BY <2>1, <3>2, Zenon
  <2>2. CASE ~(b < 8 - N)
    <3> DEFINE x == new[b - (8 - N)]
    <3>1. x \in 10 .. 59
      BY <2>2
    <3> HIDE DEF x
    <3>2. 2 * x \in 19 .. 119
      BY <3>1
    <3> QED BY <2>2, <3>2 DEF x
  <2> QED BY <2>1, <2>2
<1>2. PeriodsAfter(old, new, N) \in [0 .. 7 -> 19 .. 119]
  BY <1>1 DEF PeriodsAfter
<1>3. PeriodsAfter(old, new, N)[8 - N] = 2 * new[0]
  BY DEF PeriodsAfter
<1> DEFINE x == new[0]
           y == new[N - 1]
<1>4. x \in 10 .. 59 /\ y \in 10 .. 59
  OBVIOUS
<1> HIDE DEF x, y
<1>5. 2 * x \in 20 .. 118 /\ 2 * y \in 20 .. 118
  BY <1>4
<1> QED
  BY <1>2, <1>3, <1>5 DEF x, y

\* The periods stay in range, and the new ones are twice a half-rate lag.
LEMMA PeriodFacts ==
  ASSUME TypeOK, NEW periods \in [0 .. (NewBlocks - 1) -> HalfLags]
  PROVE  /\ ShiftedPeriods(periods) \in [0 .. 7 -> 19 .. 119]
         /\ ShiftedPeriods(periods)[8 - NewBlocks] \in 20 .. 118
         /\ 2 * periods[NewBlocks - 1] \in 20 .. 118
<1>1. NewBlocks \in {2, 3} /\ enhPeriod \in [0 .. 7 -> 19 .. 119]
  BY ModeSizes DEF TypeOK
<1>2. periods \in [0 .. (NewBlocks - 1) -> 10 .. 59]
  BY LagAssumption
<1>3. ShiftedPeriods(periods) = PeriodsAfter(enhPeriod, periods, NewBlocks)
  BY DEF ShiftedPeriods, PeriodsAfter
<1> QED
  <2>1. /\ PeriodsAfter(enhPeriod, periods, NewBlocks) \in [0 .. 7 -> 19 .. 119]
        /\ PeriodsAfter(enhPeriod, periods, NewBlocks)[8 - NewBlocks] \in 20 .. 118
        /\ 2 * periods[NewBlocks - 1] \in 20 .. 118
    BY <1>1, <1>2, PeriodShift
  <2> QED BY <1>3, <2>1, Zenon

\* The enhancer's reads stay inside its buffers.
LEMMA EnhanceBounds ==
  ASSUME mode \in {20, 30}, NEW inlag \in 20 .. 118
  PROVE  \A a \in EnhanceAccesses(inlag) : InBounds(a)
<1>1. InBounds(Access((8 - NewBlocks) * 80 - 126, 639, 640))
  BY ModeSizes, AccessBounds
<1>2. InBounds(Access(60 - 59, 60 + NewBlocks * 40 - 1, 180))
  BY ModeSizes, AccessBounds
<1>3. ASSUME NEW d \in -1 .. 1
      PROVE  \A a \in RecoverAccesses(inlag + d) : InBounds(a)
  <2>1. InBounds(Access(inlag + d, (inlag + d) + plcBlockl - 1, FrameSamples))
    BY ModeSizes, AccessBounds
  <2>2. InBounds(Access(640 - FrameSamples - plcBlockl, 639 - FrameSamples, 640))
    BY ModeSizes, AccessBounds
  <2> QED BY <2>1, <2>2 DEF RecoverAccesses
<1> QED
  BY <1>1, <1>2, <1>3 DEF EnhanceAccesses

\* The second half of decodeFrame keeps the history in range and aligned.
LEMMA SynthesiseStep ==
  ASSUME IInv, NEW accesses, \A a \in accesses : InBounds(a), Synthesise(accesses)
  PROVE  /\ mode' = mode /\ enhancement' = enhancement
         /\ lastLag' \in 20 .. 119
         /\ enhPeriod' \in [0 .. 7 -> 19 .. 119]
         /\ enhBuf' \in [0 .. 15 -> Tag]
         /\ oldSyntdenum' \in [0 .. 5 -> Tag]
         /\ smoothed' \subseteq Tag
         /\ out' \in [0 .. (Subframes - 1) -> [residual : Tag, coefs : Tag]]
         /\ BufferAligned' /\ SynthesisAligned' /\ AccessesInBounds'
<1>1. TypeOK /\ BufferAligned /\ mode \in {20, 30}
  BY DEF IInv, TypeOK
<1>2. mode' = mode /\ enhancement' = enhancement /\ Subframes' = Subframes
  BY DEF Synthesise, Subframes
<1>3. /\ oldSyntdenum' \in [0 .. 5 -> Tag]
      /\ \A s \in 0 .. (Subframes - 1) : oldSyntdenum'[s] = Fresh(s)
  BY <1>1, ModeSizes, TagClosed DEF Synthesise, TypeOK
<1>4. CASE enhancement = 1
  <2>1. PICK periods \in [0 .. (NewBlocks - 1) -> HalfLags], d \in SeamOffsets :
          Enhance(periods, d, accesses)
    BY <1>4 DEF Synthesise
  <2> DEFINE moved == ShiftedPeriods(periods)
             inlag == moved[8 - NewBlocks]
  <2>2. moved \in [0 .. 7 -> 19 .. 119] /\ inlag \in 20 .. 118
        /\ 2 * periods[NewBlocks - 1] \in 20 .. 118
    BY <1>1, PeriodFacts
  <2>3. d \in -1 .. 1 /\ SeamBlock \in 0 .. 7
    BY <1>1, LagAssumption, ModeSizes DEF SeamBlock
  <2> HIDE DEF moved
  <2>4. /\ enhBuf' = Shifted
        /\ enhPeriod' = IF Recovering
                        THEN [moved EXCEPT ![SeamBlock] = inlag + d] ELSE moved
        /\ lastLag' = 2 * periods[NewBlocks - 1]
        /\ touched' = accesses \cup EnhanceAccesses(inlag)
        /\ smoothed' = IF Recovering THEN {Shifted[s] : s \in Seam} ELSE {}
        /\ out' = EnhancedOutput
    BY <2>1 DEF Enhance, moved
  <2>5. enhPeriod' \in [0 .. 7 -> 19 .. 119] /\ lastLag' \in 20 .. 119
    <3> HIDE DEF inlag
    <3>1. inlag + d \in 19 .. 119
      BY <2>2, <2>3
    <3>2. [moved EXCEPT ![SeamBlock] = inlag + d] \in [0 .. 7 -> 19 .. 119]
      BY <2>2, <2>3, <3>1
    <3>3. lastLag' \in 20 .. 119
      BY <2>2, <2>4
    <3> QED BY <2>2, <2>4, <3>2, <3>3
  <2>6. enhBuf' \in [0 .. 15 -> Tag] /\ smoothed' \subseteq Tag
    <3>1. Seam \subseteq 0 .. 15
      BY <1>1, ModeSizes DEF Seam
    <3> QED BY <1>1, <2>4, <3>1, ShiftedFacts
  <2>7. BufferAligned'
    BY <1>1, <1>2, <1>3, <2>4, ShiftedFacts DEF BufferAligned
  <2>8. \A s \in 0 .. (Subframes - 1) :
          /\ EnhancedOutput[s].residual = EnhancedOutput[s].coefs
          /\ EnhancedOutput[s] \in [residual : Tag, coefs : Tag]
    <3> SUFFICES ASSUME NEW s \in 0 .. (Subframes - 1)
                 PROVE  /\ EnhancedOutput[s].residual = EnhancedOutput[s].coefs
                        /\ EnhancedOutput[s] \in [residual : Tag, coefs : Tag]
      OBVIOUS
    <3>1. EnhancedOutput[s] =
            [residual |-> Shifted[Centre + s],
             coefs    |-> IF s < Delay THEN Older(oldSyntdenum[s + Subframes - Delay])
                          ELSE Fresh(s - Delay)]
      BY DEF EnhancedOutput
    <3>2. Shifted[Centre + s] =
            IF s < Delay THEN Older(oldSyntdenum[s + Subframes - Delay])
            ELSE Fresh(s - Delay)
      BY <1>1, <1>4, ModeSizes, ShiftedFacts
    <3>3. Shifted[Centre + s] \in Tag
      BY <1>1, ModeSizes, ShiftedFacts
    <3> QED BY <3>1, <3>2, <3>3
  <2>9. SynthesisAligned'
    BY <1>2, <2>4, <2>8 DEF SynthesisAligned
  <2>10. out' \in [0 .. (Subframes - 1) -> [residual : Tag, coefs : Tag]]
    BY <2>4, <2>8 DEF EnhancedOutput
  <2>11. AccessesInBounds'
    BY <1>1, <2>2, <2>4, EnhanceBounds DEF AccessesInBounds, InBounds
  <2> QED BY <1>2, <1>3, <2>5, <2>6, <2>7, <2>9, <2>10, <2>11
<1>5. CASE enhancement = 0
  <2>1. PICK lag \in FullLags : Direct(lag, accesses)
    BY <1>5 DEF Synthesise
  <2>2. lastLag' \in 20 .. 119
    BY <2>1, LagAssumption DEF Direct
  <2>3. enhPeriod' \in [0 .. 7 -> 19 .. 119] /\ enhBuf' \in [0 .. 15 -> Tag]
    BY <1>1, <2>1 DEF Direct, TypeOK
  <2>4. smoothed' \subseteq Tag
    BY <2>1 DEF Direct
  <2>5. /\ out' \in [0 .. (Subframes - 1) -> [residual : Tag, coefs : Tag]]
        /\ SynthesisAligned'
    BY <1>1, <1>2, <2>1, ModeSizes, TagClosed DEF Direct, SynthesisAligned
  <2>6. InBounds(PitchAccess)
    <3>1. /\ 0 <= FrameSamples - corrLen - 119
          /\ FrameSamples - corrLen - 119 <= FrameSamples - 1
          /\ FrameSamples - 1 < FrameSamples
          /\ FrameSamples \in Int /\ corrLen \in Int
      BY <1>1, ModeSizes
    <3> QED BY <3>1, AccessBounds DEF PitchAccess
  <2>7. AccessesInBounds'
    BY <2>1, <2>6 DEF Direct, AccessesInBounds, InBounds
  <2>8. BufferAligned'
    BY <1>2, <1>5 DEF BufferAligned
  <2> QED BY <1>2, <1>3, <2>2, <2>3, <2>4, <2>5, <2>7, <2>8
<1> QED
  BY <1>1, <1>4, <1>5 DEF TypeOK

\* The concealment's reads stay inside the previous frame.
LEMMA ConcealBounds ==
  ASSUME IInv, NEW lag \in ConcealLags
  PROVE  /\ lag \in 17 .. 122
         /\ \A a \in ConcealAccesses(lag) : InBounds(a)
<1>1. mode \in {20, 30} /\ lastLag \in 20 .. 119 /\ prevLag \in 17 .. 122
  BY DEF IInv, TypeOK
<1>2. lag \in 17 .. 122
  BY <1>1, LagAssumption DEF ConcealLags
<1>3. FrameSamples \in {160, 240}
  BY <1>1, ModeSizes
<1>4. UseLag(lag) \in 34 .. 158
  BY <1>2 DEF UseLag
<1>5. InBounds(Access(FrameSamples - 119, FrameSamples - 1, FrameSamples))
  BY <1>3, AccessBounds
<1>6. InBounds(Access(FrameSamples - UseLag(lag), FrameSamples - 1, FrameSamples))
  <2> DEFINE lo == FrameSamples - UseLag(lag)
  <2>1. lo \in Int /\ 0 <= lo /\ lo <= FrameSamples - 1
    BY <1>3, <1>4
  <2> HIDE DEF lo
  <2>2. InBounds(Access(lo, FrameSamples - 1, FrameSamples))
    BY <1>3, <2>1, AccessBounds
  <2> QED BY <2>2 DEF lo
<1>7. ASSUME NEW d \in -3 .. 3 PROVE InBounds(CorrelationAccess(lastLag + d))
  <2> DEFINE l == lastLag + d
             r == IF FrameSamples - 60 - l < 0 THEN FrameSamples - l ELSE 60
  <2>1. l \in 17 .. 122
    BY <1>1
  <2> HIDE DEF l
  <2>2. r \in 1 .. 60 /\ FrameSamples - r - l >= 0 /\ FrameSamples - r - l <= FrameSamples - 1
    BY <1>3, <2>1
  <2>3. CorrelationAccess(l) = Access(FrameSamples - r - l, FrameSamples - 1, FrameSamples)
    BY DEF CorrelationAccess
  <2> HIDE DEF r
  <2>4. InBounds(Access(FrameSamples - r - l, FrameSamples - 1, FrameSamples))
    BY <1>3, <2>1, <2>2, AccessBounds
  <2> QED BY <2>3, <2>4 DEF l
<1> QED
  BY <1>2, <1>5, <1>6, <1>7 DEF ConcealAccesses

\* Counting up to 9 is enough to know the attenuation of any run.
LEMMA LossStep ==
  ASSUME IInv, NEW lag \in 17 .. 122, Conceal(lag), mode' = mode
  PROVE  /\ prevLag' \in 17 .. 122 /\ consPLICount' \in 0 .. 9
         /\ prevPLI' = 1 /\ prevEnhPl' = 1
         /\ run' \in Nat /\ gain' \in {0, 5, 7, 9, 10}
         /\ LossFlagsAgree' /\ AttenuationExact'
<1>1. /\ run \in Nat /\ consPLICount = IF run < 9 THEN run ELSE 9
      /\ FrameSamples \in {160, 240} /\ FrameSamples' = FrameSamples
  BY ModeSizes DEF IInv, TypeOK, LossFlagsAgree, FrameSamples
<1>2. run' = run + 1 /\ CountLoss(consPLICount) = IF run' < 9 THEN run' ELSE 9
  BY <1>1 DEF Conceal, CountLoss
<1>3. consPLICount' = CountLoss(consPLICount) /\ prevLag' = lag
      /\ prevPLI' = 1 /\ prevEnhPl' = 1
      /\ gain' = GainAfter(CountLoss(consPLICount) * FrameSamples)
  BY DEF Conceal
<1>4. GainAfter(CountLoss(consPLICount) * FrameSamples) = GainAfter(run' * FrameSamples)
  <2>1. CASE run' < 9
    BY <1>2, <2>1
  <2>2. CASE ~(run' < 9)
    <3>1. CountLoss(consPLICount) * FrameSamples > 1280
      BY <1>1, <1>2, <2>2
    <3>2. run' * FrameSamples > 1280
      BY <1>1, <1>2, <2>2
    <3>3. GainAfter(CountLoss(consPLICount) * FrameSamples) = 0
      BY <3>1 DEF GainAfter
    <3>4. GainAfter(run' * FrameSamples) = 0
      BY <3>2 DEF GainAfter
    <3> QED BY <3>3, <3>4
  <2> QED BY <2>1, <2>2
<1>5. \A n \in Int : GainAfter(n) \in {0, 5, 7, 9, 10}
  BY DEF GainAfter
<1>6. CountLoss(consPLICount) * FrameSamples \in Int
  BY <1>1, <1>2
<1>7. LossFlagsAgree'
  BY <1>1, <1>2, <1>3 DEF LossFlagsAgree
<1>8. AttenuationExact'
  <2>1. gain' = GainAfter(run' * FrameSamples') /\ run' # 0
    BY <1>1, <1>2, <1>3, <1>4
  <2> QED BY <2>1 DEF AttenuationExact, GainAfter
<1> QED
  BY <1>1, <1>2, <1>3, <1>5, <1>6, <1>7, <1>8

\* Every call preserves the invariant.
LEMMA StepInvariant == IInv /\ [Next]_vars => IInv'
<1> SUFFICES ASSUME IInv, [Next]_vars PROVE IInv'
  OBVIOUS
<1>1. CASE DecodeFrame
  <2>1. Update /\ Synthesise({})
    BY <1>1 DEF DecodeFrame
  <2>2. /\ mode' = mode /\ enhancement' = enhancement
        /\ lastLag' \in 20 .. 119
        /\ enhPeriod' \in [0 .. 7 -> 19 .. 119]
        /\ enhBuf' \in [0 .. 15 -> Tag]
        /\ oldSyntdenum' \in [0 .. 5 -> Tag]
        /\ smoothed' \subseteq Tag
        /\ out' \in [0 .. (Subframes - 1) -> [residual : Tag, coefs : Tag]]
        /\ BufferAligned' /\ SynthesisAligned' /\ AccessesInBounds'
    BY <2>1, SynthesiseStep
  <2>3. LossFlagsAgree' /\ AttenuationExact'
    BY <2>1 DEF Update, LossFlagsAgree, AttenuationExact
  <2>4. TypeOK'
    <3>1. Subframes' = Subframes
      BY <2>2 DEF Subframes
    <3> QED BY <2>1, <2>2, <3>1 DEF IInv, TypeOK, Update
  <2> QED BY <2>2, <2>3, <2>4 DEF IInv, FrameInv
<1>2. CASE ConcealFrame
  <2>1. PICK lag \in ConcealLags : Conceal(lag) /\ Synthesise(ConcealAccesses(lag))
    BY <1>2 DEF ConcealFrame
  <2>2. lag \in 17 .. 122 /\ \A a \in ConcealAccesses(lag) : InBounds(a)
    BY ConcealBounds
  <2>3. /\ mode' = mode /\ enhancement' = enhancement
        /\ lastLag' \in 20 .. 119
        /\ enhPeriod' \in [0 .. 7 -> 19 .. 119]
        /\ enhBuf' \in [0 .. 15 -> Tag]
        /\ oldSyntdenum' \in [0 .. 5 -> Tag]
        /\ smoothed' \subseteq Tag
        /\ out' \in [0 .. (Subframes - 1) -> [residual : Tag, coefs : Tag]]
        /\ BufferAligned' /\ SynthesisAligned' /\ AccessesInBounds'
    BY <2>1, <2>2, SynthesiseStep
  <2>4. /\ prevLag' \in 17 .. 122 /\ consPLICount' \in 0 .. 9
        /\ prevPLI' = 1 /\ prevEnhPl' = 1
        /\ run' \in Nat /\ gain' \in {0, 5, 7, 9, 10}
        /\ LossFlagsAgree' /\ AttenuationExact'
    BY <2>1, <2>2, <2>3, LossStep
  <2>5. TypeOK'
    <3>1. Subframes' = Subframes
      BY <2>3 DEF Subframes
    <3> QED BY <2>3, <2>4, <3>1 DEF IInv, TypeOK
  <2> QED BY <2>3, <2>4, <2>5 DEF IInv, FrameInv
<1>3. CASE Reset
  <2>1. mode' = mode /\ enhancement' = enhancement /\ Subframes' = Subframes
    BY <1>3 DEF Reset, Subframes
  <2>2. out' = NoOutput /\ NoOutput \in [0 .. (Subframes - 1) -> [residual : Tag, coefs : Tag]]
    BY <1>3, TagClosed DEF Reset, ClearTrace, NoOutput
  <2>3. enhBuf' \in [0 .. 15 -> Tag] /\ oldSyntdenum' \in [0 .. 5 -> Tag]
        /\ enhPeriod' \in [0 .. 7 -> 19 .. 119]
    BY <1>3, TagClosed DEF Reset, ClearLags, NoResidual, NoCoefs, NoPeriods
  <2>4. TypeOK'
    BY <1>3, <2>1, <2>2, <2>3
    DEF Reset, ClearLags, ClearLoss, ClearTrace, IInv, TypeOK
  <2>5. LossFlagsAgree' /\ AttenuationExact' /\ AccessesInBounds'
    BY <1>3 DEF Reset, ClearLoss, ClearTrace, LossFlagsAgree,
                AttenuationExact, AccessesInBounds
  <2>6. BufferAligned'
    <3>1. mode \in {20, 30}
      BY DEF IInv, TypeOK
    <3> QED BY <1>3, <2>1, <3>1, ModeSizes DEF Reset, BufferAligned, NoResidual, NoCoefs
  <2>7. SynthesisAligned'
    BY <2>1, <2>2 DEF SynthesisAligned, NoOutput
  <2> QED BY <2>4, <2>5, <2>6, <2>7 DEF IInv, FrameInv
<1>4. CASE UNCHANGED vars
  BY <1>4 DEF vars, codecVars, traceVars, IInv, FrameInv, TypeOK, LossFlagsAgree,
              BufferAligned, AccessesInBounds, AttenuationExact, SynthesisAligned,
              Subframes, FrameSamples
<1> QED
  BY <1>1, <1>2, <1>3, <1>4 DEF Next

\* The invariant holds in every reachable state.
THEOREM InvariantHolds == Spec => []IInv
BY InitInvariant, StepInvariant, PTL DEF Spec

\* The decoder's history stays in range: lags, counters and periods
\* (constants.go, decoderState).
THEOREM TypeCorrect == Spec => []TypeOK
<1>1. IInv => TypeOK
  BY DEF IInv
<1> QED
  BY <1>1, InvariantHolds, PTL

\* No lag the searches can find sends a read of the history out of bounds
\* (docplc.go, enhancer.go, ilbc_decode.go).
THEOREM AccessesHold == Spec => []AccessesInBounds
<1>1. IInv => AccessesInBounds
  BY DEF IInv, FrameInv
<1> QED
  BY <1>1, InvariantHolds, PTL

\* The saturating counter attenuates a loss of any length as an unbounded one
\* would (docplc.go, consPLICount).
THEOREM AttenuationHolds == Spec => []AttenuationExact
<1>1. IInv => AttenuationExact
  BY DEF IInv, FrameInv
<1> QED
  BY <1>1, InvariantHolds, PTL

\* Residual and coefficients stay aligned through losses and resets
\* (ilbc_decode.go, oldSyntdenum; enhancer.go, enhBuf).
THEOREM AlignmentHolds == Spec => []SynthesisAligned
<1>1. IInv => SynthesisAligned
  BY DEF IInv, FrameInv
<1> QED
  BY <1>1, InvariantHolds, PTL

\* A run of losses repeats one pitch lag (docplc.go, prevLag).
THEOREM LagHeldHolds == Spec => LagHeld
<1>1. IInv /\ [Next]_vars => [run > 0 /\ run' > run => prevLag' = prevLag]_vars
  <2> SUFFICES ASSUME IInv, Next, run > 0, run' > run
               PROVE  prevLag' = prevLag
    BY DEF Next
  <2>1. run \in Nat /\ prevPLI = 1
    BY DEF IInv, TypeOK, LossFlagsAgree
  <2>2. ~DecodeFrame /\ ~Reset
    BY <2>1 DEF DecodeFrame, Update, Reset, ClearTrace
  <2>3. PICK lag \in ConcealLags : Conceal(lag)
    BY <2>2 DEF Next, ConcealFrame
  <2> QED BY <2>1, <2>3 DEF ConcealLags, Conceal
<1> QED
  BY <1>1, InvariantHolds, PTL DEF Spec, LagHeld
-----------------------------------------------------------------------------
(* The output as one stream.                                               *)

\* The last frame's residual, still missing or complete.
TailInv ==
  \/ \A s \in 0 .. (Subframes - 1) : enhBuf[16 - Subframes + s] = Blank
  \/ \A s \in 0 .. (Subframes - 1) : enhBuf[16 - Subframes + s] = Fresh(s)

\* What the last output consists of, and where the enhancer's buffer still
\* holds it: before the end of the buffer nothing is of the last frame.
HistoryInv ==
  /\ enhancement = 1 =>
       /\ TailInv
       /\ \A s \in 0 .. (Subframes - 1) : out[s].residual = enhBuf[Centre + s]
       /\ \A s \in 0 .. (15 - Subframes) : enhBuf[s] = Blank \/ enhBuf[s].age > 0
  /\ enhancement = 0 => out[Subframes - 1].residual \in {Blank, Fresh(Subframes - 1)}

\* Tags by age.
LEMMA Ages ==
  /\ Older(Blank) = Blank
  /\ \A s \in 0 .. 5 : Fresh(s) # Blank /\ Older(Fresh(s)) = [age |-> 1, sub |-> s]
  /\ \A t \in Tag : Older(t) = Blank \/ Older(t).age > 0
  /\ \A t \in Tag : t # Blank => Older(t) # Blank /\ Older(t).age = t.age + 1
BY DEF Older, Blank, Fresh, Tag

\* Within a frame, and from one frame to the next, residual follows residual.
LEMMA FollowsFresh ==
  ASSUME mode \in {20, 30}
  PROVE  /\ Follows(Blank, Blank) /\ Follows(Blank, Fresh(0))
         /\ \A s \in 1 .. 5 : Follows(Fresh(s - 1), Fresh(s))
         /\ \A s \in 1 .. 5 : Follows(Older(Fresh(s - 1)), Older(Fresh(s)))
         /\ Follows(Older(Fresh(Subframes - 1)), Fresh(0))
<1>1. Subframes \in 1 .. 6
  BY ModeSizes
<1>2. \A s \in 1 .. 5 : s - 1 \in 0 .. 5 /\ s \in 0 .. 5 /\ (s - 1) + 1 = s
  OBVIOUS
<1>3. \A s \in 0 .. 5 : /\ Fresh(s) = [age |-> 0, sub |-> s]
                        /\ Older(Fresh(s)) = [age |-> 1, sub |-> s]
  BY Ages DEF Fresh
<1>4. \A s \in 1 .. 5 : Follows(Fresh(s - 1), Fresh(s))
  BY <1>2, <1>3 DEF Follows, Blank
<1>5. \A s \in 1 .. 5 : Follows(Older(Fresh(s - 1)), Older(Fresh(s)))
  BY <1>2, <1>3 DEF Follows, Blank
<1>6. Follows(Older(Fresh(Subframes - 1)), Fresh(0))
  BY <1>1, <1>3 DEF Follows, Blank
<1> QED BY <1>4, <1>5, <1>6 DEF Follows

LEMMA HistoryInit == Init => HistoryInv
<1> HAVE Init
<1>1. mode \in {20, 30} /\ enhBuf = NoResidual /\ out = NoOutput
  BY DEF Init
<1>2. \A s \in 0 .. 15 : enhBuf[s] = Blank
  BY <1>1 DEF NoResidual
<1>3. Subframes \in 1 .. 6 /\ Centre \in 8 .. 11 /\ Centre + Subframes <= 15
  BY <1>1, ModeSizes
<1>4. \A s \in 0 .. (Subframes - 1) : out[s].residual = Blank
  BY <1>1 DEF NoOutput
<1>5. TailInv
  BY <1>2, <1>3 DEF TailInv
<1>6. \A s \in 0 .. (Subframes - 1) : out[s].residual = enhBuf[Centre + s]
  <2> SUFFICES ASSUME NEW s \in 0 .. (Subframes - 1)
               PROVE  out[s].residual = enhBuf[Centre + s]
    OBVIOUS
  <2>1. Centre + s \in 0 .. 15
    BY <1>3
  <2> QED BY <1>2, <1>4, <2>1
<1>7. \A s \in 0 .. (15 - Subframes) : enhBuf[s] = Blank
  BY <1>2, <1>3
<1>8. out[Subframes - 1].residual = Blank
  BY <1>3, <1>4
<1> QED BY <1>5, <1>6, <1>7, <1>8 DEF HistoryInv

\* The step of the enhanced output in either mode.
Continued ==
  /\ Follows(Older(out[Subframes - 1].residual), out'[0].residual)
  /\ \A s \in 1 .. (Subframes - 1) : Follows(out'[s - 1].residual, out'[s].residual)
Untouched ==
  \A s \in 0 .. (Subframes - 1) :
    Older(out[s].residual) = Blank \/ Older(out[s].residual) \notin smoothed'

LEMMA ShortStep ==
  ASSUME TypeOK, HistoryInv, mode = 20, enhancement = 1, mode' = mode,
         enhancement' = enhancement, enhBuf' = Shifted, out' = EnhancedOutput,
         smoothed' \subseteq {Shifted[s] : s \in Seam}
  PROVE  HistoryInv' /\ Continued /\ Untouched
<1>1. Subframes = 4 /\ Delay = 1 /\ Centre = 11 /\ plcBlockl = 40 /\ Subframes' = 4 /\ Centre' = 11
  BY DEF Subframes, Delay, Centre, plcBlockl
<1>2. Shifted = [s \in 0 .. 15 |-> IF s < 12 THEN Older(enhBuf[s + 4]) ELSE Fresh(s - 12)]
  BY <1>1 DEF Shifted
<1>3. /\ \A s \in 0 .. 11 : Shifted[s] = Older(enhBuf[s + 4]) /\ enhBuf[s + 4] \in Tag
      /\ \A s \in 0 .. 3 : Shifted[12 + s] = Fresh(s)
  BY <1>2 DEF TypeOK
<1>4. \A s \in 0 .. 3 : out'[s].residual = Shifted[11 + s]
  BY <1>1 DEF EnhancedOutput
<1>5. /\ out[0].residual = enhBuf[11] /\ out[1].residual = enhBuf[12]
      /\ out[2].residual = enhBuf[13] /\ out[3].residual = enhBuf[14]
  BY <1>1 DEF HistoryInv
<1>6. \/ enhBuf[12] = Blank /\ enhBuf[13] = Blank /\ enhBuf[14] = Blank /\ enhBuf[15] = Blank
      \/ /\ enhBuf[12] = Fresh(0) /\ enhBuf[13] = Fresh(1)
         /\ enhBuf[14] = Fresh(2) /\ enhBuf[15] = Fresh(3)
  BY <1>1 DEF HistoryInv, TailInv
<1>7. HistoryInv'
  <2>1. \A s \in 0 .. 11 : Shifted[s] = Blank \/ Shifted[s].age > 0
    BY <1>3, Ages
  <2> QED BY <1>1, <1>3, <1>4, <2>1 DEF HistoryInv, TailInv
<1>8. /\ out'[0].residual = Older(enhBuf[15]) /\ out'[1].residual = Fresh(0)
      /\ out'[2].residual = Fresh(1) /\ out'[3].residual = Fresh(2)
  BY <1>3, <1>4
<1>9. Continued
  <2>1. Follows(Older(enhBuf[14]), Older(enhBuf[15])) /\ Follows(Older(enhBuf[15]), Fresh(0))
    BY <1>1, <1>6, FollowsFresh, Ages
  <2>2. Follows(Fresh(0), Fresh(1)) /\ Follows(Fresh(1), Fresh(2))
    BY FollowsFresh
  <2> QED BY <1>1, <1>5, <1>8, <2>1, <2>2 DEF Continued
<1>10. Untouched
  <2>1. smoothed' \subseteq {Older(enhBuf[15])}
    BY <1>1, <1>3 DEF Seam
  <2>2. enhBuf[11] = Blank \/ enhBuf[11].age > 0
    BY <1>1 DEF HistoryInv
  <2>3. enhBuf[11] \in Tag
    BY DEF TypeOK
  <2>4. CASE enhBuf[15] = Blank
    BY <1>1, <2>1, <2>4, Ages DEF Untouched
  <2>5. CASE enhBuf[15] = Fresh(3) /\ enhBuf[12] = Fresh(0) /\ enhBuf[13] = Fresh(1)
             /\ enhBuf[14] = Fresh(2)
    <3>1. /\ Older(Fresh(3)) # Older(Fresh(0)) /\ Older(Fresh(3)) # Older(Fresh(1))
          /\ Older(Fresh(3)) # Older(Fresh(2)) /\ Older(Fresh(3)).age = 1
      BY Ages
    <3>2. Older(enhBuf[11]) = Blank \/ Older(enhBuf[11]) # Older(Fresh(3))
      BY <2>2, <2>3, <3>1, Ages DEF Tag, Blank
    <3> QED BY <1>1, <1>5, <2>1, <2>5, <3>1, <3>2 DEF Untouched
  <2> QED BY <1>6, <2>4, <2>5
<1> QED BY <1>7, <1>9, <1>10

LEMMA LongStep ==
  ASSUME TypeOK, HistoryInv, mode = 30, enhancement = 1, mode' = mode,
         enhancement' = enhancement, enhBuf' = Shifted, out' = EnhancedOutput,
         smoothed' \subseteq {Shifted[s] : s \in Seam}
  PROVE  HistoryInv' /\ Continued /\ Untouched
<1>1. Subframes = 6 /\ Delay = 2 /\ Centre = 8 /\ plcBlockl = 80 /\ Subframes' = 6 /\ Centre' = 8
  BY DEF Subframes, Delay, Centre, plcBlockl
<1>2. Shifted = [s \in 0 .. 15 |-> IF s < 10 THEN Older(enhBuf[s + 6]) ELSE Fresh(s - 10)]
  BY <1>1 DEF Shifted
<1>3. /\ \A s \in 0 .. 9 : Shifted[s] = Older(enhBuf[s + 6]) /\ enhBuf[s + 6] \in Tag
      /\ \A s \in 0 .. 5 : Shifted[10 + s] = Fresh(s)
  BY <1>2 DEF TypeOK
<1>4. \A s \in 0 .. 5 : out'[s].residual = Shifted[8 + s]
  BY <1>1 DEF EnhancedOutput
<1>5. /\ out[0].residual = enhBuf[8] /\ out[1].residual = enhBuf[9]
      /\ out[2].residual = enhBuf[10] /\ out[3].residual = enhBuf[11]
      /\ out[4].residual = enhBuf[12] /\ out[5].residual = enhBuf[13]
  BY <1>1 DEF HistoryInv
<1>6. \/ /\ enhBuf[10] = Blank /\ enhBuf[11] = Blank /\ enhBuf[12] = Blank
         /\ enhBuf[13] = Blank /\ enhBuf[14] = Blank /\ enhBuf[15] = Blank
      \/ /\ enhBuf[10] = Fresh(0) /\ enhBuf[11] = Fresh(1) /\ enhBuf[12] = Fresh(2)
         /\ enhBuf[13] = Fresh(3) /\ enhBuf[14] = Fresh(4) /\ enhBuf[15] = Fresh(5)
  BY <1>1 DEF HistoryInv, TailInv
<1>7. HistoryInv'
  <2>1. \A s \in 0 .. 9 : Shifted[s] = Blank \/ Shifted[s].age > 0
    BY <1>3, Ages
  <2> QED BY <1>1, <1>3, <1>4, <2>1 DEF HistoryInv, TailInv
<1>8. /\ out'[0].residual = Older(enhBuf[14]) /\ out'[1].residual = Older(enhBuf[15])
      /\ out'[2].residual = Fresh(0) /\ out'[3].residual = Fresh(1)
      /\ out'[4].residual = Fresh(2) /\ out'[5].residual = Fresh(3)
  BY <1>3, <1>4
<1>9. Continued
  <2>1. /\ Follows(Older(enhBuf[13]), Older(enhBuf[14]))
        /\ Follows(Older(enhBuf[14]), Older(enhBuf[15]))
        /\ Follows(Older(enhBuf[15]), Fresh(0))
    BY <1>1, <1>6, FollowsFresh, Ages
  <2>2. Follows(Fresh(0), Fresh(1)) /\ Follows(Fresh(1), Fresh(2)) /\ Follows(Fresh(2), Fresh(3))
    BY FollowsFresh
  <2> QED BY <1>1, <1>5, <1>8, <2>1, <2>2 DEF Continued
<1>10. Untouched
  <2>1. smoothed' \subseteq {Older(enhBuf[14]), Older(enhBuf[15])}
    BY <1>1, <1>3 DEF Seam
  <2>2. /\ enhBuf[8] \in Tag /\ (enhBuf[8] = Blank \/ enhBuf[8].age > 0)
        /\ enhBuf[9] \in Tag /\ (enhBuf[9] = Blank \/ enhBuf[9].age > 0)
    BY <1>1 DEF HistoryInv, TypeOK
  <2>3. CASE enhBuf[14] = Blank /\ enhBuf[15] = Blank
    BY <1>1, <2>1, <2>3, Ages DEF Untouched
  <2>4. CASE /\ enhBuf[10] = Fresh(0) /\ enhBuf[11] = Fresh(1) /\ enhBuf[12] = Fresh(2)
             /\ enhBuf[13] = Fresh(3) /\ enhBuf[14] = Fresh(4) /\ enhBuf[15] = Fresh(5)
    <3>1. \A s \in 0 .. 3 : Older(Fresh(s)) # Older(Fresh(4)) /\ Older(Fresh(s)) # Older(Fresh(5))
      BY Ages
    <3>2. Older(Fresh(4)).age = 1 /\ Older(Fresh(5)).age = 1
      BY Ages
    <3>3. \A t \in Tag : t = Blank \/ t.age > 0 =>
            Older(t) = Blank \/ (Older(t) # Older(Fresh(4)) /\ Older(t) # Older(Fresh(5)))
      BY <3>2, Ages DEF Tag, Blank
    <3>4. \A s \in 0 .. 5 : \/ Older(out[s].residual) = Blank
                            \/ /\ Older(out[s].residual) # Older(Fresh(4))
                               /\ Older(out[s].residual) # Older(Fresh(5))
      BY <1>5, <2>2, <2>4, <3>1, <3>3
    <3> QED BY <1>1, <2>1, <2>4, <3>4 DEF Untouched
  <2> QED BY <1>6, <2>3, <2>4
<1> QED BY <1>7, <1>9, <1>10

\* Every frame, good or concealed, enhanced or not.
LEMMA FrameStep ==
  ASSUME TypeOK, HistoryInv, NEW accesses, Synthesise(accesses)
  PROVE  HistoryInv' /\ Continued /\ Untouched
<1>1. mode \in {20, 30} /\ mode' = mode /\ enhancement' = enhancement
  BY DEF TypeOK, Synthesise
<1>2. CASE enhancement = 1
  <2>1. PICK periods \in [0 .. (NewBlocks - 1) -> HalfLags], d \in SeamOffsets :
               Enhance(periods, d, accesses)
    BY <1>2 DEF Synthesise
  <2>2. enhBuf' = Shifted /\ out' = EnhancedOutput
    BY <2>1 DEF Enhance
  <2>3. smoothed' \subseteq {Shifted[s] : s \in Seam}
    BY <2>1 DEF Enhance
  <2> QED BY <1>1, <1>2, <2>2, <2>3, ShortStep, LongStep
<1>3. CASE enhancement = 0
  <2>1. PICK lag \in FullLags : Direct(lag, accesses)
    BY <1>3 DEF Synthesise
  <2>2. Subframes \in {4, 6} /\ Subframes' = Subframes
    BY <1>1, ModeSizes DEF Subframes
  <2>3. \A s \in 0 .. (Subframes - 1) : out'[s].residual = Fresh(s)
    BY <2>1 DEF Direct
  <2>4. HistoryInv'
    BY <1>1, <1>3, <2>2, <2>3 DEF HistoryInv
  <2>5. Continued
    <3>1. Follows(Older(out[Subframes - 1].residual), Fresh(0))
      BY <1>1, <1>3, FollowsFresh, Ages DEF HistoryInv
    <3>2. \A s \in 1 .. (Subframes - 1) : Follows(Fresh(s - 1), Fresh(s))
      BY <1>1, <2>2, FollowsFresh
    <3>3. \A s \in 1 .. (Subframes - 1) : /\ out'[s].residual = Fresh(s)
                                         /\ out'[s - 1].residual = Fresh(s - 1)
      BY <2>2, <2>3
    <3>4. out'[0].residual = Fresh(0)
      BY <2>2, <2>3
    <3> QED BY <3>1, <3>2, <3>3, <3>4 DEF Continued
  <2>6. Untouched
    BY <2>1 DEF Direct, Untouched
  <2> QED BY <2>4, <2>5, <2>6
<1> QED BY <1>2, <1>3 DEF TypeOK

\* Reset starts the stream over: nothing is left that it could alter.
LEMMA ResetStep ==
  ASSUME TypeOK, Reset
  PROVE  HistoryInv' /\ touched' = {} /\ Untouched
<1>1. mode' \in {20, 30} /\ Subframes' = Subframes
  BY DEF TypeOK, Reset, Subframes
<1>2. enhBuf' = NoResidual /\ out' = NoOutput /\ touched' = {} /\ smoothed' = {}
  BY DEF Reset, ClearTrace
<1>3. Subframes \in 1 .. 6 /\ Centre' \in 8 .. 11 /\ Centre' + Subframes <= 15
  BY <1>1 DEF Subframes, Centre, TypeOK, Reset
<1>4. \A s \in 0 .. 15 : enhBuf'[s] = Blank
  BY <1>2 DEF NoResidual
<1>5. \A s \in 0 .. (Subframes - 1) : out'[s].residual = Blank
  BY <1>2 DEF NoOutput
<1>6. TailInv'
  BY <1>1, <1>3, <1>4 DEF TailInv
<1>7. \A s \in 0 .. (Subframes - 1) : out'[s].residual = enhBuf'[Centre' + s]
  <2> SUFFICES ASSUME NEW s \in 0 .. (Subframes - 1)
               PROVE  out'[s].residual = enhBuf'[Centre' + s]
    OBVIOUS
  <2>1. PICK c \in 8 .. 11 : c = Centre'
    BY <1>3
  <2>2. c + s \in 0 .. 15
    <3>1. PICK n \in 1 .. 6 : n = Subframes /\ c + n <= 15
      BY <1>3, <2>1
    <3>2. s \in 0 .. (n - 1)
      BY <3>1
    <3> QED BY <3>1, <3>2
  <2> QED BY <1>4, <1>5, <2>1, <2>2
<1>8. \A s \in 0 .. (15 - Subframes) : enhBuf'[s] = Blank
  BY <1>3, <1>4
<1>9. out'[Subframes - 1].residual = Blank
  BY <1>3, <1>5
<1>10. HistoryInv'
  BY <1>1, <1>6, <1>7, <1>8, <1>9 DEF HistoryInv
<1> QED BY <1>2, <1>10 DEF Untouched

LEMMA HistoryStep ==
  ASSUME TypeOK, HistoryInv, Next
  PROVE  HistoryInv' /\ (touched' # {} => Continued) /\ Untouched
<1>1. CASE DecodeFrame
  BY <1>1, FrameStep DEF DecodeFrame
<1>2. CASE ConcealFrame
  BY <1>2, FrameStep DEF ConcealFrame
<1>3. CASE Reset
  BY <1>3, ResetStep
<1> QED BY <1>1, <1>2, <1>3 DEF Next

\* Where the last output stands in the enhancer's buffer, after any history.
THEOREM HistoryHolds == Spec => []HistoryInv
<1>1. TypeOK /\ HistoryInv /\ [Next]_vars => HistoryInv'
  <2>1. TypeOK /\ HistoryInv /\ Next => HistoryInv'
    BY HistoryStep
  <2>2. HistoryInv /\ UNCHANGED vars => HistoryInv'
    BY DEF vars, codecVars, traceVars, HistoryInv, TailInv, Subframes, Centre
  <2> QED BY <2>1, <2>2
<1> QED
  BY <1>1, HistoryInit, TypeCorrect, PTL DEF Spec

\* No residual is skipped or repeated from one frame to the next, whatever
\* frames are lost and whatever lags are found (enhancer.go, the shift of
\* enhBuf and the centres).
THEOREM ContinuousHolds == Spec => OutputContinuous
<1>1. TypeOK /\ HistoryInv /\ [Next]_vars =>
        [touched' # {} =>
           /\ Follows(Older(out[Subframes - 1].residual), out'[0].residual)
           /\ \A s \in 1 .. (Subframes - 1) :
                Follows(out'[s - 1].residual, out'[s].residual)]_vars
  BY HistoryStep DEF Continued
<1> QED
  BY <1>1, HistoryHolds, TypeCorrect, PTL DEF Spec, OutputContinuous

\* Recovering from a loss never alters residual that was already played
\* (enhancer.go, the blending after prevEnhPl).
THEOREM UntouchedHolds == Spec => PlayedUntouched
<1>1. TypeOK /\ HistoryInv /\ [Next]_vars =>
        [\A s \in 0 .. (Subframes - 1) :
           Older(out[s].residual) = Blank \/ Older(out[s].residual) \notin smoothed']_vars
  BY HistoryStep DEF Untouched
<1> QED
  BY <1>1, HistoryHolds, TypeCorrect, PTL DEF Spec, PlayedUntouched
=============================================================================
