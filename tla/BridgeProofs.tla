---------------------------- MODULE BridgeProofs ----------------------------
(***************************************************************************)
(* The audio bridge for frames, buffers, channels and sequence spaces of   *)
(* any size: what FramesOnTime and WholeFrames say of a small instance.    *)
(***************************************************************************)
EXTENDS AudioBridge, TLAPS

-----------------------------------------------------------------------------
(* Arithmetic.                                                             *)

\* Quotient and remainder.
LEMMA DivMod ==
  ASSUME NEW m \in Nat \ {0}, NEW a \in Int
  PROVE  /\ a \div m \in Int
         /\ a % m \in 0 .. (m - 1)
         /\ a = m * (a \div m) + (a % m)
OBVIOUS

\* They are unique.
LEMMA DivModUnique ==
  ASSUME NEW m \in Nat \ {0}, NEW q \in Int, NEW r \in 0 .. (m - 1)
  PROVE  (m * q + r) % m = r /\ (m * q + r) \div m = q
OBVIOUS

\* A counter that wraps in every step has wrapped as often as it should.
LEMMA Count ==
  ASSUME NEW m \in Nat \ {0}, NEW p \in Nat
  PROVE  ((p % m) + 1) % m = (p + 1) % m
<1> DEFINE q == p \div m
           y == p % m
<1>1. q \in Int /\ y \in 0 .. (m - 1) /\ p = m * q + y
  BY DivMod
<1> HIDE DEF q, y
<1>2. CASE y + 1 < m
  <2>1. p + 1 = m * q + (y + 1) /\ y + 1 \in 0 .. (m - 1) /\ y + 1 = m * 0 + (y + 1)
    BY <1>1, <1>2
  <2>2. (p + 1) % m = y + 1
    BY <2>1, <1>1, DivModUnique
  <2>3. (m * 0 + (y + 1)) % m = y + 1
    BY <2>1, DivModUnique
  <2> QED BY <2>1, <2>2, <2>3 DEF y
<1>3. CASE y + 1 = m
  <2>1. p + 1 = m * (q + 1) + 0 /\ q + 1 \in Int /\ 0 \in 0 .. (m - 1)
    BY <1>1, <1>3
  <2>2. (p + 1) % m = 0
    BY <2>1, DivModUnique
  <2>3. y + 1 = m * 1 + 0
    BY <1>1, <1>3
  <2>4. (y + 1) % m = 0
    BY <2>1, <2>3, DivModUnique
  <2> QED BY <2>2, <2>4 DEF y
<1> QED BY <1>1, <1>2, <1>3
-----------------------------------------------------------------------------
(* Channels.                                                               *)

\* What is in a channel after an offer: what was there, in its place, and the
\* value offered, if it is there, at the end.
LEMMA OfferFacts ==
  ASSUME NEW S, NEW ch \in Seq(S), NEW x \in S, NEW cap \in Nat, Len(ch) <= cap
  PROVE  /\ Offer(ch, x, cap) \in Seq(S)
         /\ Len(Offer(ch, x, cap)) <= cap
         /\ \A i \in 1 .. Len(Offer(ch, x, cap)) :
              \/ i \in 1 .. Len(ch) /\ Offer(ch, x, cap)[i] = ch[i]
              \/ i = Len(ch) + 1 /\ Offer(ch, x, cap)[i] = x
BY DEF Offer

\* What is in a channel after a receive.
LEMMA TailFacts ==
  ASSUME NEW S, NEW ch \in Seq(S), ch # <<>>
  PROVE  /\ Head(ch) \in S /\ Head(ch) = ch[1] /\ Len(ch) >= 1
         /\ Tail(ch) \in Seq(S) /\ Len(Tail(ch)) = Len(ch) - 1
         /\ \A i \in 1 .. Len(Tail(ch)) : Tail(ch)[i] = ch[i + 1] /\ i + 1 \in 1 .. Len(ch)
OBVIOUS
-----------------------------------------------------------------------------
(* The microphone.                                                         *)

\* The frame being filled has the number of its period and holds the samples
\* of that period so far.
CaptureInv ==
  \E p \in Nat :
    /\ heard = FrameSamples * p + inputAt
    /\ capture.seq = p % Modulus
    /\ \A k \in Offset : k < inputAt => capture.samples[k] = FrameSamples * p + k

InputInv == CaptureInv /\ FramesOnTime

(* The speaker.                                                            *)

\* The frames that wait are in order, after the one being played; the sample
\* given last is the one before outputAt.
SpeakerInv ==
  /\ outputAt >= 1
  /\ speaker.frame = output /\ speaker.at = outputAt - 1
  /\ outputAt # FrameSamples => ~speaker.silent
  /\ output < made
  /\ \A i \in 1 .. Len(playback) : output < playback[i] /\ playback[i] < made
  /\ \A i, j \in 1 .. Len(playback) : i < j => playback[i] < playback[j]

IInv == TypeOK /\ InputInv /\ SpeakerInv

LEMMA InitIInv == Init => IInv
<1> SUFFICES ASSUME Init PROVE IInv
  OBVIOUS
<1>1. TypeOK
  <2>1. FrameSamples - 1 \in Offset /\ 0 \in Offset /\ 0 \in 0 .. (Modulus - 1)
    BY BridgeAssumption DEF Offset
  <2>2. capture \in FrameType
    BY <2>1 DEF Init, FrameType, NoFrame
  <2>3. captured \in Seq(FrameType) /\ Len(captured) <= CapturedCap
        /\ playback \in Seq(Nat) /\ Len(playback) <= PlaybackCap
    BY BridgeAssumption DEF Init
  <2> QED BY <2>1, <2>2, <2>3, BridgeAssumption DEF Init, TypeOK, NoFrame
<1>2. InputInv
  <2>1. heard = FrameSamples * 0 + inputAt /\ 0 % Modulus = 0
    <3>1. (Modulus * 0 + 0) % Modulus = 0
      BY BridgeAssumption, DivModUnique
    <3> QED BY <3>1, BridgeAssumption DEF Init
  <2> QED BY <2>1 DEF Init, InputInv, CaptureInv, FramesOnTime, Offset
<1>3. SpeakerInv
  BY BridgeAssumption DEF Init, SpeakerInv, NoFrame
<1> QED BY <1>1, <1>2, <1>3 DEF IInv
-----------------------------------------------------------------------------
\* A step that changes the microphone's side only.
LEMMA InputStep ==
  ASSUME IInv, UNCHANGED outputVars
  PROVE  SpeakerInv'
BY DEF IInv, SpeakerInv, outputVars

\* A step that changes the speaker's side only.
LEMMA OutputStep ==
  ASSUME IInv, UNCHANGED inputVars
  PROVE  InputInv'
<1>1. CaptureInv'
  BY DEF IInv, InputInv, CaptureInv, inputVars
<1>2. FramesOnTime'
  BY DEF IInv, InputInv, FramesOnTime, OnTime, inputVars
<1> QED BY <1>1, <1>2 DEF InputInv

\* One iteration of the input loop: the frame that is complete is on time.
LEMMA CaptureSampleKeeps ==
  ASSUME IInv, CaptureSample
  PROVE  IInv'
<1> DEFINE filled == [capture EXCEPT !.samples[inputAt] = heard]
<1>1. PICK p \in Nat :
        /\ heard = FrameSamples * p + inputAt
        /\ capture.seq = p % Modulus
        /\ \A k \in Offset : k < inputAt => capture.samples[k] = FrameSamples * p + k
  BY DEF IInv, InputInv, CaptureInv
<1>2. /\ capture \in FrameType /\ inputAt \in Offset /\ heard \in Nat
      /\ captured \in Seq(FrameType) /\ Len(captured) <= CapturedCap
      /\ inputLeft \in Nat /\ FrameSamples \in Nat \ {0} /\ Modulus \in Nat \ {0}
      /\ CapturedCap \in Nat
  BY BridgeAssumption DEF IInv, TypeOK
<1>3. /\ filled \in FrameType /\ filled.seq = capture.seq
      /\ \A k \in Offset :
           filled.samples[k] = IF k = inputAt THEN heard ELSE capture.samples[k]
  BY <1>2 DEF FrameType
<1> HIDE DEF filled
<1>4. /\ inputLeft > 0 /\ inputLeft' = inputLeft - 1 /\ heard' = heard + 1
      /\ UNCHANGED outputVars
      /\ IF inputAt + 1 = FrameSamples
         THEN /\ captured' = Offer(captured, filled, CapturedCap)
              /\ capture' = [filled EXCEPT !.seq = (@ + 1) % Modulus]
              /\ inputAt' = 0
         ELSE /\ capture' = filled
              /\ inputAt' = inputAt + 1
              /\ UNCHANGED captured
  BY DEF CaptureSample, filled
<1>5. CASE inputAt + 1 # FrameSamples
  <2>1. inputAt' \in Offset /\ inputLeft' \in Nat /\ heard' \in Nat
    BY <1>2, <1>4, <1>5 DEF Offset
  <2>2. TypeOK'
    BY <1>2, <1>3, <1>4, <1>5, <2>1 DEF IInv, TypeOK, outputVars
  <2>3. heard' = FrameSamples * p + inputAt'
    <3>1. PICK n : n = FrameSamples * p
      OBVIOUS
    <3>2. n \in Nat
      BY <3>1, <1>2
    <3> QED BY <1>1, <1>2, <1>4, <1>5, <3>1, <3>2 DEF Offset
  <2>4. \A k \in Offset : k < inputAt' => filled.samples[k] = FrameSamples * p + k
    BY <1>1, <1>2, <1>3, <1>4, <1>5 DEF Offset
  <2>5. CaptureInv'
    BY <1>1, <1>3, <1>4, <1>5, <2>3, <2>4 DEF CaptureInv
  <2>6. FramesOnTime'
    BY <1>4, <1>5 DEF IInv, InputInv, FramesOnTime, OnTime
  <2> QED BY <1>4, <2>2, <2>5, <2>6, InputStep DEF IInv, InputInv
<1>6. CASE inputAt + 1 = FrameSamples
  <2> DEFINE first == FrameSamples * p
  <2>1. first \in Nat /\ first = FrameSamples * p + 0 /\ 0 \in 0 .. (FrameSamples - 1)
    BY <1>2
  <2>2. first % FrameSamples = 0 /\ first \div FrameSamples = p
    BY <2>1, <1>2, DivModUnique
  <2>3. \A k \in Offset : filled.samples[k] = first + k
    BY <1>1, <1>2, <1>3, <1>6 DEF Offset
  <2>4. OnTime(filled)
    <3>1. filled.samples[0] = first
      BY <2>1, <2>3 DEF Offset
    <3> QED BY <1>1, <1>3, <2>1, <2>2, <2>3, <3>1 DEF OnTime
  <2>5. /\ captured' \in Seq(FrameType) /\ Len(captured') <= CapturedCap
        /\ \A i \in 1 .. Len(captured') :
             \/ i \in 1 .. Len(captured) /\ captured'[i] = captured[i]
             \/ captured'[i] = filled
    <3>1. captured' = Offer(captured, filled, CapturedCap)
      BY <1>4, <1>6
    <3> QED BY <3>1, <1>2, <1>3, OfferFacts
  <2>6. FramesOnTime'
    <3> SUFFICES ASSUME NEW i \in 1 .. Len(captured') PROVE OnTime(captured'[i])
      BY DEF FramesOnTime, OnTime
    <3>1. CASE captured'[i] = filled
      BY <2>4, <3>1
    <3>2. CASE i \in 1 .. Len(captured) /\ captured'[i] = captured[i]
      BY <3>2 DEF IInv, InputInv, FramesOnTime
    <3> QED BY <2>5, <3>1, <3>2
  <2>7. capture'.seq = (p + 1) % Modulus /\ capture'.seq \in 0 .. (Modulus - 1)
    <3>1. capture'.seq = ((p % Modulus) + 1) % Modulus
      BY <1>1, <1>3, <1>4, <1>6 DEF FrameType
    <3>2. ((p % Modulus) + 1) % Modulus = (p + 1) % Modulus
      BY <1>2, Count
    <3>3. p + 1 \in Int
      OBVIOUS
    <3>4. (p + 1) % Modulus \in 0 .. (Modulus - 1)
      BY <3>3, <1>2, DivMod
    <3> QED BY <3>1, <3>2, <3>4
  <2>8. capture' \in FrameType /\ inputAt' \in Offset
    BY <1>2, <1>3, <1>4, <1>6, <2>1, <2>7 DEF FrameType, Offset
  <2>9. TypeOK'
    BY <1>2, <1>4, <2>5, <2>8 DEF IInv, TypeOK, outputVars
  <2>10. heard' = FrameSamples * (p + 1) + inputAt'
    <3>1. FrameSamples * (p + 1) = FrameSamples * p + FrameSamples
      BY <1>2
    <3>2. PICK n : n = FrameSamples * p
      OBVIOUS
    <3>3. n \in Nat
      BY <3>2, <1>2
    <3> QED BY <1>1, <1>2, <1>4, <1>6, <3>1, <3>2, <3>3 DEF Offset
  <2>11. CaptureInv'
    <3>1. p + 1 \in Nat /\ \A k \in Offset : ~(k < inputAt')
      BY <1>4, <1>6 DEF Offset
    <3> QED BY <2>7, <2>10, <3>1 DEF CaptureInv
  <2> QED BY <1>4, <2>6, <2>9, <2>11, InputStep DEF IInv, InputInv
<1> QED BY <1>5, <1>6

\* The encoder worker takes a frame.
LEMMA EncodeFrameKeeps ==
  ASSUME IInv, EncodeFrame
  PROVE  IInv'
<1>1. captured \in Seq(FrameType) /\ captured # <<>> /\ captured' = Tail(captured)
      /\ Len(captured) <= CapturedCap /\ CapturedCap \in Nat
  BY BridgeAssumption DEF IInv, TypeOK, EncodeFrame
<1>2. /\ captured' \in Seq(FrameType) /\ Len(captured') = Len(captured) - 1
      /\ \A i \in 1 .. Len(captured') :
           captured'[i] = captured[i + 1] /\ i + 1 \in 1 .. Len(captured)
  BY <1>1, TailFacts
<1>3. TypeOK'
  BY <1>1, <1>2 DEF IInv, TypeOK, EncodeFrame, outputVars
<1>4. FramesOnTime'
  BY <1>2 DEF IInv, InputInv, FramesOnTime, OnTime
<1>5. CaptureInv'
  BY DEF IInv, InputInv, CaptureInv, EncodeFrame
<1> QED BY <1>3, <1>4, <1>5, InputStep DEF IInv, InputInv, EncodeFrame

\* A new buffer of the microphone or of the speaker.
LEMMA BeginKeeps ==
  ASSUME IInv, NEW k \in BufferSizes, BeginInput(k) \/ BeginOutput(k)
  PROVE  IInv'
<1>1. k \in Nat
  BY BridgeAssumption
<1>2. CASE BeginInput(k)
  <2>1. TypeOK'
    BY <1>1, <1>2 DEF IInv, TypeOK, BeginInput, outputVars
  <2>2. InputInv'
    BY <1>2 DEF IInv, InputInv, CaptureInv, FramesOnTime, OnTime, BeginInput
  <2> QED BY <1>2, <2>1, <2>2, InputStep DEF IInv, BeginInput
<1>3. CASE BeginOutput(k)
  <2>1. TypeOK'
    BY <1>1, <1>3 DEF IInv, TypeOK, BeginOutput, inputVars
  <2>2. SpeakerInv'
    BY <1>3 DEF IInv, SpeakerInv, BeginOutput
  <2> QED BY <1>3, <2>1, <2>2, OutputStep DEF IInv, BeginOutput
<1> QED BY <1>2, <1>3

\* One iteration of the output loop.
LEMMA FillSampleKeeps ==
  ASSUME IInv, FillSample
  PROVE  IInv' /\ SpeakerFollows
<1>1. /\ FrameSamples \in Nat \ {0} /\ PlaybackCap \in Nat /\ outputLeft \in Nat
      /\ playback \in Seq(Nat) /\ Len(playback) <= PlaybackCap
      /\ output \in Nat \cup {NoFrame} /\ outputAt \in 1 .. FrameSamples
      /\ speaker \in [frame : Nat \cup {NoFrame}, at : Offset, silent : BOOLEAN]
      /\ made \in Nat
  BY BridgeAssumption DEF IInv, TypeOK, SpeakerInv
<1>2. CASE OutputSample
  <2>1. /\ outputLeft > 0 /\ outputAt # FrameSamples
        /\ outputAt' = outputAt + 1 /\ outputLeft' = outputLeft - 1
        /\ speaker' = [frame |-> output, at |-> outputAt, silent |-> FALSE]
        /\ UNCHANGED <<inputVars, playback, output, made>>
    BY <1>2 DEF OutputSample, Emit
  <2>2. outputAt \in Offset /\ outputAt' \in 0 .. FrameSamples /\ outputLeft' \in Nat
    BY <1>1, <2>1 DEF Offset
  <2>3. TypeOK'
    BY <1>1, <2>1, <2>2 DEF IInv, TypeOK, inputVars
  <2>4. SpeakerInv'
    BY <1>1, <2>1, <2>2 DEF IInv, SpeakerInv
  <2>5. SpeakerFollows
    <3>1. speaker.frame = output /\ speaker.at = outputAt - 1 /\ speaker.silent = FALSE
      BY <1>1, <2>1 DEF IInv, SpeakerInv
    <3>2. speaker.at + 1 = outputAt
      BY <1>1, <3>1
    <3>3. PICK t : t = [speaker EXCEPT !.at = @ + 1]
      OBVIOUS
    <3>4. /\ t \in [frame : Nat \cup {NoFrame}, at : Offset, silent : BOOLEAN]
          /\ t.frame = output /\ t.at = outputAt
      BY <1>1, <2>2, <3>1, <3>2, <3>3
    <3>5. t.silent = FALSE
      BY <1>1, <3>1, <3>3
    <3>6. t = [frame |-> output, at |-> outputAt, silent |-> FALSE]
      BY <3>4, <3>5
    <3> QED BY <2>1, <3>1, <3>3, <3>6 DEF SpeakerFollows
  <2> QED BY <2>1, <2>3, <2>4, <2>5, OutputStep DEF IInv
<1>3. CASE OutputNextFrame
  <2>1. /\ outputLeft > 0 /\ outputAt = FrameSamples /\ playback # <<>>
        /\ output' = Head(playback) /\ playback' = Tail(playback)
        /\ outputAt' = 1 /\ outputLeft' = outputLeft - 1
        /\ speaker' = [frame |-> Head(playback), at |-> 0, silent |-> FALSE]
        /\ UNCHANGED <<inputVars, made>>
    BY <1>3 DEF OutputNextFrame, Emit
  <2>2. /\ Head(playback) \in Nat /\ Head(playback) = playback[1] /\ Len(playback) >= 1
        /\ playback' \in Seq(Nat) /\ Len(playback') = Len(playback) - 1
        /\ \A i \in 1 .. Len(playback') :
             playback'[i] = playback[i + 1] /\ i + 1 \in 1 .. Len(playback)
    BY <1>1, <2>1, TailFacts
  <2>3. 0 \in Offset /\ outputAt' \in 0 .. FrameSamples /\ outputLeft' \in Nat
    BY <1>1, <2>1 DEF Offset
  <2>4. TypeOK'
    BY <1>1, <2>1, <2>2, <2>3 DEF IInv, TypeOK, inputVars
  <2>5. SpeakerInv'
    <3>1. 1 \in 1 .. Len(playback) /\ \A i \in 1 .. Len(playback) : playback[i] \in Nat
      BY <1>1, <2>2
    <3>2. output' < made'
      BY <2>1, <2>2, <3>1 DEF IInv, SpeakerInv
    <3>3. \A i \in 1 .. Len(playback') : output' < playback'[i] /\ playback'[i] < made'
      BY <2>1, <2>2, <3>1 DEF IInv, SpeakerInv
    <3>4. \A i, j \in 1 .. Len(playback') : i < j => playback'[i] < playback'[j]
      <4>1. SUFFICES ASSUME NEW i \in 1 .. Len(playback'), NEW j \in 1 .. Len(playback'), i < j
                     PROVE  playback'[i] < playback'[j]
        OBVIOUS
      <4>2. i + 1 \in 1 .. Len(playback) /\ j + 1 \in 1 .. Len(playback) /\ i + 1 < j + 1
        BY <2>2, <4>1
      <4>3. playback[i + 1] < playback[j + 1]
        BY <4>2 DEF IInv, SpeakerInv
      <4> QED BY <2>2, <4>3
    <3> QED BY <1>1, <2>1, <3>2, <3>3, <3>4 DEF SpeakerInv
  <2>6. SpeakerFollows
    <3>1. speaker.at = FrameSamples - 1 /\ speaker.frame < Head(playback)
      BY <2>1, <2>2 DEF IInv, SpeakerInv
    <3> QED BY <2>1, <3>1 DEF SpeakerFollows
  <2> QED BY <2>1, <2>4, <2>5, <2>6, OutputStep DEF IInv
<1>4. CASE OutputUnderrun
  <2>1. /\ outputAt = FrameSamples /\ outputLeft' = 0
        /\ speaker' = [speaker EXCEPT !.silent = TRUE]
        /\ UNCHANGED <<inputVars, playback, output, outputAt, made>>
    BY <1>4 DEF OutputUnderrun
  <2>2. TypeOK'
    BY <1>1, <2>1 DEF IInv, TypeOK, inputVars
  <2>3. SpeakerInv'
    BY <1>1, <2>1 DEF IInv, SpeakerInv
  <2>4. SpeakerFollows
    BY <1>1, <2>1 DEF IInv, SpeakerInv, SpeakerFollows
  <2> QED BY <2>1, <2>2, <2>3, <2>4, OutputStep DEF IInv
<1> QED BY <1>2, <1>3, <1>4 DEF FillSample

\* The playout worker offers a frame.
LEMMA PlayFrameKeeps ==
  ASSUME IInv, PlayFrame
  PROVE  IInv' /\ outputLeft' = outputLeft
<1>1. /\ playback \in Seq(Nat) /\ Len(playback) <= PlaybackCap /\ PlaybackCap \in Nat
      /\ made \in Nat /\ output \in Nat \cup {NoFrame}
  BY BridgeAssumption DEF IInv, TypeOK
<1>2. /\ playback' = Offer(playback, made, PlaybackCap) /\ made' = made + 1
      /\ UNCHANGED <<inputVars, output, outputAt, outputLeft, speaker>>
  BY DEF PlayFrame
<1>3. /\ playback' \in Seq(Nat) /\ Len(playback') <= PlaybackCap
      /\ \A i \in 1 .. Len(playback') :
           \/ i \in 1 .. Len(playback) /\ playback'[i] = playback[i]
           \/ i = Len(playback) + 1 /\ playback'[i] = made
  BY <1>1, <1>2, OfferFacts
<1>4. TypeOK'
  BY <1>1, <1>2, <1>3 DEF IInv, TypeOK, inputVars
<1>5. SpeakerInv'
  <2>1. output \in Int /\ output < made /\ \A i \in 1 .. Len(playback) :
          playback[i] \in Nat /\ output < playback[i] /\ playback[i] < made
    BY <1>1 DEF IInv, SpeakerInv, NoFrame
  <2>2. \A i \in 1 .. Len(playback') : output' < playback'[i] /\ playback'[i] < made'
    <3>1. SUFFICES ASSUME NEW i \in 1 .. Len(playback')
                   PROVE  output < playback'[i] /\ playback'[i] < made + 1
      BY <1>2
    <3>2. CASE i \in 1 .. Len(playback) /\ playback'[i] = playback[i]
      <4>1. playback[i] \in Nat /\ output < playback[i] /\ playback[i] < made
        BY <2>1, <3>2
      <4> QED BY <1>1, <2>1, <3>2, <4>1
    <3>3. CASE playback'[i] = made
      BY <1>1, <2>1, <3>3
    <3> QED BY <1>3, <3>2, <3>3
  <2>3. \A i, j \in 1 .. Len(playback') : i < j => playback'[i] < playback'[j]
    <3>1. SUFFICES ASSUME NEW i \in 1 .. Len(playback'), NEW j \in 1 .. Len(playback'), i < j
                   PROVE  playback'[i] < playback'[j]
      OBVIOUS
    <3>2. Len(playback) \in Nat /\ Len(playback') \in Nat
      BY <1>1, <1>3
    <3>3. PICK n : n = Len(playback)
      OBVIOUS
    <3>4. n \in Nat /\ j <= n + 1
      BY <1>3, <3>2, <3>3
    <3>5. i \in 1 .. Len(playback)
      BY <3>1, <3>2, <3>3, <3>4
    <3>6. playback'[i] = playback[i]
      BY <1>3, <3>3, <3>4, <3>5
    <3>7. CASE j \in 1 .. Len(playback) /\ playback'[j] = playback[j]
      BY <3>1, <3>5, <3>6, <3>7 DEF IInv, SpeakerInv
    <3>8. CASE playback'[j] = made
      BY <2>1, <3>5, <3>6, <3>8
    <3> QED BY <1>3, <3>7, <3>8
  <2>4. output' < made'
    BY <1>1, <1>2, <2>1
  <2> QED BY <1>2, <2>2, <2>3, <2>4 DEF IInv, SpeakerInv
<1> QED BY <1>2, <1>4, <1>5, OutputStep DEF IInv

\* Every step keeps the invariant and lets the speaker follow.
LEMMA NextStep ==
  ASSUME IInv, [Next]_bridgeVars
  PROVE  IInv' /\ (outputLeft' < outputLeft => SpeakerFollows)
<1>1. outputLeft \in Nat /\ BufferSizes \subseteq Nat
  BY BridgeAssumption DEF IInv, TypeOK
<1>2. ASSUME NEW k \in BufferSizes, BeginInput(k)
      PROVE  IInv' /\ outputLeft' = outputLeft
  BY <1>2, BeginKeeps DEF BeginInput, outputVars
<1>3. ASSUME NEW k \in BufferSizes, BeginOutput(k)
      PROVE  IInv' /\ ~(outputLeft' < outputLeft)
  <2>1. outputLeft = 0 /\ outputLeft' = k /\ k \in Nat
    BY <1>1, <1>3 DEF BeginOutput
  <2> QED BY <1>3, <2>1, BeginKeeps
<1>4. CASE CaptureSample
  BY <1>1, <1>4, CaptureSampleKeeps DEF CaptureSample, outputVars
<1>5. CASE EncodeFrame
  BY <1>1, <1>5, EncodeFrameKeeps DEF EncodeFrame, outputVars
<1>6. CASE FillSample
  BY <1>6, FillSampleKeeps
<1>7. CASE PlayFrame
  BY <1>1, <1>7, PlayFrameKeeps
<1>8. CASE UNCHANGED bridgeVars
  <2>1. TypeOK' /\ outputLeft' = outputLeft
    BY <1>8 DEF IInv, TypeOK, bridgeVars
  <2>2. UNCHANGED inputVars /\ UNCHANGED outputVars
    BY <1>8 DEF bridgeVars, inputVars, outputVars
  <2> QED BY <1>1, <2>1, <2>2, InputStep, OutputStep DEF IInv
<1> QED BY <1>1, <1>2, <1>3, <1>4, <1>5, <1>6, <1>7, <1>8 DEF Next
-----------------------------------------------------------------------------
\* The channels never hold more than their capacity and no offset leaves a
\* frame (audio.go, the fields of audioBridge).
THEOREM TypeCorrect == Spec => []TypeOK
<1>1. Init => IInv
  BY InitIInv
<1>2. IInv /\ [Next]_bridgeVars => IInv'
  BY NextStep
<1>3. IInv => TypeOK
  BY DEF IInv
<1> QED BY <1>1, <1>2, <1>3, PTL DEF Spec

\* Frame numbers tell the time of recording however many frames were dropped,
\* for frames, channels and sequence spaces of any size (process: seq++ after
\* the select).
THEOREM FramesOnTimeHolds == Spec => []FramesOnTime
<1>1. Init => IInv
  BY InitIInv
<1>2. IInv /\ [Next]_bridgeVars => IInv'
  BY NextStep
<1>3. IInv => FramesOnTime
  BY DEF IInv, InputInv
<1> QED BY <1>1, <1>2, <1>3, PTL DEF Spec

\* Frames are played whole and in order, and silence falls between them only,
\* for frames, channels and buffers of any size (process's second loop).
THEOREM WholeFramesHolds == Spec => WholeFrames
<1>1. Init => IInv
  BY InitIInv
<1>2. IInv /\ [Next]_bridgeVars => IInv'
  BY NextStep
<1>3. IInv /\ [Next]_bridgeVars =>
        [outputLeft' < outputLeft => SpeakerFollows]_bridgeVars
  BY NextStep
<1> QED BY <1>1, <1>2, <1>3, PTL DEF Spec, WholeFrames
=============================================================================
