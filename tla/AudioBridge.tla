---------------------------- MODULE AudioBridge ----------------------------
(***************************************************************************)
(* The bridge between the audio callbacks and the goroutines of a call     *)
(* (cmd/talk/audio.go).  process copies microphone samples into frames of  *)
(* FrameSamples and offers each full frame to the channel captured; it     *)
(* fills the speaker's buffer from the frames of the channel playback.     *)
(* Its two loops touch disjoint state and the Pulse backend runs them on   *)
(* two goroutines, so each loop is a process of its own here and one       *)
(* iteration is one step.  At the other ends of the channels are the       *)
(* encoder loop and the playout loop of call.go.                           *)
(*                                                                         *)
(* A sample is the number of samples the microphone delivered before it;   *)
(* a decoded frame is the number of playout ticks before it.  heard, made  *)
(* and speaker are history variables that no operation reads.              *)
(***************************************************************************)
EXTENDS Integers, Sequences

CONSTANTS
  FrameSamples,  \* samples per frame (160)
  CapturedCap,   \* capacity of the channel captured (4)
  PlaybackCap,   \* capacity of the channel playback (3)
  Modulus,       \* size of the sequence space (2^32)
  BufferSizes,   \* lengths, in samples, of the device's buffers
  MaxHeard,      \* bound on the samples recorded
  MaxMade        \* bound on the playout ticks

ASSUME BridgeAssumption ==
  /\ FrameSamples \in Nat \ {0}
  /\ CapturedCap \in Nat \ {0}
  /\ PlaybackCap \in Nat \ {0}
  /\ Modulus \in Nat \ {0}
  /\ BufferSizes \subseteq Nat \ {0}
  /\ MaxHeard \in Nat
  /\ MaxMade \in Nat

VARIABLES
  captured,   \* channel: full frames on their way to the encoder
  playback,   \* channel: decoded frames on their way to the speaker
  capture,    \* the frame being filled: its number and its samples
  inputAt,    \* samples of capture filled so far
  output,     \* the frame being played
  outputAt,   \* samples of output played so far
  inputLeft,  \* samples of the microphone buffer not yet copied
  outputLeft, \* samples of the speaker buffer not yet filled
  heard,      \* history: samples recorded
  made,       \* history: frames offered to playback
  speaker     \* history: the last sample given to the speaker

bridgeVars == <<captured, playback, capture, inputAt, output, outputAt,
                inputLeft, outputLeft, heard, made, speaker>>
inputVars  == <<captured, capture, inputAt, inputLeft, heard>>
outputVars == <<playback, output, outputAt, outputLeft, made, speaker>>

Offset == 0 .. (FrameSamples - 1)
NoFrame == -1

\* newAudioBridge: no frame is being played, so outputAt is at its end.
Init ==
  /\ captured = <<>>
  /\ playback = <<>>
  /\ capture = [seq |-> 0, samples |-> [k \in Offset |-> NoFrame]]
  /\ inputAt = 0
  /\ output = NoFrame
  /\ outputAt = FrameSamples
  /\ inputLeft = 0
  /\ outputLeft = 0
  /\ heard = 0
  /\ made = 0
  /\ speaker = [frame |-> NoFrame, at |-> FrameSamples - 1, silent |-> TRUE]

\* select { case ch <- x: default: }: the value is dropped when ch is full.
Offer(ch, x, cap) == IF Len(ch) < cap THEN Append(ch, x) ELSE ch
-----------------------------------------------------------------------------
\* The device hands a buffer of k samples to process.
BeginInput(k) ==
  /\ inputLeft = 0
  /\ heard + k <= MaxHeard
  /\ inputLeft' = k
  /\ UNCHANGED <<captured, capture, inputAt, heard, outputVars>>

\* Mutant: only the frames that were sent are numbered.
CaptureSampleNumbersSent ==
  LET filled == [capture EXCEPT !.samples[inputAt] = heard]
  IN  /\ inputLeft > 0
      /\ inputLeft' = inputLeft - 1
      /\ heard' = heard + 1
      /\ IF inputAt + 1 = FrameSamples
         THEN /\ captured' = Offer(captured, filled, CapturedCap)
              /\ capture' = [filled EXCEPT !.seq =
                   IF Len(captured) < CapturedCap THEN (@ + 1) % Modulus ELSE @]
              /\ inputAt' = 0
         ELSE /\ capture' = filled
              /\ inputAt' = inputAt + 1
              /\ UNCHANGED captured
      /\ UNCHANGED outputVars

\* Mutant: the callback waits for room in the channel.
CaptureSampleWaits ==
  LET filled == [capture EXCEPT !.samples[inputAt] = heard]
  IN  /\ inputLeft > 0
      /\ Len(captured) < CapturedCap
      /\ inputLeft' = inputLeft - 1
      /\ heard' = heard + 1
      /\ IF inputAt + 1 = FrameSamples
         THEN /\ captured' = Append(captured, filled)
              /\ capture' = [filled EXCEPT !.seq = (@ + 1) % Modulus]
              /\ inputAt' = 0
         ELSE /\ capture' = filled
              /\ inputAt' = inputAt + 1
              /\ UNCHANGED captured
      /\ UNCHANGED outputVars

\* One iteration of process's input loop.
CaptureSample ==
  LET filled == [capture EXCEPT !.samples[inputAt] = heard]
  IN  /\ inputLeft > 0
      /\ inputLeft' = inputLeft - 1
      /\ heard' = heard + 1
      /\ IF inputAt + 1 = FrameSamples
         THEN /\ captured' = Offer(captured, filled, CapturedCap)
              /\ capture' = [filled EXCEPT !.seq = (@ + 1) % Modulus]
              /\ inputAt' = 0
         ELSE /\ capture' = filled
              /\ inputAt' = inputAt + 1
              /\ UNCHANGED captured
      /\ UNCHANGED outputVars

\* The encoder loop receives a frame.
EncodeFrame ==
  /\ captured # <<>>
  /\ captured' = Tail(captured)
  /\ UNCHANGED <<capture, inputAt, inputLeft, heard, outputVars>>
-----------------------------------------------------------------------------
\* The device asks process to fill a buffer of k samples.
BeginOutput(k) ==
  /\ outputLeft = 0
  /\ outputLeft' = k
  /\ UNCHANGED <<inputVars, playback, output, outputAt, made, speaker>>

\* Sample k of frame f goes to the speaker.
Emit(f, k) ==
  /\ outputAt' = k + 1
  /\ outputLeft' = outputLeft - 1
  /\ speaker' = [frame |-> f, at |-> k, silent |-> FALSE]

OutputSample ==
  /\ outputLeft > 0
  /\ outputAt # FrameSamples
  /\ Emit(output, outputAt)
  /\ UNCHANGED <<inputVars, playback, output, made>>

\* The frame is finished and another one is waiting.
OutputNextFrame ==
  /\ outputLeft > 0
  /\ outputAt = FrameSamples
  /\ playback # <<>>
  /\ output' = Head(playback)
  /\ playback' = Tail(playback)
  /\ Emit(Head(playback), 0)
  /\ UNCHANGED <<inputVars, made>>

\* Mutant: an underrun plays the last frame again.
OutputUnderrunRepeats ==
  /\ outputLeft > 0
  /\ outputAt = FrameSamples
  /\ playback = <<>>
  /\ Emit(output, 0)
  /\ UNCHANGED <<inputVars, playback, output, made>>

\* The frame is finished and none is waiting: process returns, and the rest
\* of the buffer, which was cleared, stays silent.
OutputUnderrun ==
  /\ outputLeft > 0
  /\ outputAt = FrameSamples
  /\ playback = <<>>
  /\ outputLeft' = 0
  /\ speaker' = [speaker EXCEPT !.silent = TRUE]
  /\ UNCHANGED <<inputVars, playback, output, outputAt, made>>

FillSample == OutputSample \/ OutputNextFrame \/ OutputUnderrun

\* The playout loop offers the frame of this tick.
PlayFrame ==
  /\ made < MaxMade
  /\ playback' = Offer(playback, made, PlaybackCap)
  /\ made' = made + 1
  /\ UNCHANGED <<inputVars, output, outputAt, outputLeft, speaker>>
-----------------------------------------------------------------------------
Next ==
  \/ \E k \in BufferSizes : BeginInput(k) \/ BeginOutput(k)
  \/ CaptureSample \/ EncodeFrame
  \/ FillSample \/ PlayFrame

Spec == Init /\ [][Next]_bridgeVars

\* Only the audio callbacks are scheduled fairly: neither the goroutines of
\* the call nor the device owe them anything.
CallbackSpec ==
  Spec /\ WF_bridgeVars(CaptureSample) /\ WF_bridgeVars(FillSample)
-----------------------------------------------------------------------------
FrameType == [seq : 0 .. (Modulus - 1), samples : [Offset -> Nat \cup {NoFrame}]]

\* The channels respect their capacities and the offsets never leave a frame:
\* b.capture.samples[b.inputAt] and b.output.samples[b.outputAt] are in range.
TypeOK ==
  /\ captured \in Seq(FrameType) /\ Len(captured) <= CapturedCap
  /\ playback \in Seq(Nat) /\ Len(playback) <= PlaybackCap
  /\ capture \in FrameType
  /\ inputAt \in Offset
  /\ output \in Nat \cup {NoFrame}
  /\ outputAt \in 0 .. FrameSamples
  /\ inputLeft \in Nat
  /\ outputLeft \in Nat
  /\ heard \in Nat
  /\ made \in Nat
  /\ speaker \in [frame : Nat \cup {NoFrame}, at : Offset, silent : BOOLEAN]

\* Frame f holds the samples of one frame period, and its number is the
\* number of that period.
OnTime(f) ==
  LET first == f.samples[0]
  IN  /\ first \in Nat
      /\ first % FrameSamples = 0
      /\ f.seq = (first \div FrameSamples) % Modulus
      /\ \A k \in Offset : f.samples[k] = first + k

\* The number of a frame tells when it was recorded, however many frames were
\* dropped because the encoder was slow (audio.go, b.capture.seq++ after the
\* select): the receiver conceals a dropped frame instead of shortening the
\* stream.
FramesOnTime == \A i \in 1 .. Len(captured) : OnTime(captured[i])

\* The speaker hears every frame it starts to its end, without a gap or a
\* repetition, and frames in the order they were decoded; silence falls
\* between frames only (audio.go, process's second loop).
SpeakerFollows ==
  LET ended == speaker.silent \/ speaker.at = FrameSamples - 1
  IN  IF speaker'.silent
      THEN ended /\ speaker'.frame = speaker.frame
      ELSE \/ speaker' = [speaker EXCEPT !.at = @ + 1] /\ ~speaker.silent
           \/ ended /\ speaker'.at = 0 /\ speaker'.frame > speaker.frame
WholeFrames == [][outputLeft' < outputLeft => SpeakerFollows]_bridgeVars

\* An audio callback returns whatever the goroutines of the call do (audio.go:
\* "process never waits for network, codec work, or an empty/full channel").
CallbacksReturn == []<>(inputLeft = 0) /\ []<>(outputLeft = 0)
=============================================================================
