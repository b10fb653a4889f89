------------------------------ MODULE Decoder ------------------------------
(***************************************************************************)
(* The decoder's stream history (src/ilbc_decode.go, src/docplc.go,        *)
(* src/enhancer.go): what one frame leaves for the next ones, through any  *)
(* sequence of good, damaged and missing frames and resets.                *)
(*                                                                         *)
(* Signals are not computed.  A pitch search over the signal is a choice   *)
(* from the lags it searches.  A stretch of 40 residual samples, and the   *)
(* filter coefficients of one subframe, are represented by their origin:   *)
(* the subframe they belong to and the age of its frame.  An access to a   *)
(* buffer is recorded by its range.  Calls that fail validation (wrong     *)
(* sizes, an uninitialized decoder) change nothing and are stuttering      *)
(* steps.                                                                  *)
(***************************************************************************)
EXTENDS Integers

CONSTANTS
  HalfLags,      \* pitch lags, at half rate, the enhancer may find
  FullLags,      \* pitch lags the decoder may find without enhancement
  SearchOffsets, \* where the concealment may find its lag, around lastLag
  SeamOffsets,   \* where the enhancer may find the lag of a seam
  RunCap         \* bound on the frames concealed in a row

\* The ranges of the search loops.
ASSUME LagAssumption ==
  /\ HalfLags \subseteq 10 .. 59
  /\ FullLags \subseteq 20 .. 119
  /\ SearchOffsets \subseteq -3 .. 3
  /\ SeamOffsets \subseteq -1 .. 1
  /\ RunCap \in Nat

VARIABLES
  mode,          \* frame length in ms
  enhancement,   \* the enhancer is enabled
  lastLag,       \* pitch lag of the last frame
  prevLag,       \* pitch lag the last concealment used
  consPLICount,  \* frames concealed in a row, up to 9
  prevPLI,       \* the last frame was concealed (for the concealment)
  prevEnhPl,     \* the last frame was concealed (for the enhancer)
  enhPeriod,     \* pitch lag of each block of 80 samples of enhBuf
  enhBuf,        \* origins of the last 640 residual samples, by 40
  oldSyntdenum,  \* origins of the last frame's filter coefficients
  run,           \* history: frames concealed in a row
  gain,          \* history: tenths of gain the last frame was concealed with
  touched,       \* history: ranges of the buffers the last frame accessed
  smoothed,      \* history: residual the last frame altered after the fact
  out            \* history: residual and coefficients of the last output

codecVars == <<lastLag, prevLag, consPLICount, prevPLI, prevEnhPl, enhPeriod,
               enhBuf, oldSyntdenum>>
traceVars == <<run, gain, touched, smoothed, out>>
vars == <<mode, enhancement, codecVars, traceVars>>
-----------------------------------------------------------------------------
\* The sizes initDecode sets for a mode.
FrameSamples == IF mode = 30 THEN 240 ELSE 160
Subframes    == IF mode = 30 THEN 6 ELSE 4
NewBlocks    == IF mode = 30 THEN 3 ELSE 2    \* 3 - ioffset
StartLimit   == IF mode = 30 THEN 7 ELSE 3    \* largest start index on the wire
\* Mutant: the enhancer's block length of the 30 ms mode in both modes.
LongBlock    == 80
plcBlockl    == IF mode = 30 THEN 80 ELSE 40
corrLen      == IF FrameSamples = 160 THEN 40 ELSE 80

Blank == [age |-> -1, sub |-> 0]
Fresh(s) == [age |-> 0, sub |-> s]
Older(t) == IF t = Blank THEN Blank ELSE [t EXCEPT !.age = @ + 1]

NoPeriods == [b \in 0 .. 7 |-> 40]
NoResidual == [s \in 0 .. 15 |-> Blank]
NoCoefs == [s \in 0 .. 5 |-> Blank]
NoOutput ==
  [s \in 0 .. (Subframes - 1) |-> [residual |-> Blank, coefs |-> Blank]]

\* NewDecoder
Init ==
  /\ mode \in {20, 30}
  /\ enhancement \in {0, 1}
  /\ lastLag = 20
  /\ prevLag = 120
  /\ consPLICount = 0
  /\ prevPLI = 0
  /\ prevEnhPl = 0
  /\ enhPeriod = NoPeriods
  /\ enhBuf = NoResidual
  /\ oldSyntdenum = NoCoefs
  /\ run = 0
  /\ gain = 10
  /\ touched = {}
  /\ smoothed = {}
  /\ out = NoOutput
-----------------------------------------------------------------------------
(* doThePLC                                                                *)

Access(lo, hi, size) == [lo |-> lo, hi |-> hi, size |-> size]

\* The attenuation after a number of concealed samples.
GainAfter(samples) ==
  IF samples > 1280 THEN 0
  ELSE IF samples > 960 THEN 5
  ELSE IF samples > 640 THEN 7
  ELSE IF samples > 320 THEN 9
  ELSE 10

\* Mutant: the counter of concealed frames stops at 8.
CountTo8(n) == IF n < 8 THEN n + 1 ELSE n

CountLoss(n) == IF n < 9 THEN n + 1 ELSE n

\* Mutant: every lag below a frame is doubled.
UseLagLong(lag) == IF lag < 120 THEN 2 * lag ELSE lag
UseLag(lag) == IF lag < 80 THEN 2 * lag ELSE lag

\* compCorr on the previous residual: the range shrinks with a long lag.
CorrelationAccess(lag) ==
  LET sRange == IF FrameSamples - 60 - lag < 0 THEN FrameSamples - lag ELSE 60
  IN  Access(FrameSamples - sRange - lag, FrameSamples - 1, FrameSamples)

\* The noise is taken from 50 to 119 samples back, the pitch from UseLag.
ConcealAccesses(lag) ==
  {Access(FrameSamples - 119, FrameSamples - 1, FrameSamples),
   Access(FrameSamples - UseLag(lag), FrameSamples - 1, FrameSamples)}
  \cup (IF prevPLI # 1
        THEN {CorrelationAccess(lastLag + d) : d \in -3 .. 3}
        ELSE {})

\* Mutant: the lag is searched for in every concealed frame.
ConcealLagsAlways == {lastLag + d : d \in SearchOffsets}
\* The lag of a concealed frame: searched for in the first of a run, kept in
\* the others.
ConcealLags ==
  IF prevPLI # 1 THEN {lastLag + d : d \in SearchOffsets} ELSE {prevLag}

Conceal(lag) ==
  /\ consPLICount' = CountLoss(consPLICount)
  /\ prevLag' = lag
  /\ prevPLI' = 1
  /\ prevEnhPl' = 1
  /\ run' = run + 1
  /\ gain' = GainAfter(CountLoss(consPLICount) * FrameSamples)

Update ==
  /\ consPLICount' = 0
  /\ prevPLI' = 0
  /\ prevEnhPl' = 0
  /\ run' = 0
  /\ gain' = 10
  /\ UNCHANGED prevLag
-----------------------------------------------------------------------------
(* enhancerInterface and the synthesis after it                            *)

\* Mutant: the coefficients are taken without the enhancer's delay.
NoDelay == 0
\* Subframes by which the enhancer delays its output.
Delay == IF mode = 30 THEN 2 ELSE 1

\* Subframe of enhBuf at which the enhanced output starts: sample 320 or 440.
Centre == IF mode = 30 THEN 8 ELSE 11

\* enhBuf moves by a frame and takes the new residual at its end.
Shifted ==
  [s \in 0 .. 15 |->
     IF s < 16 - Subframes THEN Older(enhBuf[s + Subframes])
     ELSE Fresh(s - (16 - Subframes))]

\* The periods move by the blocks of a frame; periods holds the new ones.
ShiftedPeriods(periods) ==
  [b \in 0 .. 7 |->
     IF b < 8 - NewBlocks THEN enhPeriod[b + NewBlocks]
     ELSE 2 * periods[b - (8 - NewBlocks)]]

\* After a concealed frame the enhancer refines the period across the seam
\* and blends the end of the old residual into the new one.
Recovering == prevEnhPl = 1
SeamBlock == 7 - NewBlocks
Seam == (16 - Subframes - plcBlockl \div 40) .. (15 - Subframes)

RecoverAccesses(lag) ==
  {Access(lag, lag + plcBlockl - 1, FrameSamples),
   Access(640 - FrameSamples - plcBlockl, 639 - FrameSamples, 640)}

EnhanceAccesses(inlag) ==
  {Access((8 - NewBlocks) * 80 - 126, 639, 640),
   Access(60 - 59, 60 + NewBlocks * 40 - 1, 180)}
  \cup (IF Recovering THEN UNION {RecoverAccesses(inlag + d) : d \in -1 .. 1}
        ELSE {})

\* Subframe s of the output is synthesised from enhBuf at the centre, with
\* coefficients of the last frame as long as the delay lasts.
EnhancedOutput ==
  [s \in 0 .. (Subframes - 1) |->
     [residual |-> Shifted[Centre + s],
      coefs    |-> IF s < Delay THEN Older(oldSyntdenum[s + Subframes - Delay])
                   ELSE Fresh(s - Delay)]]

Enhance(periods, d, accesses) ==
  LET moved == ShiftedPeriods(periods)
      inlag == moved[8 - NewBlocks]
  IN  /\ enhBuf' = Shifted
      /\ enhPeriod' = IF Recovering
                      THEN [moved EXCEPT ![SeamBlock] = inlag + d]
                      ELSE moved
      /\ lastLag' = 2 * periods[NewBlocks - 1]
      /\ touched' = accesses \cup EnhanceAccesses(inlag)
      /\ smoothed' = IF Recovering THEN {Shifted[s] : s \in Seam} ELSE {}
      /\ out' = EnhancedOutput

\* Without the enhancer the pitch is searched for in the frame itself.
PitchAccess == Access(FrameSamples - corrLen - 119, FrameSamples - 1, FrameSamples)

Direct(lag, accesses) ==
  /\ lastLag' = lag
  /\ touched' = accesses \cup {PitchAccess}
  /\ smoothed' = {}
  /\ out' = [s \in 0 .. (Subframes - 1) |->
               [residual |-> Fresh(s), coefs |-> Fresh(s)]]
  /\ UNCHANGED <<enhPeriod, enhBuf>>

\* The second half of decodeFrame, for a frame decoded or concealed.
Synthesise(accesses) ==
  /\ \/ /\ enhancement = 1
        /\ \E periods \in [0 .. (NewBlocks - 1) -> HalfLags], d \in SeamOffsets :
             Enhance(periods, d, accesses)
     \/ /\ enhancement = 0
        /\ \E lag \in FullLags : Direct(lag, accesses)
  /\ oldSyntdenum' = [s \in 0 .. 5 |->
       IF s < Subframes THEN Fresh(s) ELSE oldSyntdenum[s]]
  /\ UNCHANGED <<mode, enhancement>>
-----------------------------------------------------------------------------
\* What a call brings: the start index and the empty-frame bit, the fields
\* that decodeFrame checks, or (Conceal) no frame at all.  All frames of a
\* kind have the same effect here, so one of each stands for the rest.
NoPacket == [start |-> 0, lastBit |-> 0]
Packets == {NoPacket} \cup [start : 0 .. StartLimit, lastBit : {0, 1}]
Usable(p) == p.start >= 1 /\ (mode = 30 => p.start <= 5) /\ p.lastBit # 1

DecodeFrame ==
  /\ {p \in Packets : Usable(p)} # {}
  /\ Update
  /\ Synthesise({})

\* The frame is missing, damaged or marked empty.
ConcealFrame ==
  /\ {p \in Packets : ~Usable(p)} # {}
  /\ run < RunCap
  /\ \E lag \in ConcealLags : Conceal(lag) /\ Synthesise(ConcealAccesses(lag))

\* initDecode on a decoder in use: its history and ours of its stream end.
ClearLags ==
  /\ lastLag' = 20
  /\ prevLag' = 120
  /\ enhPeriod' = NoPeriods
ClearLoss ==
  /\ consPLICount' = 0
  /\ prevPLI' = 0
  /\ prevEnhPl' = 0
ClearTrace ==
  /\ run' = 0
  /\ gain' = 10
  /\ touched' = {}
  /\ smoothed' = {}
  /\ out' = NoOutput

\* Mutant: the enhancer's buffer survives a reset.
ResetKeepsBuffer ==
  /\ ClearLags /\ ClearLoss /\ ClearTrace
  /\ oldSyntdenum' = NoCoefs
  /\ UNCHANGED <<mode, enhancement, enhBuf>>

Reset ==
  /\ ClearLags /\ ClearLoss /\ ClearTrace
  /\ enhBuf' = NoResidual
  /\ oldSyntdenum' = NoCoefs
  /\ UNCHANGED <<mode, enhancement>>

Next == DecodeFrame \/ ConcealFrame \/ Reset

Spec == Init /\ [][Next]_vars
-----------------------------------------------------------------------------
Tag == {Blank} \cup [age : Nat, sub : 0 .. 5]

\* The lags stay where the searches of decodeFrame, doThePLC and
\* enhancerInterface can leave them, and the loss counter stops at 9.
TypeOK ==
  /\ mode \in {20, 30}
  /\ enhancement \in {0, 1}
  /\ lastLag \in 20 .. 119
  /\ prevLag \in 17 .. 122
  /\ consPLICount \in 0 .. 9
  /\ prevPLI \in {0, 1}
  /\ prevEnhPl \in {0, 1}
  /\ enhPeriod \in [0 .. 7 -> 19 .. 119]
  /\ enhBuf \in [0 .. 15 -> Tag]
  /\ oldSyntdenum \in [0 .. 5 -> Tag]
  /\ run \in Nat
  /\ gain \in {0, 5, 7, 9, 10}
  /\ smoothed \subseteq Tag
  /\ out \in [0 .. (Subframes - 1) -> [residual : Tag, coefs : Tag]]

\* The pitch lags a frame leaves behind never send the next frame's history
\* reads outside the frame, or outside its buffer, in either mode: after any
\* run of losses, a recovery, and a lag at either end of its range
\* (docplc.go, prevResidual[frameSamples+pick]; enhancer.go, input.add(lag);
\* ilbc_decode.go, corrStart - ilag).
AccessesInBounds == \A a \in touched : 0 <= a.lo /\ a.lo <= a.hi /\ a.hi < a.size

\* The end of the enhancer's buffer and the saved coefficients stem from the
\* same subframes: what SynthesisAligned rests on.
BufferAligned ==
  enhancement = 1 =>
    \A s \in 0 .. (Subframes - 1) : enhBuf[16 - Subframes + s] = oldSyntdenum[s]

\* A frame is concealed with the gain its place in the run of losses calls
\* for, although the counter stops at 9 (docplc.go): in particular a long
\* loss fades to silence in both modes and a good frame restores full gain.
AttenuationExact == gain = IF run = 0 THEN 10 ELSE GainAfter(run * FrameSamples)

\* The two loss flags and the counter agree between frames: the concealment
\* and the enhancer never disagree about whether the last frame was lost.
LossFlagsAgree ==
  /\ prevEnhPl = prevPLI
  /\ prevPLI = 1 <=> run > 0
  /\ consPLICount = IF run < 9 THEN run ELSE 9

\* All frames of one run of losses repeat the same pitch lag, found in the
\* first of them, although the enhancer goes on measuring lastLag (docplc.go).
LagHeld == [][run > 0 /\ run' > run => prevLag' = prevLag]_vars

\* Every 40 samples of output are synthesised with the coefficients of the
\* subframe their residual belongs to, although the enhancer delays the
\* residual by 40 or 80 samples and frames may be lost or the decoder reset
\* (ilbc_decode.go, oldSyntdenum).
SynthesisAligned ==
  \A s \in 0 .. (Subframes - 1) : out[s].residual = out[s].coefs

\* Residual u comes right after residual t in the stream.
Follows(t, u) ==
  \/ t = Blank /\ u \in {Blank, Fresh(0)}
  \/ t # Blank /\ u # Blank /\
       \/ u = [t EXCEPT !.sub = @ + 1]
       \/ t.sub = Subframes - 1 /\ u.sub = 0 /\ u.age = t.age - 1

\* The residual played is continuous: no 40 samples are skipped or repeated
\* between frames, in spite of the enhancer's delay, of losses and of resets,
\* which restart it (enhancer.go, the shift of enhBuf and the centres).
OutputContinuous ==
  [][touched' # {} =>
       /\ Follows(Older(out[Subframes - 1].residual), out'[0].residual)
       /\ \A s \in 1 .. (Subframes - 1) :
            Follows(out'[s - 1].residual, out'[s].residual)]_vars

\* Blending a recovered frame into the concealed one before it never alters
\* residual that has been played (enhancer.go, the blending after prevEnhPl).
PlayedUntouched ==
  [][\A s \in 0 .. (Subframes - 1) :
       Older(out[s].residual) = Blank \/ Older(out[s].residual) \notin smoothed']_vars
=============================================================================
