-------------------------- MODULE ResidualSchedule --------------------------
(***************************************************************************)
(* The order in which a frame's residual is coded (encodeFrame in          *)
(* src/ilbc_encode.go) and rebuilt (decode in src/ilbc_decode.go): the     *)
(* start state, the rest of its two subframes, the subframes after it and  *)
(* then, in reversed time, the subframes before it.  Each vector but the   *)
(* state is a combination of vectors from a memory of what was coded       *)
(* before, so decoder and encoder must agree on every memory.              *)
(*                                                                         *)
(* A coded sample is the pair of the vector it belongs to and its place in *)
(* it.  What the codebook search finds in a memory is left out: that the   *)
(* same memory and the same indices give the same vector is the contract   *)
(* of constructCodebook, which both sides call.                            *)
(***************************************************************************)
EXTENDS FrameMode, Sequences

VARIABLES
  start,       \* first subframe of the start state, from 1
  stateFirst,  \* the state fills the beginning of its two subframes
  side,        \* "encode", "decode" or "done"
  step,        \* what that side does next
  subframe,    \* the loops' counters
  subcount,
  mem,         \* the codebook memory
  decresidual, \* the residual coded so far
  reverse,     \* reverseDecresidual
  searched,    \* history: what the encoder coded each vector from and for
  built,       \* history: the memories the decoder used
  encoded      \* history: the encoder's own copy of the result

vars == <<mode, start, stateFirst, side, step, subframe, subcount, mem,
          decresidual, reverse, searched, built, encoded>>
frame == <<mode, start, stateFirst>>
-----------------------------------------------------------------------------
FrameSamples == 40 * subframes

diff == 80 - shortStateSamples
startPos == (start - 1) * 40 + (IF stateFirst = 1 THEN 0 ELSE diff)
nfor == subframes - start - 1
nback == start - 1
memlGotten == LET n == 40 * (subframes + 1 - start) IN IF n > 147 THEN 147 ELSE n
stMemL == 85
memLf == 147

Zero == <<-1, 0>>
Samples == 0 .. 239
Memory == 0 .. 146
Silence == [i \in Samples |-> Zero]
NoMemory == [i \in Memory |-> Zero]

\* r with the n samples from p on replaced by vector v.
Put(r, p, n, v) ==
  [i \in Samples |-> IF i \in p .. (p + n - 1) THEN <<v, i - p>> ELSE r[i]]

\* The memory that ends with the n samples of r from p on, zeros before it.
Forward(r, p, n) ==
  [i \in Memory |-> IF i < 147 - n THEN Zero ELSE r[p + i - (147 - n)]]

\* The same in reversed time: mem[146-k] = r[p+k].
Backward(r, p, n) ==
  [i \in Memory |-> IF i < 147 - n THEN Zero ELSE r[p + 146 - i]]

\* The memory moves by the 40 samples of vector v.
Slide(m, v) == [i \in Memory |-> IF i < 107 THEN m[i + 40] ELSE <<v, i - 107>>]

\* The part of memory m that a codebook of n samples uses.
Last(m, n) == [i \in (147 - n) .. 146 |-> m[i]]

Init ==
  /\ mode \in {20, 30}
  /\ start \in 1 .. (IF mode = 30 THEN 5 ELSE 3)
  /\ stateFirst \in {0, 1}
  /\ side = "encode"
  /\ step = "state"
  /\ subframe = 0
  /\ subcount = 0
  /\ mem = NoMemory
  /\ decresidual = Silence
  /\ reverse = Silence
  /\ searched = <<>>
  /\ built = <<>>
  /\ encoded = Silence
-----------------------------------------------------------------------------
(* encodeFrame.  target[j] is the sample of the residual that the vector's *)
(* sample j is searched for, filter the subframe whose weighting is used.  *)

Record(m, target, filter) ==
  searched' = Append(searched, [memory |-> m, target |-> target, filter |-> filter])

EncodeState ==
  /\ side = "encode" /\ step = "state"
  /\ decresidual' = Put(decresidual, startPos, shortStateSamples, 0)
  /\ Record(<<>>, [j \in 0 .. (shortStateSamples - 1) |-> startPos + j], start - 1)
  /\ step' = "extra"
  /\ UNCHANGED <<frame, side, subframe, subcount, mem, reverse, built, encoded>>

\* The state comes first: the rest of its subframes follows it in time.
EncodeExtraAfter ==
  LET from == startPos + shortStateSamples
  IN  /\ side = "encode" /\ step = "extra" /\ stateFirst = 1
      /\ mem' = Forward(decresidual, startPos, shortStateSamples)
      /\ Record(Last(mem', stMemL), [j \in 0 .. (diff - 1) |-> from + j], start)
      /\ decresidual' = Put(decresidual, from, diff, 1)
      /\ step' = IF nfor > 0 THEN "forward" ELSE "backward"
      /\ UNCHANGED <<frame, side, subframe, subcount, reverse, built, encoded>>

\* The rest of its subframes precedes the state and is coded in reverse.
EncodeExtraBefore ==
  /\ side = "encode" /\ step = "extra" /\ stateFirst = 0
  /\ mem' = Backward(decresidual, startPos, shortStateSamples)
  /\ Record(Last(mem', stMemL),
            [j \in 0 .. (diff - 1) |-> (start + 1) * 40 - 1 - (j + shortStateSamples)],
            start - 1)
  /\ reverse' = Put(reverse, 0, diff, 1)
  /\ decresidual' = [i \in Samples |->
       IF startPos - 1 - i \in 0 .. (diff - 1) THEN reverse'[startPos - 1 - i]
       ELSE decresidual[i]]
  /\ step' = IF nfor > 0 THEN "forward" ELSE "backward"
  /\ UNCHANGED <<frame, side, subframe, subcount, built, encoded>>

\* One subframe after the state.
EncodeForward ==
  LET v    == 2 + subcount
      from == (start + 1 + subframe) * 40
      m    == IF subframe = 0 THEN Forward(decresidual, (start - 1) * 40, 80) ELSE mem
  IN  /\ side = "encode" /\ step = "forward" /\ subframe < nfor
      /\ Record(Last(m, memLf), [j \in 0 .. 39 |-> from + j], start + 1 + subframe)
      /\ decresidual' = Put(decresidual, from, 40, v)
      /\ mem' = Slide(m, v)
      /\ subcount' = subcount + 1
      /\ subframe' = subframe + 1
      /\ UNCHANGED <<frame, side, step, reverse, built, encoded>>

ForwardDone ==
  /\ step = "forward" /\ subframe = nfor
  /\ subframe' = 0
  /\ step' = "backward"
  /\ UNCHANGED <<frame, side, subcount, mem, decresidual, reverse, searched, built,
                 encoded>>

\* The subframe whose filter weights the search, counted from 0.
BackFilter == start - 2 - subframe

\* One subframe before the state, in reverse.
EncodeBackward ==
  LET v == 2 + subcount
      m == IF subframe = 0 THEN Backward(decresidual, (start - 1) * 40, memlGotten)
           ELSE mem
      r == IF subframe = 0
           THEN [i \in Samples |-> IF i < 40 * nback
                                   THEN decresidual[(start - 1) * 40 - 1 - i]
                                   ELSE reverse[i]]
           ELSE reverse
  IN  /\ side = "encode" /\ step = "backward" /\ subframe < nback
      /\ Record(Last(m, memLf),
                [j \in 0 .. 39 |-> (start - 1) * 40 - 1 - subframe * 40 - j],
                BackFilter)
      /\ reverse' = Put(r, subframe * 40, 40, v)
      /\ mem' = Slide(m, v)
      /\ subcount' = subcount + 1
      /\ subframe' = subframe + 1
      /\ UNCHANGED <<frame, side, step, decresidual, built, encoded>>

\* The reversed subframes go to their places.
Unreversed ==
  [i \in Samples |-> IF i < 40 * nback THEN reverse[40 * nback - i - 1]
                     ELSE decresidual[i]]

\* The frame is sent; the decoder starts with buffers of its own.
EncodeFinish ==
  /\ side = "encode" /\ step = "backward" /\ subframe = nback
  /\ encoded' = Unreversed
  /\ side' = "decode" /\ step' = "state"
  /\ subframe' = 0 /\ subcount' = 0
  /\ mem' = NoMemory /\ decresidual' = Silence /\ reverse' = Silence
  /\ UNCHANGED <<frame, searched, built>>
-----------------------------------------------------------------------------
(* decode                                                                  *)

DecodeState ==
  /\ side = "decode" /\ step = "state"
  /\ decresidual' = Put(decresidual, startPos, shortStateSamples, 0)
  /\ built' = Append(built, <<>>)
  /\ step' = "extra"
  /\ UNCHANGED <<frame, side, subframe, subcount, mem, reverse, searched, encoded>>

DecodeExtraAfter ==
  /\ side = "decode" /\ step = "extra" /\ stateFirst = 1
  /\ mem' = Forward(decresidual, startPos, shortStateSamples)
  /\ built' = Append(built, Last(mem', stMemL))
  /\ decresidual' = Put(decresidual, startPos + shortStateSamples, diff, 1)
  /\ step' = IF nfor > 0 THEN "forward" ELSE "backward"
  /\ UNCHANGED <<frame, side, subframe, subcount, reverse, searched, encoded>>

DecodeExtraBefore ==
  /\ side = "decode" /\ step = "extra" /\ stateFirst = 0
  /\ mem' = Backward(decresidual, startPos, shortStateSamples)
  /\ built' = Append(built, Last(mem', stMemL))
  /\ reverse' = Put(reverse, 0, diff, 1)
  /\ decresidual' = [i \in Samples |->
       IF startPos - 1 - i \in 0 .. (diff - 1) THEN reverse'[startPos - 1 - i]
       ELSE decresidual[i]]
  /\ step' = IF nfor > 0 THEN "forward" ELSE "backward"
  /\ UNCHANGED <<frame, side, subframe, subcount, searched, encoded>>

\* Mutant: the memory is not moved on after a subframe.
DecodeForwardKeeps ==
  LET m == IF subframe = 0 THEN Forward(decresidual, (start - 1) * 40, 80) ELSE mem
  IN  /\ side = "decode" /\ step = "forward" /\ subframe < nfor
      /\ built' = Append(built, Last(m, memLf))
      /\ decresidual' = Put(decresidual, (start + 1 + subframe) * 40, 40, 2 + subcount)
      /\ mem' = m
      /\ subcount' = subcount + 1
      /\ subframe' = subframe + 1
      /\ UNCHANGED <<frame, side, step, reverse, searched, encoded>>

DecodeForward ==
  LET m == IF subframe = 0 THEN Forward(decresidual, (start - 1) * 40, 80) ELSE mem
  IN  /\ side = "decode" /\ step = "forward" /\ subframe < nfor
      /\ built' = Append(built, Last(m, memLf))
      /\ decresidual' = Put(decresidual, (start + 1 + subframe) * 40, 40, 2 + subcount)
      /\ mem' = Slide(m, 2 + subcount)
      /\ subcount' = subcount + 1
      /\ subframe' = subframe + 1
      /\ UNCHANGED <<frame, side, step, reverse, searched, encoded>>

DecodeBackward ==
  LET m == IF subframe = 0 THEN Backward(decresidual, (start - 1) * 40, memlGotten)
           ELSE mem
  IN  /\ side = "decode" /\ step = "backward" /\ subframe < nback
      /\ built' = Append(built, Last(m, memLf))
      /\ reverse' = Put(reverse, subframe * 40, 40, 2 + subcount)
      /\ mem' = Slide(m, 2 + subcount)
      /\ subcount' = subcount + 1
      /\ subframe' = subframe + 1
      /\ UNCHANGED <<frame, side, step, decresidual, searched, encoded>>

\* Mutant: the subframes before the state stay in reversed order.
DecodeFinishReversed ==
  /\ side = "decode" /\ step = "backward" /\ subframe = nback
  /\ decresidual' = [i \in Samples |-> IF i < 40 * nback THEN reverse[i] ELSE decresidual[i]]
  /\ side' = "done"
  /\ UNCHANGED <<frame, step, subframe, subcount, mem, reverse, searched, built, encoded>>

DecodeFinish ==
  /\ side = "decode" /\ step = "backward" /\ subframe = nback
  /\ decresidual' = Unreversed
  /\ side' = "done"
  /\ UNCHANGED <<frame, step, subframe, subcount, mem, reverse, searched, built, encoded>>

Next ==
  \/ EncodeState \/ EncodeExtraAfter \/ EncodeExtraBefore \/ EncodeForward
  \/ ForwardDone \/ EncodeBackward \/ EncodeFinish
  \/ DecodeState \/ DecodeExtraAfter \/ DecodeExtraBefore \/ DecodeForward
  \/ DecodeBackward \/ DecodeFinish

Spec == Init /\ [][Next]_vars
-----------------------------------------------------------------------------
\* The decoder builds each vector from the memory the encoder searched it in,
\* whatever the place of the state in the frame (both sides of the code fill
\* and move mem with their own copy of the loops).
MemoriesAgree ==
  \A v \in 1 .. Len(built) : built[v] = searched[v].memory

\* Every sample of the frame is rebuilt, from the vector and the place in it
\* that the encoder searched for that very sample, weighted with the filter of
\* its subframe; and the encoder's own copy is what the decoder gets.
RebuiltInPlace ==
  side = "done" =>
    /\ decresidual = encoded
    /\ \A i \in 0 .. (FrameSamples - 1) :
         LET s == decresidual[i]
             v == searched[s[1] + 1]
         IN  /\ s # Zero /\ v.target[s[2]] = i
             /\ s[1] > 0 => v.filter = i \div 40
=============================================================================
