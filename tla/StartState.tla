----------------------------- MODULE StartState -----------------------------
(***************************************************************************)
(* The start state: the 57 or 58 samples of a frame that are coded one by  *)
(* one.  They lie in two subframes, which have filters of their own, and   *)
(* absQuantW changes filters on its way (src/statesearchw.go); the decoder *)
(* rebuilds them in reverse (src/stateconstructw.go).  Samples are numbers *)
(* from 0; a filter is the subframe it belongs to.                         *)
(***************************************************************************)
EXTENDS FrameMode, Sequences

VARIABLES
  start, stateFirst,
  n,          \* the sample absQuantW is at
  filter,     \* the subframe syntDenum and weightDenum point to
  weighted,   \* each sample: the filters its target went through, in order
  quantised,  \* each sample: the filter used when it was quantised
  rebuilt     \* each sample: the code it was rebuilt from

vars == <<mode, start, stateFirst, n, filter, weighted, quantised, rebuilt>>

len     == shortStateSamples
Samples == 0 .. (len - 1)

\* Where the state begins in the frame.
startPos == (start - 1) * 40 + (IF stateFirst = 1 THEN 0 ELSE 80 - len)

\* The two subframes of most energy, and the end of them that has more.
Init ==
  /\ mode \in {20, 30}
  /\ start \in 1 .. (subframes - 1)
  /\ stateFirst \in {0, 1}
  /\ n = -1 /\ filter = start - 1
  /\ weighted = [k \in Samples |-> <<>>]
  /\ quantised = <<>> /\ rebuilt = <<>>

\* allPoleFilter over the targets from first on.
Weight(first, count) ==
  weighted' = [k \in Samples |-> IF k \in first .. (first + count - 1)
                                 THEN Append(weighted[k], filter') ELSE weighted[k]]

Begin ==
  /\ n = -1
  /\ n' = 0
  /\ UNCHANGED filter
  /\ Weight(0, IF stateFirst = 1 THEN 40 ELSE len - 40)
  /\ UNCHANGED <<mode, start, stateFirst, quantised, rebuilt>>

\* Mutant: the second filter always begins at 40.
SwitchAt40 == n = 40
\* The sample is the first of the second subframe.
Switch == IF stateFirst = 1 THEN n = 40 ELSE n = len - 40

Quantise ==
  /\ n \in Samples
  /\ IF Switch THEN filter' = filter + 1 /\ Weight(n, len - n)
     ELSE UNCHANGED <<filter, weighted>>
  /\ quantised' = Append(quantised, filter')
  /\ n' = n + 1
  /\ UNCHANGED <<mode, start, stateFirst, rebuilt>>

\* tmp is filled from the last code on; out takes fout from its last sample on.
Construct ==
  LET tmp == [k \in Samples |-> len - 1 - k]
  IN  /\ n = len
      /\ n' = len + 1
      /\ rebuilt' = [k \in Samples |-> tmp[len - 1 - k]]
      /\ UNCHANGED <<mode, start, stateFirst, filter, weighted, quantised>>

Next == Begin \/ Quantise \/ Construct

Spec == Init /\ [][Next]_vars
-----------------------------------------------------------------------------
\* Each sample of the state is weighted once, before it is quantised and by
\* the filter of the subframe it lies in, whichever end of the two subframes
\* the state is at, and is rebuilt from its own code (statesearchw.go,
\* absQuantW, where the change of filters is a comparison of loop counters).
StateInPlace ==
  /\ \A k \in 0 .. (n - 1) : k \in Samples =>
       LET own == (startPos + k) \div 40
       IN  weighted[k] = <<own>> /\ quantised[k + 1] = own
  /\ n = len + 1 => \A k \in Samples : rebuilt[k] = k
=============================================================================
