--------------------------- MODULE CodebookSearch ---------------------------
(***************************************************************************)
(* Codebook indices (src/icbsearch.go, createcb.go, icbconstruct.go and    *)
(* getcbvec.go): which candidates one stage of the encoder's search looks  *)
(* at, what the index it settles on becomes on the wire, and what the      *)
(* decoder makes of it.                                                    *)
(*                                                                         *)
(* The correlations are not computed: the best candidate is any one the    *)
(* search compares.  A codebook vector is described by how many samples    *)
(* before the end of the memory it starts (its lag), whether the memory is *)
(* filtered first, and whether the vector is shorter than the target and   *)
(* therefore repeated (augmented).  A stage is searched by itself: what    *)
(* one stage leaves for the next is the table of energies, covered below.  *)
(***************************************************************************)
EXTENDS Integers, FiniteSets

VARIABLES
  mode,     \* frame length in ms
  block,    \* 0: the rest of the state's subframes; others: subframes in order
  stage,    \* 0 .. 2
  step,     \* what happens next
  best,     \* bestIndex
  range,    \* the refined search: sInd, eInd, sIndAug, eIndAug
  wire,     \* the index in the frame
  damaged,  \* history: the frame was altered on its way
  decoded,  \* the index the decoder works with
  touched   \* history: ranges of the buffers that were accessed

searchVars == <<mode, block, stage, step, best, range, wire, damaged, decoded, touched>>
call == <<mode, block, stage>>
-----------------------------------------------------------------------------
lTarget == IF block > 0 THEN 40 ELSE IF mode = 30 THEN 22 ELSE 23
lMem == IF block > 0 THEN 147 ELSE 85
\* Vectors that lie in the memory, and those together with augmented ones.
Plain == lMem - lTarget + 1
baseSize == IF lTarget = 40 THEN Plain + lTarget \div 2 ELSE Plain

\* Mutant: the small range for the first stage.
RangeOfSwapped(s) ==
  IF block = 0 THEN 58 ELSE IF block = 1 /\ s = 0 THEN 44 ELSE 108
\* searchRangeTbl
RangeOf(s) ==
  IF block = 0 THEN 58 ELSE IF block = 1 /\ s > 0 THEN 44 ELSE 108
valueRange == RangeOf(stage)

\* What the index's field can hold: 7 or 8 bits (the ULP tables, all classes
\* together).
Field == 0 .. (IF block = 0 \/ (block = 1 /\ stage > 0) THEN 127 ELSE 255)

Slice(lo, n, size) == [lo |-> lo, hi |-> lo + n - 1, size |-> size]
NoRange == [sInd |-> 0, eInd |-> 0, sIndAug |-> 0, eIndAug |-> 0]

SearchInit ==
  /\ mode \in {20, 30}
  /\ block \in 0 .. (IF mode = 30 THEN 4 ELSE 2)
  /\ stage \in 0 .. 2
  /\ step = "base"
  /\ best = 0
  /\ range = NoRange
  /\ wire = 0
  /\ damaged = FALSE
  /\ decoded = 0
  /\ touched = {}
-----------------------------------------------------------------------------
(* searchCodebook                                                          *)

\* createAugmentedVec and searchAugmentedCB for a lag, on a buffer of which n
\* samples precede the end of the memory.
AugmentedAccesses(lag, n, size) ==
  {Slice(n - lag, lag, size), Slice(n - lag - 5, 5, size), Slice(n - 5, 5, size)}

\* The candidates in the memory itself and the augmented ones.
BaseIndices ==
  (0 .. (valueRange - 1))
  \cup (IF lTarget = 40 THEN (baseSize - 20) .. (baseSize - 1) ELSE {})

\* The slices of buf that are compared; ppi is one sample before each.
BaseAccesses ==
  {Slice(10 + lMem - lTarget - i, lTarget, 207) : i \in 0 .. (valueRange - 1)}
  \cup (IF stage = 0
        THEN {Slice(10 + lMem - lTarget - i, 1, 207) : i \in 1 .. (valueRange - 1)}
        ELSE {})
  \cup (IF lTarget = 40
        THEN UNION {AugmentedAccesses(lag, 10 + lMem, 207) : lag \in 20 .. 39}
        ELSE {})

SearchBase ==
  /\ step = "base"
  /\ best' \in BaseIndices
  /\ touched' = BaseAccesses
  /\ step' = "refine"
  /\ UNCHANGED <<call, range, wire, damaged, decoded>>

\* Mutant: the window is not moved back when it leaves the range.
WindowUnclipped ==
  LET s == best - 17
      e == s + 34
  IN  IF lTarget # 40
      THEN [NoRange EXCEPT !.sInd = IF s < 0 THEN 0 ELSE s,
                           !.eInd = IF s < 0 THEN e - s ELSE e]
      ELSE IF s < 0
      THEN [sInd |-> 0, eInd |-> e, sIndAug |-> 40 + s, eIndAug |-> 39]
      ELSE IF best < baseSize - 20
      THEN [NoRange EXCEPT !.sInd = s, !.eInd = e]
      ELSE IF s < baseSize - 20
      THEN [sInd |-> 0, eInd |-> 14, sIndAug |-> 20, eIndAug |-> 39]
      ELSE [sInd |-> 0, eInd |-> 34 - (20 - (s - (baseSize - 20))),
            sIndAug |-> 20 + s - (baseSize - 20), eIndAug |-> 39]

\* The window of 34 filtered candidates around the best one so far.
Window ==
  LET s    == best - 17
      e    == s + 34
      low  == IF s < 0 THEN 0 ELSE s
      high == IF s < 0 THEN e - s ELSE e
      over == IF high > valueRange THEN high - valueRange ELSE 0
  IN  IF lTarget # 40
      THEN [NoRange EXCEPT !.sInd = low - over, !.eInd = high - over]
      ELSE IF s < 0
      THEN [sInd |-> 0, eInd |-> e, sIndAug |-> 40 + s, eIndAug |-> 39]
      ELSE IF best < baseSize - 20
      THEN [NoRange EXCEPT !.sInd = s - over, !.eInd = e - over]
      ELSE IF s < baseSize - 20
      THEN [sInd |-> 0, eInd |-> 53 - 39, sIndAug |-> 20, eIndAug |-> 39]
      ELSE LET aug == 20 + s - (baseSize - 20)
           IN  [sInd |-> 0, eInd |-> 34 - (39 - aug + 1), sIndAug |-> aug, eIndAug |-> 39]

\* The indices of a window: filtered vectors, and filtered augmented ones.
FilteredIndices(w) == (baseSize + w.sInd) .. (baseSize + w.eInd - 1)
AugmentedIndices(w) ==
  IF lTarget = 40 /\ w.sIndAug # 0
  THEN {2 * baseSize - 20 + lag - 20 : lag \in w.sIndAug .. w.eIndAug}
  ELSE {}

FilteredAccesses(w) ==
  {Slice(lMem - c - lTarget, lTarget, 147) : c \in w.sInd .. (w.eInd - 1)}
  \cup (IF stage = 0
        THEN {Slice(lMem - 1 - lTarget - j, 1, 147) : j \in 0 .. (valueRange - 2)}
        ELSE {})
  \cup {Slice(i, 1, 256) : i \in FilteredIndices(w) \cup AugmentedIndices(w)}
  \cup (IF AugmentedIndices(w) # {}
        THEN UNION {AugmentedAccesses(lag, lMem, 147) : lag \in w.sIndAug .. w.eIndAug}
        ELSE {})

\* The filtered candidates; the winner's index is stored.
SearchFiltered ==
  /\ step = "refine"
  /\ range' = Window
  /\ best' \in {best} \cup FilteredIndices(range') \cup AugmentedIndices(range')
  /\ touched' = FilteredAccesses(range')
  /\ step' = "send"
  /\ UNCHANGED <<call, wire, damaged, decoded>>

Vector(lag, filtered, augmented) ==
  [lag |-> lag, filtered |-> filtered, augmented |-> augmented]

\* The vector that is subtracted from the target for the next stage.
EncoderVector(i) ==
  LET filterno == i \div baseSize
      position == i - filterno * baseSize
  IN  IF lTarget # 40
      THEN Vector(lTarget + (IF i < baseSize THEN i ELSE i - baseSize), i >= baseSize, FALSE)
      ELSE IF position < baseSize - 20
      THEN Vector(lTarget + position, filterno = 1, FALSE)
      ELSE Vector(position - baseSize + 40, filterno = 1, TRUE)
-----------------------------------------------------------------------------
(* The frame: the last two stages of the first subframe have 7 bits.       *)

convertEncoderIndices(i) ==
  IF i >= 108 /\ i < 172 THEN i - 64 ELSE IF i >= 236 THEN i - 128 ELSE i

\* Mutant: the boundary of the middle range is off by one.
convertDecoderOff(i) ==
  IF i > 44 /\ i < 108 THEN i + 64 ELSE IF i >= 108 /\ i < 128 THEN i + 128 ELSE i
convertDecoderIndices(i) ==
  IF i >= 44 /\ i < 108 THEN i + 64 ELSE IF i >= 108 /\ i < 128 THEN i + 128 ELSE i

Converted == block = 1 /\ stage > 0

Send ==
  /\ step = "send"
  /\ wire' = IF Converted THEN convertEncoderIndices(best) ELSE best
  /\ step' = "receive"
  /\ range' = NoRange /\ touched' = {}
  /\ UNCHANGED <<call, best, damaged, decoded>>

\* Bit errors that leave the start index and the empty-frame bit alone.
Damage ==
  /\ step = "receive" /\ ~damaged
  /\ wire' \in Field
  /\ damaged' = TRUE
  /\ best' = 0
  /\ UNCHANGED <<call, step, range, decoded, touched>>
-----------------------------------------------------------------------------
(* getCBvec                                                                *)

\* Reads of a repeated vector of lag k \div 2 from a buffer of lMem samples.
RepeatedAccesses(k) ==
  LET high == k \div 2
  IN  {Slice(lMem - high, high, lMem), Slice(lMem - k + high - 5, 5, lMem),
       Slice(lMem - k + high, lTarget - high, lMem), Slice(0, high - 5, lTarget),
       Slice(high, lTarget - high, lTarget)}

\* The filter reads 8 samples around each one it computes.
FilterAccesses(k, n) == {Slice(lMem - k + 1, n + 7, 156), Slice(lMem - k, n, 147)}

DecoderVector(i) ==
  IF i < Plain THEN Vector(i + lTarget, FALSE, FALSE)
  ELSE IF i < baseSize THEN Vector((2 * (i - Plain) + lTarget) \div 2, FALSE, TRUE)
  ELSE IF i - baseSize < Plain THEN Vector(i - baseSize + lTarget, TRUE, FALSE)
  ELSE Vector((2 * (i - baseSize - Plain) + lTarget) \div 2, TRUE, TRUE)

DecoderAccesses(i) ==
  IF i < Plain THEN {Slice(lMem - (i + lTarget), lTarget, lMem)}
  ELSE IF i < baseSize THEN RepeatedAccesses(2 * (i - Plain) + lTarget)
  ELSE IF i - baseSize < Plain THEN FilterAccesses(i - baseSize + lTarget, lTarget)
  ELSE LET k == 2 * (i - baseSize - Plain) + lTarget
       IN  FilterAccesses(k, k) \cup RepeatedAccesses(k)

Receive ==
  /\ step = "receive"
  /\ decoded' = IF Converted THEN convertDecoderIndices(wire) ELSE wire
  /\ touched' = DecoderAccesses(decoded')
  /\ step' = "done"
  /\ UNCHANGED <<call, best, range, wire, damaged>>

Done == step = "done" /\ UNCHANGED searchVars

SearchNext == SearchBase \/ SearchFiltered \/ Send \/ Damage \/ Receive \/ Done

SearchSpec == SearchInit /\ [][SearchNext]_searchVars
-----------------------------------------------------------------------------
\* Every candidate the search compares, every energy it stores and every
\* vector the decoder builds, from an index it was sent or from a damaged
\* one, lies inside its buffer.
BuffersRespected == \A a \in touched : 0 <= a.lo /\ a.lo <= a.hi /\ a.hi < a.size

\* The index fits its field, and the decoder builds the vector the encoder
\* subtracted from its target: the re-mapping of 7-bit indices loses nothing,
\* and encoder and decoder divide the index space in the same way.
SameVector ==
  /\ step = "receive" => wire \in Field
  /\ step = "done" /\ ~damaged =>
       decoded = best /\ DecoderVector(decoded) = EncoderVector(best)

\* The refined search looks at 34 candidates wherever the first search ended,
\* and only at ones whose energy the first stage computed (icbsearch.go, the
\* loop to valueRange-1 of stage 0; an entry that was left out would silently
\* never win).
WindowComplete ==
  step = "send" =>
    /\ Cardinality(FilteredIndices(range) \cup AugmentedIndices(range)) = 34
    /\ FilteredIndices(range) \subseteq baseSize .. (baseSize + RangeOf(0) - 1)
    /\ FilteredIndices(range) \subseteq baseSize .. (baseSize + valueRange - 1)
=============================================================================
