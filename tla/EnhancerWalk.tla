---------------------------- MODULE EnhancerWalk ----------------------------
(***************************************************************************)
(* One block of the enhancer (src/enhancer.go, enhancer): getsseq walks    *)
(* from the block to three segments before and three after it, one pitch   *)
(* period at a time; refiner looks for the best place of each segment in   *)
(* quarters of a sample; smath joins them.  Positions are in quarters.     *)
(* Which place correlates best is a choice.                                *)
(***************************************************************************)
EXTENDS Integers

CONSTANT Histories   \* what the periods of the eight blocks of residual may be

hl == 3           \* segments on either side
idatal == 640
Periods == 0 .. 7

ASSUME HistoriesAssumption == Histories \subseteq [Periods -> 19 .. 119]

Centres == {320, 400, 480} \cup {440, 520}   \* at 30 and at 20 ms

VARIABLES
  centre,    \* centerStartPos
  period,    \* of the eight blocks of residual
  q,         \* the segment of sseq that was filled last; hl is the block itself
  lagBlock,  \* the block whose period is used
  est,       \* where the segment was expected
  fill,      \* "copied", "refined" or "cleared"
  tloc       \* what refiner found, from the start of its search

vars == <<centre, period, q, lagBlock, est, fill, tloc>>

plocs  == [i \in Periods |-> 4 * (80 * i + 40)]
plocs2 == [i \in Periods |-> plocs[i] - 4 * period[i]]

Distance(a, b) == IF a < b THEN b - a ELSE a - b

\* The first of the nearest.
nearestNeighbor(array, value) ==
  CHOOSE i \in DOMAIN array : \A j \in DOMAIN array :
    \/ Distance(array[i], value) < Distance(array[j], value)
    \/ Distance(array[i], value) = Distance(array[j], value) /\ i <= j
-----------------------------------------------------------------------------
(* refiner.                                                                *)

estSegPosRounded  == (est - 2) \div 4
searchSegStartPos == IF estSegPosRounded < 2 THEN 0 ELSE estSegPosRounded - 2
searchSegEndPos ==
  IF estSegPosRounded + 2 + 80 >= idatal THEN idatal - 80 - 1 ELSE estSegPosRounded + 2
corrdim == searchSegEndPos - searchSegStartPos + 1

updStartPos == 4 * searchSegStartPos + tloc + 4

tloc2 == (tloc + 3) \div 4
st == searchSegStartPos + tloc2 - 3
\* Mutant: the fraction counts upwards.
fractionUp == tloc % 4
fraction == tloc2 * 4 - tloc

\* An access of a buffer: its first and last index, and the buffer's size.
Access(buffer, first, last, size) ==
  [buffer |-> buffer, first |-> first, last |-> last, size |-> size]

\* Mutant: no zeros before the history.
VectAccessesUnpadded ==
  {Access("idata", st, (IF st + 86 > idatal THEN idatal ELSE st + 86) - 1, idatal)}
\* 86 samples from st, with zeros where the history ends.
VectAccesses ==
  IF st < 0
  THEN {Access("vect", 0, -st - 1, 86), Access("idata", 0, 86 + st - 1, idatal)}
  ELSE IF st + 86 > idatal
  THEN {Access("idata", st, idatal - 1, idatal),
        Access("vect", 86 - (st + 86 - idatal), 85, 86)}
  ELSE {Access("idata", st, st + 85, idatal)}

\* upsampleEnhancement, with the filter shortened to the correlations there are.
hfl == IF 7 > corrdim THEN corrdim \div 2 ELSE 3
filterlength == 2 * hfl + 1
Taps == IF corrdim > filterlength THEN corrdim ELSE filterlength
Upsampled == (filterlength - hfl) + (Taps - filterlength) + hfl
UpsampleAccesses ==
  {Access("corrVec", 0, Taps - 1, 5),
   Access("corrVec", corrdim - filterlength + 1, corrdim - 1, 5),
   Access("polyphaserTbl", 3 - hfl, 3 * 7 + 3 - hfl + filterlength - 1, 28),
   Access("corrVecUps", 0, 4 * Upsampled - 1, 20),
   Access("upsampled", 0, 4 * corrdim - 1, 4 * Upsampled)}

refinerAccesses ==
  {Access("idata", searchSegStartPos, searchSegStartPos + corrdim + 78, idatal),
   Access("idata", centre, centre + 79, idatal),
   Access("corrVec", 0, corrdim - 1, 5),
   Access("polyphaserTbl", 7 * fraction, 7 * fraction + 6, 28)}
  \cup VectAccesses \cup UpsampleAccesses
-----------------------------------------------------------------------------
(* getsseq.                                                                *)

\* blockStartPos[q]
position == CASE fill = "copied"  -> 4 * centre
              [] fill = "cleared" -> est
              [] fill = "refined" -> updStartPos

Init ==
  /\ centre \in Centres
  /\ period \in Histories
  /\ q = hl
  /\ lagBlock = nearestNeighbor(plocs, 4 * centre + 158)
  /\ est = 4 * centre
  /\ fill = "copied" /\ tloc = 0

Fill(inside) ==
  /\ fill' = IF inside THEN "refined" ELSE "cleared"
  /\ tloc' \in IF inside THEN 0 .. (4 * corrdim' - 1) ELSE {0}

Backward ==
  /\ q \in 1 .. hl
  /\ q' = q - 1
  /\ est' = position - 4 * period[lagBlock]
  /\ lagBlock' = nearestNeighbor(plocs, est' + 160 - 4 * period[lagBlock])
  /\ Fill(est' - 8 >= 0)
  /\ UNCHANGED <<centre, period>>

\* Mutant: the second half goes on from the last segment of the first.
FromLast == position
\* blockStartPos[q - 1] of the second half.
From == IF q = 0 THEN 4 * centre ELSE position

Forward ==
  /\ q \in {0} \cup (hl + 1) .. (2 * hl - 1)
  /\ q' = IF q = 0 THEN hl + 1 ELSE q + 1
  /\ lagBlock' = nearestNeighbor(plocs2, From + 160)
  /\ est' = From + 4 * period[lagBlock']
  /\ Fill(est' + 4 * 82 < 4 * idatal)
  /\ UNCHANGED <<centre, period>>

Next == Backward \/ Forward

Spec == Init /\ [][Next]_vars
-----------------------------------------------------------------------------
\* Whatever the periods and the places found, every sample read or written is
\* inside its buffer, and no correlation is compared that was not computed
\* (enhancer.go, refiner, upsampleEnhancement).
WalkInBounds ==
  fill = "refined" => \A a \in refinerAccesses : 0 <= a.first /\ a.last < a.size

\* The segment that is interpolated starts where blockStartPos says, which is
\* one sample late by RFC 3951's convention, and that is one period from the
\* last one, up to the width of the search (enhancer.go, refiner: st, fraction
\* and updStartPos are three roundings of one place).
SegmentInPlace ==
  fill = "refined" =>
    /\ 4 * (st + 3) - fraction = updStartPos - 4
    /\ updStartPos - est \in -10 .. 13

\* Segments follow each other in time: none is used twice, and once the walk
\* has left the history on one side it stays outside (enhancer.go, getsseq).
WalkGoesOutward ==
  [][LET from == IF q = 0 THEN 4 * centre ELSE position
         left == fill = "cleared" /\ q # 0
     IN  /\ IF q' < hl THEN position' < from ELSE position' > from
         /\ left => fill' = "cleared"]_vars
=============================================================================
