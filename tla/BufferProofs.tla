---------------------------- MODULE BufferProofs ----------------------------
(***************************************************************************)
(* Proofs about code that computes its way through buffers: the walk of    *)
(* the enhancer and the codebook search.                                   *)
(*                                                                         *)
(* The walk of the enhancer is for every pitch period of every block.  TLC *)
(* follows a few periods; here the periods are any numbers in 19 .. 119,   *)
(* in any order.                                                           *)
(***************************************************************************)
EXTENDS EnhancerWalk, CodebookSearch, FiniteSetTheorems, TLAPS

\* Quarters are rounded down.
LEMMA Quarters ==
  ASSUME NEW x \in Int
  PROVE  /\ x \div 4 \in Int
         /\ 4 * (x \div 4) <= x
         /\ x < 4 * (x \div 4) + 4
BY SMT

LEMMA InInterval ==
  ASSUME NEW a, NEW b, NEW x \in a .. b
  PROVE  x \in Int
OBVIOUS

\* A place found near the one expected is still on its side of the last one.
LEMMA Beyond ==
  ASSUME NEW from \in Int, NEW e \in Int, NEW found \in Int
  PROVE  /\ from - e \in 76 .. 476 /\ found < e + 76 => found < from
         /\ e - from \in 76 .. 476 /\ found > e - 76 => found > from
OBVIOUS

\* Among the eight blocks one is the nearest and the first of the nearest.
LEMMA NearestExists ==
  ASSUME NEW array \in [Periods -> Int], NEW value \in Int
  PROVE  nearestNeighbor(array, value) \in Periods
<1> DEFINE d(i) == Distance(array[i], value)
           P(i, n) == \A j \in 0 .. n : d(i) < d(j) \/ (d(i) = d(j) /\ i <= j)
<1>0. \A i \in Periods : d(i) \in Int
  BY DEF Distance, Periods
<1> HIDE DEF d
<1>1. \E i \in 0 .. 0 : P(i, 0)
  BY <1>0 DEF Periods
<1>2. ASSUME NEW n \in 0 .. 6, \E i \in 0 .. n : P(i, n)
      PROVE  \E i \in 0 .. (n + 1) : P(i, n + 1)
  <2>1. PICK i \in 0 .. n : P(i, n)
    BY <1>2
  <2>2. CASE d(n + 1) < d(i)
    <3>1. P(n + 1, n + 1)
      BY <1>0, <2>1, <2>2 DEF Periods
    <3> QED BY <3>1
  <2>3. CASE ~(d(n + 1) < d(i))
    <3>1. P(i, n + 1)
      BY <1>0, <2>1, <2>3 DEF Periods
    <3> QED BY <3>1
  <2> QED BY <2>2, <2>3
<1>3. \E i \in 0 .. 7 : P(i, 7)
  <2>1. \E i \in 0 .. 1 : P(i, 1)
    BY <1>1, <1>2
  <2>2. \E i \in 0 .. 2 : P(i, 2)
    BY <2>1, <1>2
  <2>3. \E i \in 0 .. 3 : P(i, 3)
    BY <2>2, <1>2
  <2>4. \E i \in 0 .. 4 : P(i, 4)
    BY <2>3, <1>2
  <2>5. \E i \in 0 .. 5 : P(i, 5)
    BY <2>4, <1>2
  <2>6. \E i \in 0 .. 6 : P(i, 6)
    BY <2>5, <1>2
  <2> QED BY <2>6, <1>2
<1>4. DOMAIN array = Periods
  OBVIOUS
<1> QED BY <1>3, <1>4 DEF nearestNeighbor, Periods, d
-----------------------------------------------------------------------------
\* The numbers of the state.
Shape ==
  /\ centre \in Centres
  /\ period \in [Periods -> 19 .. 119]
  /\ q \in 0 .. 6
  /\ lagBlock \in Periods
  /\ est \in Int /\ tloc \in Int
  /\ fill \in {"copied", "refined", "cleared"}

\* What refiner was called with, and which side of the block the walk is on.
Side ==
  /\ fill = "copied" <=> q = hl
  /\ fill = "refined" => est \in 8 .. 2231 /\ tloc \in 0 .. (4 * corrdim - 1)
  /\ q = hl => est = 4 * centre
  /\ q < hl => est <= 4 * centre - 76 /\ (fill = "cleared" => est < 8)
  /\ q > hl => est >= 4 * centre + 76 /\ (fill = "cleared" => est > 2231)

IInv == Shape /\ Side

\* refiner searches four or five places, and the one it finds is less than a
\* period of 19 samples from the one expected.
LEMMA SearchHere ==
  ASSUME IInv, fill = "refined"
  PROVE  /\ estSegPosRounded \in 1 .. 557 /\ searchSegStartPos \in 0 .. 555
         /\ corrdim \in 4 .. 5 /\ searchSegStartPos + corrdim <= 560
         /\ tloc \in 0 .. (4 * corrdim - 1)
         /\ updStartPos \in Int /\ updStartPos - est \in -10 .. 13
<1>1. est \in 8 .. 2231 /\ tloc \in Int /\ tloc \in 0 .. (4 * corrdim - 1)
  BY DEF IInv, Shape, Side
<1>2. PICK e, t, s, c : /\ e = est /\ t = tloc
                        /\ s = searchSegStartPos /\ c = corrdim
  BY Zenon
<1>3. e \in 8 .. 2231 /\ t \in Int /\ t \in 0 .. (4 * c - 1)
  BY <1>1, <1>2
<1> DEFINE r == (e - 2) \div 4
<1>4. r \in Int /\ 4 * r <= e - 2 /\ e - 2 < 4 * r + 4
  BY <1>3, Quarters
<1>5. /\ r = estSegPosRounded
      /\ s = IF r < 2 THEN 0 ELSE r - 2
      /\ c = (IF r + 2 + 80 >= 640 THEN 640 - 80 - 1 ELSE r + 2) - s + 1
  BY <1>2 DEF estSegPosRounded, searchSegStartPos, searchSegEndPos, corrdim, idatal
<1> HIDE DEF r
<1>6. /\ r \in 1 .. 557 /\ s \in 0 .. 555 /\ c \in 4 .. 5 /\ s + c <= 560
      /\ 4 * s + t + 4 \in Int /\ (4 * s + t + 4) - e \in -10 .. 13
  BY <1>3, <1>4, <1>5
<1>7. updStartPos = 4 * s + t + 4
  BY <1>2 DEF updStartPos
<1> QED BY <1>1, <1>2, <1>5, <1>6, <1>7

LEMMA SearchThere ==
  ASSUME IInv', fill' = "refined"
  PROVE  updStartPos' \in Int /\ updStartPos' - est' \in -10 .. 13
<1>1. est' \in 8 .. 2231 /\ tloc' \in Int /\ tloc' \in 0 .. (4 * corrdim' - 1)
  BY DEF IInv, Shape, Side
<1>2. PICK e, t, s, c : /\ e = est' /\ t = tloc'
                        /\ s = searchSegStartPos' /\ c = corrdim'
  BY Zenon
<1>3. e \in 8 .. 2231 /\ t \in Int /\ t \in 0 .. (4 * c - 1)
  BY <1>1, <1>2
<1> DEFINE r == (e - 2) \div 4
<1>4. r \in Int /\ 4 * r <= e - 2 /\ e - 2 < 4 * r + 4
  BY <1>3, Quarters
<1>5. /\ s = IF r < 2 THEN 0 ELSE r - 2
      /\ c = (IF r + 2 + 80 >= 640 THEN 640 - 80 - 1 ELSE r + 2) - s + 1
  BY <1>2 DEF estSegPosRounded, searchSegStartPos, searchSegEndPos, corrdim, idatal
<1> HIDE DEF r
<1>6. /\ r \in 1 .. 557 /\ s \in 0 .. 555 /\ c \in 4 .. 5 /\ s + c <= 560
      /\ 4 * s + t + 4 \in Int /\ (4 * s + t + 4) - e \in -10 .. 13
  BY <1>3, <1>4, <1>5
<1>7. updStartPos' = 4 * s + t + 4
  BY <1>2 DEF updStartPos
<1> QED BY <1>2, <1>6, <1>7

LEMMA PositionHere ==
  ASSUME IInv
  PROVE  /\ position \in Int
         /\ q <= hl => position <= 4 * centre
         /\ q > hl => position >= 4 * centre
         /\ fill = "copied" => position = 4 * centre
         /\ fill = "cleared" => position = est
         /\ fill = "refined" => position - est \in -10 .. 13
<1>0. centre \in Int /\ est \in Int
  BY DEF IInv, Shape, Centres
<1>1. CASE fill = "copied"
  BY <1>0, <1>1 DEF IInv, Side, position, hl
<1>2. CASE fill = "cleared"
  <2>1. q \in Int /\ q # hl /\ position = est
    BY <1>2 DEF IInv, Shape, Side, position
  <2> QED BY <1>0, <1>2, <2>1 DEF IInv, Side, hl
<1>3. CASE fill = "refined"
  <2>1. updStartPos \in Int /\ updStartPos - est \in -10 .. 13
    BY <1>3, SearchHere
  <2>2. q \in Int /\ q # hl /\ position = updStartPos
    BY <1>3 DEF IInv, Shape, Side, position
  <2> QED BY <1>0, <1>3, <2>1, <2>2 DEF IInv, Side, hl
<1> QED BY <1>1, <1>2, <1>3 DEF IInv, Shape
-----------------------------------------------------------------------------
LEMMA LocationsTyped ==
  ASSUME IInv
  PROVE  plocs \in [Periods -> Int] /\ plocs2 \in [Periods -> Int]
<1>1. plocs \in [Periods -> Int]
  BY DEF plocs, Periods
<1>2. \A i \in Periods : period[i] \in Int
  BY DEF IInv, Shape
<1>3. \A i \in Periods : plocs[i] \in Int
  BY <1>1
<1>4. \A i \in Periods : plocs[i] - 4 * period[i] \in Int
  BY <1>2, <1>3
<1> QED BY <1>1, <1>4 DEF plocs2

LEMMA InitHolds ==
  ASSUME Init
  PROVE  IInv
<1>1. period \in [Periods -> 19 .. 119]
  BY HistoriesAssumption DEF Init
<1>2. centre \in Centres /\ centre \in Int
  BY DEF Init, Centres
<1>3. plocs \in [Periods -> Int]
  BY DEF plocs, Periods
<1>4. 4 * centre + 158 \in Int
  BY <1>2
<1>5. lagBlock \in Periods
  <2>1. nearestNeighbor(plocs, 4 * centre + 158) \in Periods
    BY <1>3, <1>4, NearestExists, Zenon
  <2> QED BY <2>1 DEF Init
<1>6. Shape
  BY <1>1, <1>2, <1>5 DEF Init, Shape, hl
<1>7. Side
  BY <1>2 DEF Init, Side, hl
<1> QED BY <1>6, <1>7 DEF IInv

\* A step towards the past.
LEMMA BackwardHolds ==
  ASSUME IInv, Backward
  PROVE  IInv' /\ est' \in Int /\ position - est' \in 76 .. 476
<1>1. /\ q \in 1 .. 3 /\ q' = q - 1 /\ centre \in Int /\ centre <= 520
      /\ centre' = centre /\ period' = period
  BY DEF IInv, Shape, Backward, hl, Centres
<1>2. position \in Int /\ position <= 4 * centre
  BY <1>1, PositionHere DEF hl
<1>3. period[lagBlock] \in 19 .. 119
  BY DEF IInv, Shape
<1>4. PICK p, l, e : p = position /\ l = period[lagBlock] /\ e = est'
  BY Zenon
<1>5. e = p - 4 * l
  BY <1>4 DEF Backward
<1>6. p \in Int /\ p <= 4 * centre /\ l \in 19 .. 119
  BY <1>2, <1>3, <1>4
<1>7. /\ e \in Int /\ p - e \in 76 .. 476
      /\ e <= 2004 /\ e <= 4 * centre - 76 /\ e + 160 - 4 * l \in Int
  BY <1>1, <1>5, <1>6
<1>8. lagBlock' \in Periods
  <2>1. nearestNeighbor(plocs, e + 160 - 4 * l) \in Periods
    BY <1>7, LocationsTyped, NearestExists
  <2> QED BY <1>4, <2>1 DEF Backward
<1>9. /\ fill' = IF e - 8 >= 0 THEN "refined" ELSE "cleared"
      /\ tloc' \in IF e - 8 >= 0 THEN 0 .. (4 * corrdim' - 1) ELSE {0}
  BY <1>4 DEF Backward, Fill
<1>10. /\ tloc' \in Int /\ fill' \in {"refined", "cleared"}
       /\ fill' = "refined" => e \in 8 .. 2231 /\ tloc' \in 0 .. (4 * corrdim' - 1)
       /\ fill' = "cleared" => e < 8
  <2>1. CASE e - 8 >= 0
    <3>1. e \in 8 .. 2231
      BY <1>7, <2>1
    <3> QED BY <1>9, <2>1, <3>1, InInterval
  <2>2. CASE ~(e - 8 >= 0)
    <3>1. e < 8
      BY <1>7, <2>2
    <3> QED BY <1>9, <2>2, <3>1
  <2> QED BY <2>1, <2>2
<1>11. Shape'
  <2>1. q' \in 0 .. 6
    BY <1>1
  <2> QED BY <1>1, <1>4, <1>7, <1>8, <1>10, <2>1 DEF IInv, Shape
<1>12. Side'
  <2>1. q' < 3 /\ ~(q' > 3) /\ q' # 3
    BY <1>1
  <2>2. e <= 4 * centre' - 76
    BY <1>1, <1>7
  <2>3. fill' # "copied"
    BY <1>10
  <2> QED BY <1>4, <1>10, <2>1, <2>2, <2>3 DEF Side, hl
<1> QED BY <1>4, <1>7, <1>11, <1>12 DEF IInv

\* A step towards the future.
LEMMA ForwardHolds ==
  ASSUME IInv, Forward
  PROVE  IInv' /\ est' \in Int /\ From \in Int /\ est' - From \in 76 .. 476
<1>1. /\ q \in {0, 4, 5} /\ q' \in 4 .. 6 /\ centre \in Int /\ centre >= 320
      /\ centre' = centre /\ period' = period
  BY DEF IInv, Shape, Forward, hl, Centres
<1>2. From \in Int /\ From >= 4 * centre
  <2>1. CASE q = 0
    BY <1>1, <2>1 DEF From
  <2>2. CASE q # 0
    <3>1. q > hl /\ From = position
      BY <1>1, <2>2 DEF hl, From
    <3> QED BY <3>1, PositionHere, Zenon
  <2> QED BY <2>1, <2>2
<1>3. PICK f, k, l, e : f = From /\ k = lagBlock' /\ l = period[k] /\ e = est'
  BY Zenon
<1>4. f \in Int /\ f >= 4 * centre /\ f + 160 \in Int
  BY <1>2, <1>3
<1>5. k \in Periods
  <2>1. nearestNeighbor(plocs2, f + 160) \in Periods
    BY <1>4, LocationsTyped, NearestExists
  <2> QED BY <1>3, <2>1 DEF Forward
<1>6. l \in 19 .. 119
  BY <1>3, <1>5 DEF IInv, Shape
<1>7. e = f + 4 * l
  BY <1>3 DEF Forward
<1>8. e \in Int /\ e - f \in 76 .. 476 /\ e >= 1356 /\ e >= 4 * centre + 76
  BY <1>1, <1>4, <1>6, <1>7
<1>9. /\ fill' = IF e + 4 * 82 < 4 * 640 THEN "refined" ELSE "cleared"
      /\ tloc' \in IF e + 4 * 82 < 4 * 640 THEN 0 .. (4 * corrdim' - 1) ELSE {0}
  BY <1>3 DEF Forward, Fill, idatal
<1>10. /\ tloc' \in Int /\ fill' \in {"refined", "cleared"}
       /\ fill' = "refined" => e \in 8 .. 2231 /\ tloc' \in 0 .. (4 * corrdim' - 1)
       /\ fill' = "cleared" => e > 2231
  <2>1. CASE e + 4 * 82 < 4 * 640
    <3>1. e \in 8 .. 2231
      BY <1>8, <2>1
    <3> QED BY <1>9, <2>1, <3>1, InInterval
  <2>2. CASE ~(e + 4 * 82 < 4 * 640)
    <3>1. e > 2231
      BY <1>8, <2>2
    <3> QED BY <1>9, <2>2, <3>1
  <2> QED BY <2>1, <2>2
<1>11. Shape'
  BY <1>1, <1>3, <1>5, <1>8, <1>10 DEF IInv, Shape
<1>12. Side'
  <2>1. q' > 3 /\ ~(q' < 3) /\ q' # 3
    BY <1>1
  <2>2. e >= 4 * centre' + 76
    BY <1>1, <1>8
  <2>3. fill' # "copied"
    BY <1>10
  <2> QED BY <1>3, <1>10, <2>1, <2>2, <2>3 DEF Side, hl
<1> QED BY <1>2, <1>3, <1>8, <1>11, <1>12 DEF IInv

LEMMA StutterHolds ==
  ASSUME IInv, UNCHANGED vars
  PROVE  IInv'
<1>1. corrdim' = corrdim
  BY DEF vars, corrdim, searchSegStartPos, searchSegEndPos, estSegPosRounded
<1>2. Shape'
  BY DEF IInv, Shape, vars
<1>3. Side'
  BY <1>1 DEF IInv, Side, vars
<1> QED BY <1>2, <1>3 DEF IInv

\* The invariant the three properties follow from, for all periods
\* (enhancer.go, getsseq).
THEOREM WalkInvariant == Spec => []IInv
<1>1. Init => IInv
  BY InitHolds
<1>2. IInv /\ [Next]_vars => IInv'
  BY BackwardHolds, ForwardHolds, StutterHolds DEF Next
<1> QED BY <1>1, <1>2, PTL DEF Spec
-----------------------------------------------------------------------------
\* st and fraction, from the place found.
LEMMA Interpolation ==
  ASSUME IInv, fill = "refined"
  PROVE  /\ tloc2 \in 0 .. corrdim /\ fraction \in 0 .. 3
         /\ 4 * (st + 3) - fraction = updStartPos - 4
         /\ st \in -3 .. 557
<1>1. /\ tloc \in 0 .. (4 * corrdim - 1) /\ corrdim \in 4 .. 5
      /\ searchSegStartPos \in 0 .. 555 /\ searchSegStartPos + corrdim <= 560
  BY SearchHere
<1>2. tloc2 \in Int /\ 4 * tloc2 <= tloc + 3 /\ tloc + 3 < 4 * tloc2 + 4
  BY <1>1, Quarters DEF tloc2
<1>3. tloc2 \in 0 .. corrdim /\ fraction \in 0 .. 3
  BY <1>1, <1>2 DEF fraction
<1> QED BY <1>1, <1>2, <1>3 DEF st, fraction, updStartPos

\* The segment interpolated is the one blockStartPos names, within the search
\* of where it was expected, for all periods (enhancer.go, refiner).
THEOREM SegmentsInPlace == Spec => []SegmentInPlace
<1>1. IInv => SegmentInPlace
  BY SearchHere, Interpolation DEF SegmentInPlace
<1> QED BY <1>1, WalkInvariant, PTL

Within(a) == 0 <= a.first /\ a.last < a.size

LEMMA AccessWithin ==
  ASSUME NEW buffer, NEW first \in Int, NEW last \in Int, NEW size \in Int,
         0 <= first, last < size
  PROVE  Within(Access(buffer, first, last, size))
BY DEF Within, Access

\* The eighty-six samples around the place, at the edges too.
LEMMA VectWithin ==
  ASSUME IInv, fill = "refined"
  PROVE  \A a \in VectAccesses : Within(a)
<1>1. st \in -3 .. 557
  BY Interpolation
<1>2. CASE st < 0
  <2>1. Within(Access("vect", 0, -st - 1, 86))
    BY <1>1, <1>2, AccessWithin
  <2>2. Within(Access("idata", 0, 86 + st - 1, idatal))
    BY <1>1, <1>2, AccessWithin DEF idatal
  <2> QED BY <1>2, <2>1, <2>2 DEF VectAccesses
<1>3. CASE ~(st < 0) /\ st + 86 > idatal
  <2>1. Within(Access("idata", st, idatal - 1, idatal))
    BY <1>1, <1>3, AccessWithin DEF idatal
  <2>2. Within(Access("vect", 86 - (st + 86 - idatal), 85, 86))
    BY <1>1, <1>3, AccessWithin DEF idatal
  <2> QED BY <1>3, <2>1, <2>2 DEF VectAccesses
<1>4. CASE ~(st < 0) /\ ~(st + 86 > idatal)
  <2>1. Within(Access("idata", st, st + 85, idatal))
    BY <1>1, <1>4, AccessWithin DEF idatal
  <2> QED BY <1>4, <2>1 DEF VectAccesses
<1> QED BY <1>2, <1>3, <1>4

\* The filter is always the shortened one, five taps long.
LEMMA UpsampleWithin ==
  ASSUME IInv, fill = "refined"
  PROVE  \A a \in UpsampleAccesses : Within(a)
<1>1. corrdim \in {4, 5}
  BY SearchHere
<1>2. hfl = 2 /\ filterlength = 5 /\ Taps = 5 /\ Upsampled = 5
  <2>1. hfl = 2
    BY <1>1 DEF hfl
  <2>2. filterlength = 5
    BY <2>1 DEF filterlength
  <2>3. Taps = 5
    BY <1>1, <2>2 DEF Taps
  <2> QED BY <2>1, <2>2, <2>3 DEF Upsampled
<1>3. Within(Access("corrVec", 0, Taps - 1, 5))
  BY <1>2, AccessWithin
<1>4. Within(Access("corrVec", corrdim - filterlength + 1, corrdim - 1, 5))
  BY <1>1, <1>2, AccessWithin
<1>5. Within(Access("polyphaserTbl", 3 - hfl, 3 * 7 + 3 - hfl + filterlength - 1, 28))
  BY <1>2, AccessWithin
<1>6. Within(Access("corrVecUps", 0, 4 * Upsampled - 1, 20))
  BY <1>2, AccessWithin
<1>7. Within(Access("upsampled", 0, 4 * corrdim - 1, 4 * Upsampled))
  BY <1>1, <1>2, AccessWithin
<1> QED BY <1>3, <1>4, <1>5, <1>6, <1>7 DEF UpsampleAccesses

\* No period makes refiner or upsampleEnhancement leave a buffer, or compare a
\* correlation that was not computed (enhancer.go, refiner).
THEOREM WalkStaysInBounds == Spec => []WalkInBounds
<1>1. ASSUME IInv, fill = "refined"
      PROVE  \A a \in refinerAccesses : Within(a)
  <2>1. /\ corrdim \in 4 .. 5 /\ searchSegStartPos \in 0 .. 555
        /\ searchSegStartPos + corrdim <= 560
        /\ centre \in Centres
    BY <1>1, SearchHere DEF IInv, Shape
  <2>2. Within(Access("idata", searchSegStartPos, searchSegStartPos + corrdim + 78, idatal))
    BY <2>1, AccessWithin DEF idatal
  <2>3. Within(Access("idata", centre, centre + 79, idatal))
    BY <2>1, AccessWithin DEF idatal, Centres
  <2>4. Within(Access("corrVec", 0, corrdim - 1, 5))
    BY <2>1, AccessWithin
  <2>5. Within(Access("polyphaserTbl", 7 * fraction, 7 * fraction + 6, 28))
    <3>1. fraction \in 0 .. 3
      BY <1>1, Interpolation
    <3> QED BY <3>1, AccessWithin
  <2> QED BY <1>1, <2>2, <2>3, <2>4, <2>5, VectWithin, UpsampleWithin DEF refinerAccesses
<1>2. IInv => WalkInBounds
  BY <1>1 DEF WalkInBounds, Within
<1> QED BY <1>2, WalkInvariant, PTL

\* No period makes two segments change places, or brings the walk back into the
\* history it has left (enhancer.go, getsseq).
THEOREM WalkMovesOutward == Spec => WalkGoesOutward
<1> DEFINE Outward ==
      LET from == IF q = 0 THEN 4 * centre ELSE position
          left == fill = "cleared" /\ q # 0
      IN  /\ IF q' < hl THEN position' < from ELSE position' > from
          /\ left => fill' = "cleared"
<1>1. ASSUME IInv, IInv', Backward
      PROVE  Outward
  <2>1. q \in 1 .. 3 /\ q' \in 0 .. 2 /\ est' \in Int /\ position \in Int
    BY <1>1, PositionHere DEF Backward, hl, IInv, Shape
  <2>2. position - est' \in 76 .. 476
    BY <1>1, BackwardHolds
  <2>3. fill' = IF est' - 8 >= 0 THEN "refined" ELSE "cleared"
    BY <1>1 DEF Backward, Fill
  <2>4. position' \in Int /\ position' < est' + 76
    <3>1. CASE fill' = "refined"
      <4>1. position' = updStartPos'
        BY <3>1 DEF position
      <4> QED BY <1>1, <2>1, <3>1, <4>1, SearchThere
    <3>2. CASE fill' = "cleared"
      BY <2>1, <3>2 DEF position
    <3> QED BY <2>3, <3>1, <3>2
  <2>5. position' < position
    BY <2>1, <2>2, <2>4, Beyond, Zenon
  <2>6. fill = "cleared" => fill' = "cleared"
    <3>1. fill = "cleared" => q # hl /\ position = est /\ est < 8
      BY <1>1, <2>1, PositionHere DEF IInv, Side, hl
    <3>2. PICK p, e : p = position /\ e = est'
      BY Zenon
    <3>3. p < 8 => ~(e - 8 >= 0)
      <4>1. p \in Int /\ e \in Int /\ p - e \in 76 .. 476
        BY <2>1, <2>2, <3>2
      <4> QED BY <4>1
    <3> QED BY <2>3, <3>1, <3>2, <3>3
  <2> QED BY <2>1, <2>5, <2>6 DEF hl
<1>2. ASSUME IInv, IInv', Forward
      PROVE  Outward
  <2>1. q \in {0, 4, 5} /\ q' \in 4 .. 6 /\ est' \in Int
    BY <1>2 DEF Forward, hl, IInv, Shape
  <2>2. From \in Int /\ est' - From \in 76 .. 476
    BY <1>2, ForwardHolds
  <2>3. fill' = IF est' + 328 < 2560 THEN "refined" ELSE "cleared"
    BY <1>2, <2>1 DEF Forward, Fill, idatal
  <2>4. position' \in Int /\ position' > est' - 76
    <3>1. CASE fill' = "refined"
      <4>1. position' = updStartPos'
        BY <3>1 DEF position
      <4> QED BY <1>2, <2>1, <3>1, <4>1, SearchThere
    <3>2. CASE fill' = "cleared"
      BY <2>1, <3>2 DEF position
    <3> QED BY <2>3, <3>1, <3>2
  <2>5. position' > From
    BY <2>1, <2>2, <2>4, Beyond, Zenon
  <2>6. fill = "cleared" /\ q # 0 => fill' = "cleared"
    <3>1. fill = "cleared" /\ q # 0 => From = est /\ est > 2231
      BY <1>2, <2>1, PositionHere DEF IInv, Side, hl, From
    <3>2. PICK f, e : f = From /\ e = est'
      BY Zenon
    <3>3. f > 2231 => ~(e + 328 < 2560)
      <4>1. f \in Int /\ e \in Int /\ e - f \in 76 .. 476
        BY <2>1, <2>2, <3>2
      <4> QED BY <4>1
    <3> QED BY <2>3, <3>1, <3>2, <3>3
  <2>7. From = IF q = 0 THEN 4 * centre ELSE position
    BY DEF From
  <2> QED BY <2>1, <2>5, <2>6, <2>7 DEF hl
<1>3. IInv /\ IInv' /\ [Next]_vars => [Outward]_vars
  BY <1>1, <1>2 DEF Next
<1> QED BY <1>3, WalkInvariant, PTL DEF Spec, WalkGoesOutward

-----------------------------------------------------------------------------
(* The codebook search: which sizes a call has.                            *)

\* A call of the search is for one block and one stage.
SearchTyped ==
  /\ mode \in {20, 30} /\ block \in 0 .. 4 /\ stage \in 0 .. 2
  /\ step \in {"base", "refine", "send", "receive", "done"}
  /\ damaged \in BOOLEAN

\* A subframe of 40 samples, searched in 147.
Long == /\ lTarget = 40 /\ lMem = 147 /\ Plain = 108 /\ baseSize = 128
        /\ RangeOf(0) = 108
        /\ \/ Converted /\ valueRange = 44 /\ stage # 0 /\ Field = 0 .. 127
           \/ ~Converted /\ valueRange = 108 /\ Field = 0 .. 255

\* The rest of the state's subframes, 22 or 23 samples, searched in 85.
Short == /\ lTarget \in {22, 23} /\ lMem = 85 /\ Plain = 86 - lTarget
         /\ baseSize = 86 - lTarget
         /\ ~Converted /\ RangeOf(0) = 58 /\ valueRange = 58 /\ Field = 0 .. 127

LEMMA CallSizes ==
  ASSUME SearchTyped
  PROVE  Long \/ Short
<1>1. mode \in {20, 30} /\ block \in 0 .. 4 /\ stage \in 0 .. 2
  BY DEF SearchTyped
<1>2. CASE block = 0
  <2>1. lTarget = (IF mode = 30 THEN 22 ELSE 23) /\ lMem = 85
    BY <1>2 DEF lTarget, lMem
  <2>2. Plain = 86 - lTarget /\ baseSize = 86 - lTarget
    BY <1>1, <2>1 DEF Plain, baseSize
  <2>3. RangeOf(0) = 58 /\ valueRange = 58 /\ Field = 0 .. 127 /\ ~Converted
    BY <1>2 DEF RangeOf, valueRange, Field, Converted
  <2> QED BY <1>1, <2>1, <2>2, <2>3 DEF Short
<1>3. CASE block > 0
  <2>1. lTarget = 40 /\ lMem = 147
    BY <1>3 DEF lTarget, lMem
  <2>2. Plain = 108 /\ baseSize = 128
    BY <2>1 DEF Plain, baseSize
  <2>3. RangeOf(0) = 108
    BY <1>1, <1>3 DEF RangeOf
  <2>4. CASE block = 1 /\ stage > 0
    <3>1. valueRange = 44 /\ Field = 0 .. 127 /\ Converted /\ stage # 0
      BY <1>1, <2>4 DEF RangeOf, valueRange, Field, Converted
    <3> QED BY <2>1, <2>2, <2>3, <3>1 DEF Long
  <2>5. CASE ~(block = 1 /\ stage > 0)
    <3>1. valueRange = 108 /\ Field = 0 .. 255 /\ ~Converted
      BY <1>1, <1>3, <2>5 DEF RangeOf, valueRange, Field, Converted
    <3> QED BY <2>1, <2>2, <2>3, <3>1 DEF Long
  <2> QED BY <2>4, <2>5
<1> QED
  BY <1>1, <1>2, <1>3

\* The sizes depend on the call only, and no step changes the call.
LEMMA SameCall ==
  ASSUME UNCHANGED call
  PROVE  /\ lTarget' = lTarget /\ lMem' = lMem /\ Plain' = Plain
         /\ baseSize' = baseSize /\ valueRange' = valueRange /\ Field' = Field
         /\ RangeOf(0)' = RangeOf(0) /\ Converted' = Converted
BY DEF call, lTarget, lMem, Plain, baseSize, valueRange, RangeOf, Field, Converted
-----------------------------------------------------------------------------
(* The window of filtered candidates.                                      *)

\* Where the search of the memory itself can end.
FirstBest == (0 .. (valueRange - 1)) \cup (IF lTarget = 40 THEN 108 .. 127 ELSE {})

\* 34 candidates of which the filtered ones lie in the range of the stage.
Fitting(w) ==
  /\ w.sInd \in 0 .. valueRange /\ w.eInd \in w.sInd .. valueRange
  /\ \/ w.sIndAug = 0 /\ w.eIndAug = 0 /\ w.eInd = w.sInd + 34
     \/ /\ lTarget = 40 /\ w.sIndAug \in 20 .. 39 /\ w.eIndAug = 39
        /\ (w.eInd - w.sInd) + (40 - w.sIndAug) = 34

LEMMA WindowFits ==
  ASSUME SearchTyped, best \in FirstBest
  PROVE  Fitting(Window)
<1> DEFINE s    == best - 17
           e    == s + 34
           low  == IF s < 0 THEN 0 ELSE s
           high == IF s < 0 THEN e - s ELSE e
           over == IF high > valueRange THEN high - valueRange ELSE 0
<1>1. CASE Short
  <2>1. lTarget # 40 /\ valueRange = 58
    BY <1>1 DEF Short
  <2>2. best \in 0 .. 57
    BY <2>1 DEF FirstBest
  <2>3. Window = [sInd |-> low - over, eInd |-> high - over, sIndAug |-> 0, eIndAug |-> 0]
    BY <2>1 DEF Window, NoRange
  <2>4. /\ low - over \in 0 .. 58 /\ high - over \in (low - over) .. 58
        /\ high - over = (low - over) + 34
    BY <2>1, <2>2
  <2> QED BY <2>1, <2>3, <2>4 DEF Fitting
<1>2. CASE Long
  <2>1. lTarget = 40 /\ baseSize = 128 /\ valueRange \in {44, 108}
    BY <1>2 DEF Long
  <2>2. best \in (0 .. (valueRange - 1)) \cup 108 .. 127
    BY <2>1 DEF FirstBest
  <2>3. CASE s < 0
    <3>1. Window = [sInd |-> 0, eInd |-> e, sIndAug |-> 40 + s, eIndAug |-> 39]
      BY <2>1, <2>3 DEF Window
    <3>2. /\ e \in 0 .. valueRange /\ 0 \in 0 .. valueRange
          /\ 40 + s \in 20 .. 39 /\ (e - 0) + (40 - (40 + s)) = 34
      BY <2>1, <2>2, <2>3
    <3> QED BY <2>1, <3>1, <3>2 DEF Fitting
  <2>4. CASE s >= 0 /\ best < 108
    <3>1. Window = [sInd |-> s - over, eInd |-> e - over, sIndAug |-> 0, eIndAug |-> 0]
      <4>1. lTarget = 40 /\ ~(s < 0) /\ best < baseSize - 20
        BY <2>1, <2>2, <2>4
      <4>2. Window = [NoRange EXCEPT !.sInd = s - over, !.eInd = e - over]
        BY <4>1 DEF Window
      <4> QED BY <4>2 DEF NoRange
    <3>2. /\ s - over \in 0 .. valueRange /\ e - over \in (s - over) .. valueRange
          /\ e - over = (s - over) + 34
      BY <2>1, <2>2, <2>4
    <3> QED BY <3>1, <3>2 DEF Fitting
  <2>5. CASE best >= 108 /\ s < 108
    <3>1. Window = [sInd |-> 0, eInd |-> 14, sIndAug |-> 20, eIndAug |-> 39]
      BY <2>1, <2>2, <2>5 DEF Window
    <3>2. 14 \in 0 .. valueRange /\ 0 \in 0 .. valueRange
      BY <2>1
    <3> QED BY <2>1, <3>1, <3>2 DEF Fitting
  <2>6. CASE best >= 108 /\ s >= 108
    <3> DEFINE aug == 20 + s - 108
    <3>1. Window = [sInd |-> 0, eInd |-> 34 - (39 - aug + 1), sIndAug |-> aug, eIndAug |-> 39]
      BY <2>1, <2>2, <2>6 DEF Window
    <3>2. /\ 34 - (39 - aug + 1) \in 0 .. valueRange /\ 0 \in 0 .. valueRange
          /\ aug \in 20 .. 39 /\ (34 - (39 - aug + 1) - 0) + (40 - aug) = 34
      BY <2>1, <2>2, <2>6
    <3> QED BY <2>1, <3>1, <3>2 DEF Fitting
  <2>7. best \in Int
    BY <2>1, <2>2
  <2> QED BY <2>3, <2>4, <2>5, <2>6, <2>7
<1> QED
  BY <1>1, <1>2, CallSizes

\* What the indices of such a window are.
LEMMA WindowIndices ==
  ASSUME SearchTyped, NEW w, Fitting(w)
  PROVE  /\ FilteredIndices(w) = (baseSize + w.sInd) .. (baseSize + w.eInd - 1)
         /\ w.sIndAug = 0 => AugmentedIndices(w) = {}
         /\ w.sIndAug # 0 => /\ lTarget = 40
                             /\ AugmentedIndices(w) = (216 + w.sIndAug) .. 255
<1>1. Long \/ Short
  BY CallSizes
<1>2. FilteredIndices(w) = (baseSize + w.sInd) .. (baseSize + w.eInd - 1)
  BY DEF FilteredIndices
<1>3. w.sIndAug = 0 => AugmentedIndices(w) = {}
  BY DEF AugmentedIndices
<1>4. ASSUME w.sIndAug # 0
      PROVE  lTarget = 40 /\ AugmentedIndices(w) = (216 + w.sIndAug) .. 255
  <2>1. PICK a \in 20 .. 39 : a = w.sIndAug
    BY <1>4 DEF Fitting
  <2>2. lTarget = 40 /\ w.eIndAug = 39
    BY <1>4 DEF Fitting
  <2>3. baseSize = 128
    BY <1>1, <2>2 DEF Long, Short
  <2>4. AugmentedIndices(w) = {2 * 128 - 20 + lag - 20 : lag \in a .. 39}
    BY <1>4, <2>1, <2>2, <2>3 DEF AugmentedIndices
  <2>5. {2 * 128 - 20 + lag - 20 : lag \in a .. 39} = (216 + a) .. 255
    <3>1. \A lag \in a .. 39 : 2 * 128 - 20 + lag - 20 \in (216 + a) .. 255
      OBVIOUS
    <3>2. \A i \in (216 + a) .. 255 : i - 216 \in a .. 39 /\ i = 2 * 128 - 20 + (i - 216) - 20
      OBVIOUS
    <3> QED BY <3>1, <3>2
  <2> QED BY <2>1, <2>2, <2>4, <2>5
<1> QED
  BY <1>2, <1>3, <1>4

\* There are 34 of them.
LEMMA WindowCounts ==
  ASSUME SearchTyped, NEW w, Fitting(w)
  PROVE  Cardinality(FilteredIndices(w) \cup AugmentedIndices(w)) = 34
<1>1. Long \/ Short
  BY CallSizes
<1>2. PICK b \in Int : b = baseSize
  BY <1>1 DEF Long, Short
<1>3. PICK s \in Int, e \in Int : s = w.sInd /\ e = w.eInd /\ s <= e /\ e <= valueRange
  BY <1>1 DEF Fitting, Long, Short
<1>4. FilteredIndices(w) = (b + s) .. (b + e - 1)
  BY <1>2, <1>3, WindowIndices
<1>5. IsFiniteSet(FilteredIndices(w)) /\ Cardinality(FilteredIndices(w)) = e - s
  <2>1. b + s \in Int /\ b + e - 1 \in Int
    BY <1>2, <1>3
  <2>2. /\ IsFiniteSet((b + s) .. (b + e - 1))
        /\ Cardinality((b + s) .. (b + e - 1))
             = IF b + s > b + e - 1 THEN 0 ELSE (b + e - 1) - (b + s) + 1
    BY <2>1, FS_Interval
  <2> QED BY <1>2, <1>3, <1>4, <2>2
<1>6. CASE w.sIndAug = 0
  <2>1. AugmentedIndices(w) = {} /\ e = s + 34
    BY <1>3, <1>6, WindowIndices DEF Fitting
  <2> QED BY <1>3, <1>5, <2>1
<1>7. CASE w.sIndAug # 0
  <2>1. PICK a \in 20 .. 39 : a = w.sIndAug
    BY <1>7 DEF Fitting
  <2>2. AugmentedIndices(w) = (216 + a) .. 255 /\ lTarget = 40
    BY <1>7, <2>1, WindowIndices
  <2>3. b = 128 /\ valueRange \in {44, 108} /\ (e - s) + (40 - a) = 34
    BY <1>1, <1>2, <1>3, <1>7, <2>1, <2>2 DEF Fitting, Long, Short
  <2>4. IsFiniteSet(AugmentedIndices(w)) /\ Cardinality(AugmentedIndices(w)) = 40 - a
    <3>1. /\ IsFiniteSet((216 + a) .. 255)
          /\ Cardinality((216 + a) .. 255)
               = IF 216 + a > 255 THEN 0 ELSE 255 - (216 + a) + 1
      <4>1. 216 + a \in Int /\ 255 \in Int
        OBVIOUS
      <4> QED BY <4>1, FS_Interval
    <3> QED BY <2>2, <3>1
  <2>5. FilteredIndices(w) \cap AugmentedIndices(w) = {}
    BY <1>3, <1>4, <2>2, <2>3
  <2>6. Cardinality(FilteredIndices(w) \cup AugmentedIndices(w))
          = (e - s) + (40 - a)
    <3>1. Cardinality(FilteredIndices(w) \cup AugmentedIndices(w))
            = Cardinality(FilteredIndices(w)) + Cardinality(AugmentedIndices(w))
              - Cardinality(FilteredIndices(w) \cap AugmentedIndices(w))
      BY <1>5, <2>4, FS_Union
    <3>2. Cardinality(FilteredIndices(w) \cap AugmentedIndices(w)) = 0
      BY <2>5, FS_EmptySet
    <3> QED BY <1>3, <1>5, <2>4, <3>1, <3>2
  <2> QED BY <2>3, <2>6
<1> QED
  BY <1>6, <1>7

-----------------------------------------------------------------------------
(* Every access is inside its buffer.                                      *)

Fits(a) == 0 <= a.lo /\ a.lo <= a.hi /\ a.hi < a.size

LEMMA SliceFits ==
  ASSUME NEW lo \in Int, NEW n \in Int, NEW size \in Int,
         0 <= lo, 1 <= n, lo + n <= size
  PROVE  Fits(Slice(lo, n, size))
BY DEF Fits, Slice

\* A repeated vector, in the encoder, of 20 to 39 samples.
LEMMA AugmentedFit ==
  ASSUME NEW lag \in 20 .. 39, NEW n \in {147, 157}, NEW size \in Int, n <= size
  PROVE  \A a \in AugmentedAccesses(lag, n, size) : Fits(a)
<1>1. Fits(Slice(n - lag, lag, size))
  BY SliceFits
<1>2. Fits(Slice(n - lag - 5, 5, size)) /\ Fits(Slice(n - 5, 5, size))
  BY SliceFits
<1> QED
  BY <1>1, <1>2 DEF AugmentedAccesses

\* The first search, in the memory and its margin.
LEMMA BaseFit ==
  ASSUME SearchTyped
  PROVE  \A a \in BaseAccesses : Fits(a)
<1>1. Long \/ Short
  BY CallSizes
<1>2. PICK t \in Int, m \in Int, v \in Int :
        /\ t = lTarget /\ m = lMem /\ v = valueRange
        /\ t >= 22 /\ m <= 147 /\ m - t + 1 >= v /\ (t = 40 => m = 147)
  BY <1>1 DEF Long, Short
<1>3. \A i \in 0 .. (v - 1) : Fits(Slice(10 + m - t - i, t, 207))
  <2> TAKE i \in 0 .. (v - 1)
  <2>1. /\ 10 + m - t - i \in Int /\ 0 <= 10 + m - t - i
        /\ 1 <= t /\ (10 + m - t - i) + t <= 207
    BY <1>2
  <2> QED BY <1>2, <2>1, SliceFits
<1>4. \A i \in 1 .. (v - 1) : Fits(Slice(10 + m - t - i, 1, 207))
  <2> TAKE i \in 1 .. (v - 1)
  <2>1. /\ 10 + m - t - i \in Int /\ 0 <= 10 + m - t - i
        /\ (10 + m - t - i) + 1 <= 207
    BY <1>2
  <2> QED BY <2>1, SliceFits
<1>5. t = 40 => \A lag \in 20 .. 39 : \A a \in AugmentedAccesses(lag, 10 + m, 207) : Fits(a)
  <2> HAVE t = 40
  <2> TAKE lag \in 20 .. 39
  <2>1. 10 + m = 157
    BY <1>2
  <2>2. \A a \in AugmentedAccesses(lag, 157, 207) : Fits(a)
    BY AugmentedFit
  <2> QED BY <2>1, <2>2
<1> QED
  BY <1>2, <1>3, <1>4, <1>5 DEF BaseAccesses

\* The refined search, in the filtered memory and the table of energies.
LEMMA FilteredFit ==
  ASSUME SearchTyped, NEW w, Fitting(w)
  PROVE  \A a \in FilteredAccesses(w) : Fits(a)
<1>1. Long \/ Short
  BY CallSizes
<1>2. PICK t \in Int, m \in Int, v \in Int, b \in Int :
        /\ t = lTarget /\ m = lMem /\ v = valueRange /\ b = baseSize
        /\ t >= 22 /\ m <= 147 /\ m - t + 1 >= v /\ (t = 40 => m = 147)
        /\ v >= 44 /\ b >= 0 /\ b + v <= 256
  BY <1>1 DEF Long, Short
<1>3. PICK s \in Int, e \in Int :
        s = w.sInd /\ e = w.eInd /\ 0 <= s /\ e <= v
  BY <1>2 DEF Fitting
<1>4. \A c \in s .. (e - 1) : Fits(Slice(m - c - t, t, 147))
  <2> TAKE c \in s .. (e - 1)
  <2>1. m - c - t \in Int /\ 0 <= m - c - t /\ 1 <= t /\ (m - c - t) + t <= 147
    BY <1>2, <1>3
  <2> QED BY <1>2, <2>1, SliceFits
<1>5. stage = 0 => \A j \in 0 .. (v - 2) : Fits(Slice(m - 1 - t - j, 1, 147))
  <2> HAVE stage = 0
  <2> TAKE j \in 0 .. (v - 2)
  <2>1. m - 1 - t - j \in Int /\ 0 <= m - 1 - t - j /\ (m - 1 - t - j) + 1 <= 147
    BY <1>2
  <2> QED BY <2>1, SliceFits
<1>6. ASSUME NEW i \in FilteredIndices(w) \cup AugmentedIndices(w)
      PROVE  Fits(Slice(i, 1, 256))
  <2>1. CASE i \in FilteredIndices(w)
    <3>1. i \in (b + s) .. (b + e - 1)
      BY <1>2, <1>3, <2>1, WindowIndices
    <3>2. i \in Int /\ 0 <= i /\ i + 1 <= 256
      BY <1>2, <1>3, <3>1
    <3> QED BY <3>2, SliceFits
  <2>2. CASE i \in AugmentedIndices(w)
    <3>1. w.sIndAug # 0
      BY <2>2, WindowIndices
    <3>2. i \in (216 + w.sIndAug) .. 255 /\ w.sIndAug \in 20 .. 39
      BY <2>2, <3>1, WindowIndices DEF Fitting
    <3>3. i \in Int /\ 0 <= i /\ i + 1 <= 256
      BY <3>2
    <3> QED BY <3>3, SliceFits
  <2> QED BY <1>6, <2>1, <2>2
<1>7. AugmentedIndices(w) # {} =>
        \A lag \in w.sIndAug .. w.eIndAug :
          \A a \in AugmentedAccesses(lag, m, 147) : Fits(a)
  <2> HAVE AugmentedIndices(w) # {}
  <2>1. w.sIndAug \in 20 .. 39 /\ w.eIndAug = 39 /\ t = 40
    BY <1>2, WindowIndices DEF Fitting
  <2> TAKE lag \in w.sIndAug .. w.eIndAug
  <2>2. lag \in 20 .. 39 /\ m = 147
    BY <1>2, <2>1
  <2>3. \A a \in AugmentedAccesses(lag, 147, 147) : Fits(a)
    BY <2>2, AugmentedFit
  <2> QED BY <2>2, <2>3
<1> QED
  BY <1>2, <1>3, <1>4, <1>5, <1>6, <1>7 DEF FilteredAccesses

\* The decoder's reads of a repeated vector.
LEMMA RepeatedFit ==
  ASSUME SearchTyped, NEW k \in Int, k >= lTarget,
         k <= 78, lTarget # 40 => k <= 25
  PROVE  \A a \in RepeatedAccesses(k) : Fits(a)
<1>1. Long \/ Short
  BY CallSizes
<1>2. PICK t \in Int, m \in Int :
        /\ t = lTarget /\ m = lMem /\ t >= 22 /\ t <= k /\ t <= 40 /\ m >= 85
        /\ k <= 2 * t - 2
        /\ k >= 22 /\ k <= 78
  BY <1>1 DEF Long, Short
<1>3. PICK high \in Int : high = k \div 2 /\ 2 * high <= k /\ k <= 2 * high + 1
  OBVIOUS
<1>4. Fits(Slice(m - high, high, m)) /\ Fits(Slice(m - k + high - 5, 5, m))
  BY <1>2, <1>3, SliceFits
<1>5. Fits(Slice(m - k + high, t - high, m))
  <2>1. /\ m - k + high \in Int /\ t - high \in Int
        /\ 0 <= m - k + high /\ 1 <= t - high /\ (m - k + high) + (t - high) <= m
    BY <1>2, <1>3
  <2> QED BY <1>2, <2>1, SliceFits
<1>6. Fits(Slice(0, high - 5, t)) /\ Fits(Slice(high, t - high, t))
  BY <1>2, <1>3, SliceFits
<1> QED
  BY <1>2, <1>3, <1>4, <1>5, <1>6 DEF RepeatedAccesses

\* The decoder's reads for any index of the field, damaged or not.
LEMMA DecoderFit ==
  ASSUME SearchTyped, NEW i \in 0 .. 255, lTarget # 40 => i <= 127
  PROVE  \A a \in DecoderAccesses(i) : Fits(a)
<1>1. Long \/ Short
  BY CallSizes
<1>2. PICK t \in Int, m \in Int, p \in Int, b \in Int :
        /\ t = lTarget /\ m = lMem /\ p = Plain /\ b = baseSize
        /\ t \in {22, 23, 40} /\ p = m - t + 1
        /\ t = 40 => m = 147 /\ p = 108 /\ b = 128
        /\ t # 40 => m = 85 /\ p = 86 - t /\ b = p
  BY <1>1 DEF Long, Short
<1>3. CASE i < p
  <2>1. Fits(Slice(m - (i + t), t, m))
    BY <1>2, <1>3, SliceFits
  <2> QED BY <1>2, <1>3, <2>1 DEF DecoderAccesses
<1>4. CASE i >= p /\ i < b
  <2>1. PICK k \in Int : k = 2 * (i - p) + t
    BY <1>2
  <2>2. k >= t /\ k <= 78 /\ (t # 40 => k <= 25)
    BY <1>2, <1>4, <2>1
  <2>3. \A a \in RepeatedAccesses(k) : Fits(a)
    BY <1>2, <2>2, RepeatedFit
  <2> QED BY <1>2, <1>4, <2>1, <2>3 DEF DecoderAccesses
<1>5. CASE i >= b /\ i - b < p
  <2>1. PICK k \in Int : k = i - b + t
    BY <1>2
  <2>2. Fits(Slice(m - k + 1, t + 7, 156)) /\ Fits(Slice(m - k, t, 147))
    BY <1>2, <1>5, <2>1, SliceFits
  <2>3. \A a \in FilterAccesses(k, t) : Fits(a)
    BY <1>2, <2>2 DEF FilterAccesses
  <2>4. ~(i < p) /\ ~(i < b)
    BY <1>2, <1>5
  <2> QED BY <1>2, <1>5, <2>1, <2>3, <2>4 DEF DecoderAccesses
<1>6. CASE i >= b /\ i - b >= p
  <2>1. PICK k \in Int : k = 2 * (i - b - p) + t
    BY <1>2
  <2>2. k >= t /\ k <= 78 /\ (t # 40 => k <= 25)
    BY <1>2, <1>6, <2>1
  <2>3. Fits(Slice(m - k + 1, k + 7, 156)) /\ Fits(Slice(m - k, k, 147))
    BY <1>2, <2>2, SliceFits
  <2>4. \A a \in FilterAccesses(k, k) \cup RepeatedAccesses(k) : Fits(a)
    BY <1>2, <2>2, <2>3, RepeatedFit DEF FilterAccesses
  <2>5. ~(i < p) /\ ~(i < b) /\ ~(i - b < p)
    BY <1>2, <1>6
  <2> QED BY <1>2, <2>1, <2>4, <2>5 DEF DecoderAccesses
<1> QED
  BY <1>2, <1>3, <1>4, <1>5, <1>6
-----------------------------------------------------------------------------
(* The index in the frame.                                                 *)

\* Where the refined search can end.
Candidates ==
  FirstBest \cup (baseSize .. (baseSize + valueRange - 1))
            \cup (IF lTarget = 40 THEN 236 .. 255 ELSE {})

\* Send and Receive apply these to the index.
OnWire(i)   == IF Converted THEN convertEncoderIndices(i) ELSE i
FromWire(i) == IF Converted THEN convertDecoderIndices(i) ELSE i

\* The refined search ends at a candidate.
LEMMA RefinedBest ==
  ASSUME SearchTyped, best \in FirstBest, NEW w, Fitting(w)
  PROVE  {best} \cup FilteredIndices(w) \cup AugmentedIndices(w) \subseteq Candidates
<1>1. Long \/ Short
  BY CallSizes
<1>2. PICK v \in Int, b \in Int : v = valueRange /\ b = baseSize
  BY <1>1 DEF Long, Short
<1>3. PICK s \in Int, e \in Int : s = w.sInd /\ e = w.eInd /\ 0 <= s /\ e <= v
  BY <1>2 DEF Fitting
<1>4. FilteredIndices(w) \subseteq b .. (b + v - 1)
  <2>1. FilteredIndices(w) = (b + s) .. (b + e - 1)
    BY <1>2, <1>3, WindowIndices
  <2> QED BY <1>2, <1>3, <2>1
<1>5. AugmentedIndices(w) \subseteq (IF lTarget = 40 THEN 236 .. 255 ELSE {})
  <2>1. CASE w.sIndAug = 0
    BY <2>1, WindowIndices
  <2>2. CASE w.sIndAug # 0
    <3>1. PICK a \in 20 .. 39 : a = w.sIndAug
      BY <2>2 DEF Fitting
    <3>2. lTarget = 40 /\ AugmentedIndices(w) = (216 + a) .. 255
      BY <2>2, <3>1, WindowIndices
    <3> QED BY <3>2
  <2> QED BY <2>1, <2>2
<1> QED
  BY <1>2, <1>4, <1>5 DEF Candidates

\* A candidate's index fits its field and is read back unchanged, although
\* one bit of it is not sent.
LEMMA IndexRoundTrip ==
  ASSUME SearchTyped, NEW i \in Candidates
  PROVE  /\ i \in 0 .. 255 /\ (lTarget # 40 => i <= 127)
         /\ OnWire(i) \in Field
         /\ FromWire(OnWire(i)) = i
<1>1. CASE Short
  <2>1. i \in (0 .. 57) \cup ((86 - lTarget) .. (86 - lTarget + 58 - 1)) /\ lTarget \in {22, 23}
    BY <1>1 DEF Short, Candidates, FirstBest
  <2>2. i \in 0 .. 127
    BY <2>1
  <2>3. OnWire(i) = i /\ FromWire(i) = i
    BY <1>1 DEF Short, OnWire, FromWire
  <2> QED BY <1>1, <2>2, <2>3 DEF Short
<1>2. CASE Long
  <2>1. lTarget = 40 /\ baseSize = 128
    BY <1>2 DEF Long
  <2>2. CASE ~Converted
    <3>1. valueRange = 108 /\ Field = 0 .. 255
      BY <1>2, <2>2 DEF Long
    <3>2. i \in (0 .. 107) \cup (108 .. 127) \cup (128 .. 235) \cup (236 .. 255)
      BY <2>1, <3>1 DEF Candidates, FirstBest
    <3>3. i \in 0 .. 255
      BY <3>2
    <3> QED BY <2>1, <2>2, <3>1, <3>3 DEF OnWire, FromWire
  <2>3. CASE Converted
    <3>1. valueRange = 44 /\ Field = 0 .. 127
      BY <1>2, <2>3 DEF Long
    <3>2. i \in (0 .. 43) \cup (108 .. 127) \cup (128 .. 171) \cup (236 .. 255)
      BY <2>1, <3>1 DEF Candidates, FirstBest
    <3>3. i \in 0 .. 255
      BY <3>2
    <3>4. /\ i < 108 => convertEncoderIndices(i) = i
          /\ i >= 108 /\ i < 172 => convertEncoderIndices(i) = i - 64
          /\ i >= 236 => convertEncoderIndices(i) = i - 128
      BY <3>2 DEF convertEncoderIndices
    <3>5. convertEncoderIndices(i) \in 0 .. 127
      BY <3>2, <3>4
    <3>6. convertDecoderIndices(convertEncoderIndices(i)) = i
      BY <3>2, <3>4 DEF convertDecoderIndices
    <3> QED BY <2>1, <2>3, <3>1, <3>3, <3>5, <3>6 DEF OnWire, FromWire
  <2> QED BY <2>2, <2>3
<1> QED
  BY <1>1, <1>2, CallSizes

\* Encoder and decoder give an index the same vector.
LEMMA VectorsAgree ==
  ASSUME SearchTyped, NEW i \in Candidates
  PROVE  DecoderVector(i) = EncoderVector(i)
<1>0. i \in 0 .. 255
  BY IndexRoundTrip
<1>1. CASE Short
  <2>1. PICK t \in {22, 23} : t = lTarget
    BY <1>1 DEF Short
  <2>2. Plain = 86 - t /\ baseSize = 86 - t /\ t # 40 /\ lTarget # 40
    BY <1>1, <2>1 DEF Short
  <2>3. i \in (0 .. 57) \cup ((86 - t) .. (86 - t + 57))
    BY <1>1, <2>1 DEF Short, Candidates, FirstBest
  <2>4. CASE i < 86 - t
    <3>1. DecoderVector(i) = Vector(i + t, FALSE, FALSE)
      BY <2>1, <2>2, <2>4 DEF DecoderVector
    <3>2. i < baseSize /\ (i >= baseSize) = FALSE
      BY <2>1, <2>2, <2>4, <1>0
    <3>3. EncoderVector(i) = Vector(t + i, FALSE, FALSE)
      BY <2>1, <2>2, <3>2 DEF EncoderVector
    <3>4. i + t = t + i
      BY <2>1, <1>0
    <3> QED BY <3>1, <3>3, <3>4
  <2>5. CASE i >= 86 - t
    <3>1. i - (86 - t) < 86 - t /\ ~(i < 86 - t)
      BY <2>1, <2>3, <2>5
    <3>2. DecoderVector(i) = Vector(i - (86 - t) + t, TRUE, FALSE)
      BY <2>1, <2>2, <3>1 DEF DecoderVector
    <3>3. ~(i < baseSize) /\ i >= baseSize
      BY <2>1, <2>2, <2>5, <1>0
    <3>4. EncoderVector(i) = Vector(t + (i - (86 - t)), TRUE, FALSE)
      BY <2>1, <2>2, <3>3 DEF EncoderVector
    <3>5. i - (86 - t) + t = t + (i - (86 - t))
      BY <2>1, <1>0
    <3> QED BY <3>2, <3>4, <3>5
  <2> QED BY <2>1, <2>4, <2>5, <1>0
<1>2. CASE Long
  <2>1. lTarget = 40 /\ Plain = 108 /\ baseSize = 128
    BY <1>2 DEF Long
  <2> DEFINE f == i \div 128
             p == i - f * 128
  <2>2. EncoderVector(i) = IF p < 108 THEN Vector(40 + p, f = 1, FALSE)
                           ELSE Vector(p - 128 + 40, f = 1, TRUE)
    BY <2>1 DEF EncoderVector
  <2>3. i < 128 => f = 0 /\ p = i
    BY <1>0
  <2>4. i >= 128 => f = 1 /\ p = i - 128
    BY <1>0
  <2> HIDE DEF f, p
  <2>5. CASE i < 108
    <3>1. DecoderVector(i) = Vector(i + 40, FALSE, FALSE)
      BY <2>1, <2>5 DEF DecoderVector
    <3>2. p < 108 /\ (f = 1) = FALSE /\ 40 + p = i + 40
      BY <2>3, <2>5, <1>0
    <3> QED BY <2>2, <3>1, <3>2
  <2>6. CASE i >= 108 /\ i < 128
    <3>1. DecoderVector(i) = Vector((2 * (i - 108) + 40) \div 2, FALSE, TRUE)
      <4>1. ~(i < 108) /\ i < 128
        BY <2>6, <1>0
      <4> QED BY <2>1, <4>1, Zenon DEF DecoderVector
    <3>2. ~(p < 108) /\ (f = 1) = FALSE /\ p - 128 + 40 = (2 * (i - 108) + 40) \div 2
      BY <2>3, <2>6, <1>0
    <3> QED BY <2>2, <3>1, <3>2
  <2>7. CASE i >= 128 /\ i < 236
    <3>1. DecoderVector(i) = Vector(i - 128 + 40, TRUE, FALSE)
      <4>1. ~(i < 108) /\ ~(i < 128) /\ i - 128 < 108
        BY <2>7, <1>0
      <4> QED BY <2>1, <4>1, Zenon DEF DecoderVector
    <3>2. p < 108 /\ (f = 1) = TRUE /\ 40 + p = i - 128 + 40
      BY <2>4, <2>7, <1>0
    <3> QED BY <2>2, <3>1, <3>2
  <2>8. CASE i >= 236
    <3>1. DecoderVector(i) = Vector((2 * (i - 128 - 108) + 40) \div 2, TRUE, TRUE)
      <4>1. ~(i < 108) /\ ~(i < 128) /\ ~(i - 128 < 108)
        BY <2>8, <1>0
      <4> QED BY <2>1, <4>1, Zenon DEF DecoderVector
    <3>2. /\ ~(p < 108) /\ (f = 1) = TRUE
          /\ p - 128 + 40 = (2 * (i - 128 - 108) + 40) \div 2
      BY <2>4, <2>8, <1>0
    <3> QED BY <2>2, <3>1, <3>2
  <2> QED BY <2>5, <2>6, <2>7, <2>8, <1>0
<1> QED
  BY <1>1, <1>2, CallSizes
-----------------------------------------------------------------------------
(* The invariant of the search and its way to the decoder.                 *)

\* What is known of the index at each step.
IndexInv ==
  /\ step = "refine" => best \in FirstBest
  /\ step = "send" => best \in Candidates /\ Fitting(range)
  /\ step = "receive" => /\ wire \in Field
                         /\ ~damaged => best \in Candidates /\ wire = OnWire(best)
  /\ step = "done" /\ ~damaged => best \in Candidates /\ decoded = best

SearchInv == SearchTyped /\ IndexInv /\ \A a \in touched : Fits(a)

LEMMA SearchInitInv == SearchInit => SearchInv
<1> HAVE SearchInit
<1>1. SearchTyped
  <2>1. mode \in {20, 30} /\ block \in 0 .. 4 /\ stage \in 0 .. 2
    BY DEF SearchInit
  <2>2. step = "base" /\ damaged \in BOOLEAN
    BY DEF SearchInit
  <2> QED BY <2>1, <2>2 DEF SearchTyped
<1>2. IndexInv
  BY DEF SearchInit, IndexInv
<1> QED
  BY <1>1, <1>2 DEF SearchInit, SearchInv

\* The sets an invariant speaks of depend on the call only.
LEMMA SameSets ==
  ASSUME UNCHANGED call
  PROVE  /\ FirstBest' = FirstBest /\ Candidates' = Candidates
         /\ \A w : Fitting(w)' <=> Fitting(w)
         /\ \A i : OnWire(i)' = OnWire(i)
BY SameCall DEF FirstBest, Candidates, Fitting, OnWire, convertEncoderIndices

LEMMA SearchStepInv == SearchInv /\ [SearchNext]_searchVars => SearchInv'
<1> SUFFICES ASSUME SearchInv, [SearchNext]_searchVars PROVE SearchInv'
  OBVIOUS
<1>0. SearchTyped /\ IndexInv
  BY DEF SearchInv
<1>1. CASE SearchBase
  <2>1. UNCHANGED call /\ step' = "refine" /\ damaged' = damaged
        /\ best' \in BaseIndices /\ touched' = BaseAccesses
    BY <1>1 DEF SearchBase
  <2>2. best' \in FirstBest
    <3>1. BaseIndices = FirstBest
      <4>1. lTarget = 40 => baseSize = 128
        BY <1>0, CallSizes DEF Long, Short
      <4>2. lTarget = 40 => (baseSize - 20) .. (baseSize - 1) = 108 .. 127
        BY <4>1
      <4> QED BY <4>2 DEF BaseIndices, FirstBest
    <3> QED BY <2>1, <3>1
  <2>3. SearchTyped'
    BY <1>0, <2>1 DEF SearchTyped, call
  <2>4. IndexInv'
    BY <2>1, <2>2, SameSets DEF IndexInv
  <2>5. \A a \in touched' : Fits(a)
    BY <1>0, <2>1, BaseFit
  <2> QED BY <2>3, <2>4, <2>5 DEF SearchInv
<1>2. CASE SearchFiltered
  <2>1. PICK w : w = Window
    OBVIOUS
  <2>2. /\ UNCHANGED call /\ step' = "send" /\ damaged' = damaged /\ range' = w
        /\ best' \in {best} \cup FilteredIndices(w) \cup AugmentedIndices(w)
        /\ touched' = FilteredAccesses(w)
    BY <1>2, <2>1 DEF SearchFiltered, FilteredIndices, AugmentedIndices, FilteredAccesses
  <2>3. best \in FirstBest /\ Fitting(w)
    BY <1>0, <1>2, <2>1, WindowFits DEF IndexInv, SearchFiltered
  <2>4. best' \in Candidates
    BY <1>0, <2>2, <2>3, RefinedBest
  <2>5. SearchTyped'
    BY <1>0, <2>2 DEF SearchTyped, call
  <2>6. IndexInv'
    BY <2>2, <2>3, <2>4, SameSets DEF IndexInv
  <2>7. \A a \in touched' : Fits(a)
    BY <1>0, <2>2, <2>3, FilteredFit
  <2> QED BY <2>5, <2>6, <2>7 DEF SearchInv
<1>3. CASE Send
  <2>1. /\ UNCHANGED call /\ step = "send" /\ step' = "receive" /\ damaged' = damaged
        /\ best' = best /\ wire' = OnWire(best) /\ touched' = {}
    BY <1>3 DEF Send, OnWire
  <2>2. best \in Candidates
    BY <1>0, <2>1 DEF IndexInv
  <2>3. OnWire(best) \in Field
    BY <1>0, <2>2, IndexRoundTrip
  <2>4. SearchTyped'
    BY <1>0, <2>1 DEF SearchTyped, call
  <2>5. IndexInv'
    BY <2>1, <2>2, <2>3, SameSets, SameCall DEF IndexInv
  <2> QED BY <2>1, <2>4, <2>5 DEF SearchInv
<1>4. CASE Damage
  <2>1. /\ UNCHANGED call /\ step' = "receive" /\ damaged' = TRUE
        /\ wire' \in Field /\ touched' = touched
    BY <1>4 DEF Damage
  <2>2. SearchTyped'
    BY <1>0, <2>1 DEF SearchTyped, call
  <2>3. IndexInv'
    BY <2>1, SameCall DEF IndexInv
  <2> QED BY <2>1, <2>2, <2>3 DEF SearchInv
<1>5. CASE Receive
  <2>1. PICK i : i = FromWire(wire)
    OBVIOUS
  <2>2. /\ UNCHANGED call /\ step = "receive" /\ step' = "done" /\ damaged' = damaged
        /\ best' = best /\ decoded' = i
        /\ touched' = DecoderAccesses(i)
    BY <1>5, <2>1 DEF Receive, FromWire, DecoderAccesses, RepeatedAccesses, FilterAccesses
  <2>3. wire \in Field /\ (~damaged => best \in Candidates /\ wire = OnWire(best))
    BY <1>0, <2>2 DEF IndexInv
  <2>4. i \in 0 .. 255 /\ (lTarget # 40 => i <= 127)
    <3>1. CASE Converted
      <4>1. wire \in 0 .. 127 /\ lTarget = 40
        BY <1>0, <2>3, <3>1, CallSizes DEF Long, Short
      <4> QED BY <2>1, <3>1, <4>1 DEF FromWire, convertDecoderIndices
    <3>2. CASE ~Converted
      <4>1. wire \in 0 .. 255 /\ (lTarget # 40 => wire \in 0 .. 127)
        BY <1>0, <2>3, <3>2, CallSizes DEF Long, Short
      <4> QED BY <2>1, <3>2, <4>1 DEF FromWire
    <3> QED BY <3>1, <3>2
  <2>5. ~damaged => i = best
    BY <1>0, <2>1, <2>3, IndexRoundTrip
  <2>6. SearchTyped'
    BY <1>0, <2>2 DEF SearchTyped, call
  <2>7. IndexInv'
    BY <2>2, <2>3, <2>5, SameSets DEF IndexInv
  <2>8. \A a \in touched' : Fits(a)
    BY <1>0, <2>2, <2>4, DecoderFit
  <2> QED BY <2>6, <2>7, <2>8 DEF SearchInv
<1>6. CASE Done \/ UNCHANGED searchVars
  <2>1. UNCHANGED searchVars
    BY <1>6 DEF Done
  <2>2. UNCHANGED <<call, step, best, range, wire, damaged, decoded, touched>>
    BY <2>1 DEF searchVars, call
  <2>3. SearchTyped'
    BY <1>0, <2>2 DEF SearchTyped, call
  <2>4. IndexInv'
    BY <1>0, <2>2, SameSets, SameCall DEF IndexInv
  <2> QED BY <2>2, <2>3, <2>4 DEF SearchInv
<1> QED
  BY <1>1, <1>2, <1>3, <1>4, <1>5, <1>6 DEF SearchNext

\* What is known of the index holds throughout the search and the transfer.
THEOREM SearchInvHolds == SearchSpec => []SearchInv
BY SearchInitInv, SearchStepInv, PTL DEF SearchSpec

\* Search and construction stay inside their buffers, for every index that
\* can be chosen and every one a damaged frame can carry (icbsearch.go,
\* createcb.go, getcbvec.go).
THEOREM BuffersHold == SearchSpec => []BuffersRespected
<1>1. SearchInv => BuffersRespected
  BY DEF SearchInv, BuffersRespected, Fits
<1> QED
  BY <1>1, SearchInvHolds, PTL

\* The index fits its field and stands for the same vector on both sides
\* (icbconstruct.go, convertEncoderIndices and convertDecoderIndices).
THEOREM SameVectorHolds == SearchSpec => []SameVector
<1>1. SearchInv => SameVector
  <2> HAVE SearchInv
  <2>1. step = "receive" => wire \in Field
    BY DEF SearchInv, IndexInv
  <2>2. ASSUME step = "done", ~damaged
        PROVE  decoded = best /\ DecoderVector(decoded) = EncoderVector(best)
    <3>1. SearchTyped /\ best \in Candidates /\ decoded = best
      BY <2>2 DEF SearchInv, IndexInv
    <3> QED BY <3>1, VectorsAgree
  <2> QED BY <2>1, <2>2 DEF SameVector
<1> QED
  BY <1>1, SearchInvHolds, PTL

\* The refined search always has its 34 candidates, all with an energy
\* (icbsearch.go, sInd to eIndAug).
THEOREM WindowCompleteHolds == SearchSpec => []WindowComplete
<1>1. SearchInv => WindowComplete
  <2> SUFFICES ASSUME SearchInv, step = "send"
               PROVE  /\ Cardinality(FilteredIndices(range) \cup AugmentedIndices(range)) = 34
                      /\ FilteredIndices(range) \subseteq baseSize .. (baseSize + RangeOf(0) - 1)
                      /\ FilteredIndices(range) \subseteq baseSize .. (baseSize + valueRange - 1)
    BY DEF WindowComplete
  <2>1. SearchTyped /\ Fitting(range)
    BY DEF SearchInv, IndexInv
  <2>2. PICK v \in Int, b \in Int, r \in Int :
          v = valueRange /\ b = baseSize /\ r = RangeOf(0) /\ v <= r
    BY <2>1, CallSizes DEF Long, Short
  <2>3. PICK s \in Int, e \in Int : s = range.sInd /\ e = range.eInd /\ 0 <= s /\ e <= v
    BY <2>1, <2>2 DEF Fitting
  <2>4. FilteredIndices(range) = (b + s) .. (b + e - 1)
    BY <2>1, <2>2, <2>3, WindowIndices
  <2>5. (b + s) .. (b + e - 1) \subseteq b .. (b + v - 1)
    BY <2>2, <2>3
  <2>6. (b + s) .. (b + e - 1) \subseteq b .. (b + r - 1)
    BY <2>2, <2>3
  <2> QED BY <2>1, <2>2, <2>4, <2>5, <2>6, WindowCounts
<1> QED
  BY <1>1, SearchInvHolds, PTL
=============================================================================
