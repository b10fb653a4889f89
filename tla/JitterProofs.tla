---------------------------- MODULE JitterProofs ----------------------------
(***************************************************************************)
(* Proofs about the jitter buffer for every size of ring, sequence space   *)
(* and prebuffer that JitterAssumption allows, and any set of frames; and  *)
(* about the way of a frame through it, for channels of any capacity.      *)
(***************************************************************************)
EXTENDS VoicePath, SequenceTheorems, TLAPS

-----------------------------------------------------------------------------
(* Arithmetic modulo the ring and modulo the sequence space.               *)

\* A remainder is determined by any decomposition with a small rest.
LEMMA ModUnique ==
  ASSUME NEW m \in Nat \ {0}, NEW q \in Int, NEW r \in 0 .. (m - 1)
  PROVE  (m * q + r) % m = r
OBVIOUS

\* Every integer is its quotient and its remainder.
LEMMA DivMod ==
  ASSUME NEW m \in Nat \ {0}, NEW a \in Int
  PROVE  /\ a \div m \in Int
         /\ a % m \in 0 .. (m - 1)
         /\ a = m * (a \div m) + (a % m)
OBVIOUS

\* Adding a multiple of the modulus changes no remainder.
LEMMA ModShift ==
  ASSUME NEW m \in Nat \ {0}, NEW a \in Int, NEW k \in Int
  PROVE  (a + m * k) % m = a % m
<1> DEFINE q == a \div m
           r == a % m
<1>1. /\ q \in Int /\ r \in 0 .. (m - 1) /\ a = m * q + r
  BY DivMod
<1>2. a + m * k = m * (q + k) + r
  BY <1>1
<1>3. q + k \in Int
  BY <1>1
<1> HIDE DEF q, r
<1>4. (m * (q + k) + r) % m = r
  BY <1>1, <1>3, ModUnique
<1> QED
  BY <1>2, <1>4 DEF r

\* Numbers less than m apart that agree modulo m are equal: two frames of
\* one window never share a slot.
LEMMA SameSlot ==
  ASSUME NEW m \in Nat \ {0}, NEW a \in Int, NEW b \in Int,
         a % m = b % m, a - b < m, b - a < m
  PROVE  a = b
<1> DEFINE p == a \div m
           q == b \div m
<1>1. /\ p \in Int /\ q \in Int
      /\ a = m * p + (a % m) /\ b = m * q + (b % m) /\ a % m \in Int
  BY DivMod
<1> HIDE DEF p, q
<1>2. a - b = m * (p - q)
  BY <1>1
<1>3. CASE p = q
  BY <1>1, <1>3
<1>4. CASE p >= q + 1
  <2>1. m * (p - q) >= m
    BY <1>1, <1>4
  <2> QED BY <2>1, <1>2
<1>5. CASE q >= p + 1
  <2>1. m * (q - p) >= m
    BY <1>1, <1>5
  <2>2. b - a = m * (q - p)
    BY <1>1
  <2> QED BY <2>1, <2>2
<1> QED
  BY <1>1, <1>3, <1>4, <1>5

\* Reducing twice is reducing once when the second modulus divides the first.
LEMMA ModMod ==
  ASSUME NEW m \in Nat \ {0}, NEW s \in Nat \ {0}, NEW k \in Nat,
         NEW n \in Int
  PROVE  m = s * k => (n % m) % s = n % s
<1> DEFINE q == n \div m
           r == n % m
<1>1. q \in Int /\ r \in Int /\ n = m * q + r
  BY DivMod
<1> HIDE DEF q, r
<1> HAVE m = s * k
<1>2. k * q \in Int /\ n = r + s * (k * q)
  BY <1>1
<1>3. (r + s * (k * q)) % s = r % s
  BY <1>1, <1>2, ModShift
<1> QED
  BY <1>2, <1>3 DEF r

\* The remainder of a difference is the one of the remainders' difference.
LEMMA ModDifference ==
  ASSUME NEW m \in Nat \ {0}, NEW n \in Int, NEW c \in Int
  PROVE  ((n % m) - (c % m)) % m = (n - c) % m
<1> DEFINE p == n \div m
           q == c \div m
           x == n % m
           y == c % m
<1>1. /\ p \in Int /\ q \in Int /\ x \in Int /\ y \in Int
      /\ n = m * p + x /\ c = m * q + y
  BY DivMod
<1> HIDE DEF p, q, x, y
<1> DEFINE d == n - c
           k == q - p
<1>2. d \in Int /\ k \in Int /\ x - y = d + m * k
  BY <1>1
<1> HIDE DEF d, k
<1>3. (d + m * k) % m = d % m
  BY <1>2, ModShift
<1> QED
  BY <1>2, <1>3 DEF x, y, d

\* Incrementing the remainder is reducing the incremented number.
LEMMA ModStep ==
  ASSUME NEW m \in Nat \ {0}, NEW c \in Int
  PROVE  ((c % m) + 1) % m = (c + 1) % m
<1> DEFINE q == c \div m
           y == c % m
<1>1. q \in Int /\ y \in Int /\ c = m * q + y
  BY DivMod
<1> HIDE DEF q, y
<1> DEFINE z == y + 1
<1>2. z \in Int /\ c + 1 = z + m * q
  BY <1>1
<1> HIDE DEF z
<1>3. (z + m * q) % m = z % m
  BY <1>1, <1>2, ModShift
<1> QED
  BY <1>2, <1>3 DEF y, z

\* Small numbers, and small negative ones, have the expected remainder.
LEMMA ModSmall ==
  ASSUME NEW m \in Nat \ {0}, NEW d \in Int
  PROVE  /\ d \in 0 .. (m - 1) => d % m = d
         /\ d \in -m .. -1 => d % m = d + m
<1>1. ASSUME d \in 0 .. (m - 1) PROVE d % m = d
  <2>1. (m * 0 + d) % m = d
    BY <1>1, ModUnique
  <2> QED BY <2>1
<1>2. ASSUME d \in -m .. -1 PROVE d % m = d + m
  <2>1. (m * (-1) + (d + m)) % m = d + m
    BY <1>2, ModUnique
  <2>2. m * (-1) + (d + m) = d
    OBVIOUS
  <2> QED BY <2>1, <2>2
<1> QED
  BY <1>1, <1>2

\* The sizes the buffer is built from.
LEMMA Sizes ==
  /\ SlotCount \in Nat \ {0}
  /\ Modulus \in Nat \ {0}
  /\ Half \in Nat
  /\ Modulus = 2 * Half
  /\ SlotCount <= Half
<1>1. PICK k \in 1 .. Modulus : Modulus = 2 * (k * SlotCount)
  BY JitterAssumption
<1>2. k \in Nat /\ k >= 1 /\ SlotCount \in Nat \ {0} /\ Modulus \in Nat
  BY <1>1, JitterAssumption
<1>3. k * SlotCount \in Nat /\ k * SlotCount >= SlotCount
  BY <1>2
<1>4. Half = k * SlotCount
  BY <1>1, <1>3 DEF Half
<1> QED
  BY <1>1, <1>2, <1>3, <1>4

\* The slot of a packet is the slot of its frame: the ring's length divides
\* the size of the sequence space, so the two wraparounds agree.
LEMMA SlotOfSeq ==
  ASSUME NEW n \in Int
  PROVE  SlotOf(n % Modulus) = SlotOf(n)
<1>1. PICK k \in 1 .. Modulus : Modulus = 2 * (k * SlotCount)
  BY JitterAssumption
<1>2. 2 * k \in Nat /\ Modulus = SlotCount * (2 * k)
  BY <1>1, Sizes
<1> QED
  BY <1>2, Sizes, ModMod DEF SlotOf

\* int32(p.seq - j.next) is the distance between the frames, whatever lap of
\* the sequence space each is on, as long as it is below half the space.
LEMMA DeltaIsDistance ==
  ASSUME NEW n \in Int, NEW c \in Int, n - c \in -Half .. (Half - 1)
  PROVE  SignedDelta(n % Modulus, c % Modulus) = n - c
<1>1. ((n % Modulus) - (c % Modulus)) % Modulus = (n - c) % Modulus
  BY Sizes, ModDifference
<1>2. CASE n - c >= 0
  <2>1. (n - c) % Modulus = n - c
    BY <1>2, Sizes, ModSmall
  <2> QED BY <1>1, <1>2, <2>1, Sizes DEF SignedDelta
<1>3. CASE n - c < 0
  <2>1. (n - c) % Modulus = (n - c) + Modulus
    BY <1>3, Sizes, ModSmall
  <2> QED BY <1>1, <1>3, <2>1, Sizes DEF SignedDelta
<1> QED
  BY <1>2, <1>3
-----------------------------------------------------------------------------
(* What the actions do, said in frame numbers: the wire's sequence numbers *)
(* and the int32 difference are gone.                                      *)

\* The window is placed at frame n, and nothing else is buffered.
Placed(n) ==
  /\ started' = TRUE
  /\ next' = n % Modulus
  /\ wait' = Prebuffer
  /\ position' = n
  /\ slots' = [slots EXCEPT ![SlotOf(n)] = Packet(n)]
  /\ valid' = [i \in Slot |-> i = SlotOf(n)]
  /\ UNCHANGED <<taken, played>>

\* Frame n is put into its free slot.
Stored(n) ==
  /\ slots' = [slots EXCEPT ![SlotOf(n)] = Packet(n)]
  /\ valid' = [valid EXCEPT ![SlotOf(n)] = TRUE]
  /\ UNCHANGED <<next, started, wait, taken, position, played>>

\* The slot of a frame is a slot.
LEMMA SlotOfType ==
  ASSUME NEW n \in Int
  PROVE  SlotOf(n) \in Slot
BY Sizes, DivMod DEF SlotOf, Slot

\* An arrival ignores, stores or restarts, decided by the distance of the
\* frame from the cursor.
LEMMA ArriveEffect ==
  ASSUME IInv, NEW n \in Frames, Arrive(n)
  PROVE  \/ started /\ n < position /\ UNCHANGED vars
         \/ /\ started /\ n \in position .. (position + SlotCount - 1)
            /\ valid[SlotOf(n)]
            /\ UNCHANGED vars
         \/ /\ started /\ n \in position .. (position + SlotCount - 1)
            /\ ~valid[SlotOf(n)]
            /\ Stored(n)
         \/ (~started \/ n >= position + SlotCount) /\ Placed(n)
<1> USE DEF NoFrame
<1>1. n \in Nat /\ n \in Int
  BY PlayoutAssumption
<1>2. position \in Nat /\ next = position % Modulus /\ started \in BOOLEAN
  BY DEF IInv, TypeOK, WindowInv, CursorInStep
<1>3. Packet(n).seq = n % Modulus /\ Packet(n).audio = n
  BY DEF Packet
<1>4. SlotOf(Packet(n).seq) = SlotOf(n) /\ SlotOf(n) \in Slot
  BY <1>1, <1>3, SlotOfSeq, SlotOfType
<1>5. CASE ~started
  <2>1. Base(Packet(n)) = n % Modulus
    BY <1>5, <1>3 DEF Base
  <2>2. SignedDelta(n % Modulus, n % Modulus) = 0
    <3>1. n - n \in -Half .. (Half - 1)
      BY <1>1, Sizes
    <3> QED BY <3>1, <1>1, DeltaIsDistance
  <2>3. InsertInWindow(Packet(n)) /\ UNCHANGED <<taken, played>>
    BY <2>1, <2>2, <1>3, Sizes
    DEF Arrive, Insert, InsertLate, InsertAfterGap
  <2>4. \A i \in Slot : valid[i] = FALSE
    BY <1>5 DEF IInv, PlayedInv, TypeOK
  <2>5. valid' = [valid EXCEPT ![SlotOf(n)] = TRUE]
    BY <2>3, <2>4, <1>4 DEF InsertInWindow
  <2>6. valid' = [i \in Slot |-> i = SlotOf(n)]
    BY <2>5, <2>4, <1>4 DEF IInv, TypeOK
  <2> QED
    BY <2>1, <2>3, <2>4, <2>6, <1>3, <1>4, <1>5 DEF InsertInWindow, Placed
<1>6. CASE started
  <2>1. Base(Packet(n)) = position % Modulus
    BY <1>6, <1>2 DEF Base
  <2>2. n - position \in -Half .. (Half - 1)
    BY <1>6 DEF Arrive
  <2>3. SignedDelta(Packet(n).seq, Base(Packet(n))) = n - position
    BY <2>1, <2>2, <1>1, <1>2, <1>3, DeltaIsDistance
  <2>4. Insert(Packet(n)) /\ UNCHANGED <<taken, played>>
    BY DEF Arrive, Insert
  <2>5. CASE InsertLate(Packet(n))
    BY <2>3, <2>4, <2>5, <1>1, <1>2, <1>6 DEF InsertLate, vars
  <2>6. CASE InsertInWindow(Packet(n))
    <3>1. n \in position .. (position + SlotCount - 1)
      BY <2>3, <2>6, <1>1, <1>2, Sizes DEF InsertInWindow
    <3>2. UNCHANGED <<next, started, wait, position>>
      BY <2>6, <1>6 DEF InsertInWindow, Base
    <3> QED
      BY <3>1, <3>2, <2>4, <2>6, <1>4, <1>6 DEF InsertInWindow, Stored, vars
  <2>7. CASE InsertAfterGap(Packet(n))
    <3>1. n >= position + SlotCount
      BY <2>3, <2>7, <1>1, <1>2, Sizes DEF InsertAfterGap
    <3> QED
      BY <3>1, <2>4, <2>7, <1>3, <1>4, <1>6 DEF InsertAfterGap, Placed
  <2> QED BY <2>4, <2>5, <2>6, <2>7 DEF Insert
<1> QED
  BY <1>2, <1>5, <1>6

\* A tick plays the frame at the cursor exactly when its slot is marked: the
\* comparison of sequence numbers in take never fails on a marked slot.
LEMMA TickEffect ==
  ASSUME IInv, started, wait = 0, Tick
  PROVE  /\ taken'.active
         /\ taken'.received = valid[SlotOf(position)]
         /\ taken'.received => taken'.packet.audio = position
         /\ taken'.packet = slots[SlotOf(position)]
         /\ taken' \in [packet : PacketType, received : BOOLEAN, active : BOOLEAN]
         /\ next' = (position + 1) % Modulus
         /\ position' = position + 1
         /\ valid' = [valid EXCEPT ![SlotOf(position)] = FALSE]
         /\ UNCHANGED <<slots, started, wait>>
<1> DEFINE i == SlotOf(position)
<1>1. position \in Nat /\ next = position % Modulus
  BY DEF IInv, TypeOK, WindowInv, CursorInStep
<1>2. SlotOf(next) = i /\ i \in Slot
  BY <1>1, SlotOfSeq, SlotOfType
<1>3. TakeNext
  BY DEF Tick, Take
<1>4. slots[i] \in PacketType /\ valid[i] \in BOOLEAN
  BY <1>2 DEF IInv, TypeOK
<1>5. valid[i] => slots[i].audio = position /\ slots[i].seq = next
  <2> HAVE valid[i]
  <2> DEFINE n == slots[i].audio
  <2>1. /\ slots[i] = Packet(n)
        /\ n \in position .. (position + SlotCount - 1)
        /\ SlotOf(position) = SlotOf(n)
    BY <1>2 DEF IInv, WindowInv, SlotInStep
  <2>2. /\ n \in Int /\ position \in Int
        /\ n - position < SlotCount /\ position - n < SlotCount
        /\ n % SlotCount = position % SlotCount
    BY <2>1, <1>1, Sizes DEF SlotOf
  <2> HIDE DEF n
  <2>3. n = position
    BY <2>2, Sizes, SameSlot
  <2> QED BY <2>1, <2>3, <1>1 DEF Packet, n
<1>6. taken' = [packet |-> slots[i], received |-> valid[i], active |-> TRUE]
  BY <1>2, <1>3, <1>4, <1>5 DEF TakeNext
<1>7. next' = (position + 1) % Modulus
  <2>1. position \in Int /\ Modulus \in Nat \ {0}
    BY <1>1, Sizes
  <2>2. ((position % Modulus) + 1) % Modulus = (position + 1) % Modulus
    BY <2>1, ModStep, Zenon
  <2> QED BY <1>1, <1>3, <2>2 DEF TakeNext
<1> QED
  BY <1>2, <1>3, <1>4, <1>5, <1>6, <1>7 DEF TakeNext

-----------------------------------------------------------------------------
(* The inductive invariant.                                                *)

\* The initial state of a call satisfies the invariant.
LEMMA InitInvariant == Init => IInv
<1> HAVE Init
<1>1. 0 \in 0 .. (Modulus - 1) /\ 0 % Modulus = 0
  BY Sizes, ModSmall
<1>2. Prebuffer \in Nat
  BY JitterAssumption
<1>3. NoPacket \in PacketType
  BY <1>1 DEF NoPacket, PacketType, NoFrame
<1>4. Inactive \in [packet : PacketType, received : BOOLEAN, active : BOOLEAN]
  BY <1>3 DEF Inactive
<1>5. TypeOK
  <2>1. slots \in [Slot -> PacketType] /\ valid \in [Slot -> BOOLEAN]
    BY <1>3 DEF Init, JitterInit
  <2>2. /\ next \in 0 .. (Modulus - 1) /\ wait \in 0 .. Prebuffer
        /\ position \in Nat
    BY Sizes, <1>2 DEF Init, JitterInit
  <2>3. taken = Inactive /\ started \in BOOLEAN /\ played \in Nat \cup {NoFrame}
    BY DEF Init, JitterInit
  <2> QED BY <2>1, <2>2, <2>3, <1>4 DEF TypeOK
<1>6. WindowInv /\ PlayedInv
  BY <1>1 DEF Init, JitterInit, WindowInv, CursorInStep, PlayedInv
<1> QED
  BY <1>5, <1>6 DEF IInv

\* Placing the window preserves the invariant.
LEMMA PlacedInvariant ==
  ASSUME IInv, NEW n \in Frames, Placed(n), ~started \/ n >= position + SlotCount
  PROVE  IInv'
<1>1. n \in Nat /\ n % Modulus \in 0 .. (Modulus - 1) /\ SlotOf(n) \in Slot
  BY PlayoutAssumption, Sizes, DivMod, SlotOfType
<1>2. Packet(n) \in PacketType /\ Packet(n).audio = n
  BY <1>1 DEF Packet, PacketType
<1>3. slots' \in [Slot -> PacketType] /\ slots'[SlotOf(n)] = Packet(n)
  BY <1>1, <1>2 DEF Placed, IInv, TypeOK
<1>4. TypeOK'
  BY <1>1, <1>3, JitterAssumption DEF Placed, IInv, TypeOK
<1>5. WindowInv'
  <2>1. CursorInStep'
    BY DEF Placed, CursorInStep
  <2>2. ASSUME NEW i \in Slot, valid'[i] PROVE SlotInStep(i)'
    <3>1. i = SlotOf(n)
      BY <2>2 DEF Placed
    <3>2. slots'[i].audio = n /\ slots'[i] = Packet(n)
      BY <3>1, <1>2, <1>3
    <3>3. n \in n .. (n + SlotCount - 1)
      BY <1>1, Sizes
    <3> QED BY <3>1, <3>2, <3>3 DEF Placed, SlotInStep, Packet
  <2> QED BY <2>1, <2>2 DEF WindowInv
<1>6. PlayedInv'
  BY <1>1, Sizes DEF Placed, IInv, TypeOK, PlayedInv, NoFrame
<1> QED
  BY <1>4, <1>5, <1>6 DEF IInv

\* Storing a frame of the window preserves the invariant.
LEMMA StoredInvariant ==
  ASSUME IInv, NEW n \in Frames, Stored(n), started,
         n \in position .. (position + SlotCount - 1)
  PROVE  IInv'
<1>1. n \in Nat /\ n % Modulus \in 0 .. (Modulus - 1) /\ SlotOf(n) \in Slot
  BY PlayoutAssumption, Sizes, DivMod, SlotOfType
<1>2. Packet(n) \in PacketType /\ Packet(n).audio = n
  BY <1>1 DEF Packet, PacketType
<1>3. TypeOK'
  BY <1>1, <1>2 DEF Stored, IInv, TypeOK
<1>4. WindowInv'
  <2>1. CursorInStep'
    BY DEF Stored, IInv, WindowInv, CursorInStep
  <2>2. ASSUME NEW i \in Slot, valid'[i] PROVE SlotInStep(i)'
    <3>1. CASE i = SlotOf(n)
      <4>1. slots'[i] = Packet(n)
        BY <1>1, <3>1 DEF Stored, IInv, TypeOK
      <4> QED BY <4>1, <1>2, <3>1 DEF Stored, SlotInStep, Packet
    <3>2. CASE i # SlotOf(n)
      <4>1. valid[i] /\ slots'[i] = slots[i]
        BY <2>2, <1>1, <3>2 DEF Stored, IInv, TypeOK
      <4>2. SlotInStep(i)
        BY <4>1 DEF IInv, WindowInv
      <4> QED BY <4>1, <4>2 DEF Stored, SlotInStep, Packet
    <3> QED BY <3>1, <3>2
  <2> QED BY <2>1, <2>2 DEF WindowInv
<1>5. PlayedInv'
  BY DEF Stored, IInv, PlayedInv
<1> QED
  BY <1>3, <1>4, <1>5 DEF IInv

\* Playing the frame at the cursor preserves the invariant.
LEMMA TickInvariant ==
  ASSUME IInv, Tick
  PROVE  IInv'
<1>1. CASE ~(started /\ wait = 0)
  <2>1. TakeNothing
    BY <1>1 DEF Tick, Take, IInv, TypeOK
  <2>2. taken' = Inactive /\ played' = played
    BY <2>1 DEF Tick, TakeNothing, Inactive
  <2>3. Inactive \in [packet : PacketType, received : BOOLEAN, active : BOOLEAN]
    BY Sizes DEF Inactive, PacketType, NoPacket, NoFrame
  <2>4. TypeOK'
    BY <2>1, <2>2, <2>3, JitterAssumption DEF IInv, TypeOK, TakeNothing
  <2>5. WindowInv'
    BY <2>1 DEF IInv, WindowInv, CursorInStep, SlotInStep, TakeNothing, Packet
  <2>6. PlayedInv'
    BY <2>1, <2>2 DEF IInv, PlayedInv, TakeNothing
  <2> QED BY <2>4, <2>5, <2>6 DEF IInv
<1>2. CASE started /\ wait = 0
  <2> DEFINE p == SlotOf(position)
  <2>1. position \in Nat /\ p \in Slot
    BY SlotOfType DEF IInv, TypeOK
  <2>2. /\ taken'.received => taken'.packet.audio = position
        /\ taken' \in [packet : PacketType, received : BOOLEAN, active : BOOLEAN]
        /\ next' = (position + 1) % Modulus
        /\ position' = position + 1
        /\ valid' = [valid EXCEPT ![p] = FALSE]
        /\ UNCHANGED <<slots, started, wait>>
    BY <1>2, TickEffect
  <2>3. played' = IF taken'.received THEN position ELSE played
    BY <2>2 DEF Tick
  <2>4. TypeOK'
    <3>1. (position + 1) % Modulus \in 0 .. (Modulus - 1)
      BY <2>1, Sizes, DivMod
    <3> QED BY <2>1, <2>2, <2>3, <3>1 DEF IInv, TypeOK
  <2>5. WindowInv'
    <3>1. CursorInStep'
      BY <2>2 DEF CursorInStep
    <3>2. ASSUME NEW i \in Slot, valid'[i] PROVE SlotInStep(i)'
      <4>1. valid[i] /\ i # p /\ slots'[i] = slots[i]
        BY <2>1, <2>2, <3>2 DEF IInv, TypeOK
      <4>2. SlotInStep(i)
        BY <4>1 DEF IInv, WindowInv
      <4>3. slots[i].audio # position
        BY <4>1, <4>2 DEF SlotInStep
      <4>4. slots[i].audio \in (position + 1) .. ((position + 1) + SlotCount - 1)
        BY <2>1, <4>2, <4>3, Sizes DEF SlotInStep
      <4> QED BY <2>2, <4>1, <4>2, <4>4 DEF SlotInStep, Packet
    <3> QED BY <3>1, <3>2 DEF WindowInv
  <2>6. PlayedInv'
    BY <1>2, <2>1, <2>2, <2>3 DEF IInv, PlayedInv, TypeOK, NoFrame
  <2> QED BY <2>4, <2>5, <2>6 DEF IInv
<1> QED
  BY <1>1, <1>2

\* Every step of the call preserves the invariant.
LEMMA StepInvariant == IInv /\ [Next]_vars => IInv'
<1> SUFFICES ASSUME IInv, [Next]_vars PROVE IInv'
  OBVIOUS
<1>1. CASE Tick
  BY <1>1, TickInvariant
<1>2. ASSUME NEW n \in Frames, Arrive(n) PROVE IInv'
  <2>1. CASE UNCHANGED vars
    BY <2>1 DEF vars, IInv, TypeOK, WindowInv, CursorInStep, SlotInStep,
                PlayedInv, Packet
  <2>2. CASE started /\ n \in position .. (position + SlotCount - 1) /\ Stored(n)
    BY <2>2, StoredInvariant
  <2>3. CASE (~started \/ n >= position + SlotCount) /\ Placed(n)
    BY <2>3, PlacedInvariant
  <2> QED BY <1>2, <2>1, <2>2, <2>3, ArriveEffect
<1>3. CASE UNCHANGED vars
  BY <1>3 DEF vars, IInv, TypeOK, WindowInv, CursorInStep, SlotInStep,
              PlayedInv, Packet
<1> QED
  BY <1>1, <1>2, <1>3 DEF Next

\* The ring's invariant holds in every reachable state, for every size of
\* the ring and of the sequence space (protocol.go, insert and take).
THEOREM InvariantHolds == Spec => []IInv
BY InitInvariant, StepInvariant, PTL DEF Spec

\* The fields of jitterBuffer keep their types.
THEOREM TypeCorrect == Spec => []TypeOK
<1>1. IInv => TypeOK
  BY DEF IInv
<1> QED
  BY <1>1, InvariantHolds, PTL

\* No slot is ever blocked by a packet of another lap (protocol.go, the
\* modulo indexing in insert and take).
THEOREM WindowHolds == Spec => []WindowInv
<1>1. IInv => WindowInv
  BY DEF IInv
<1> QED
  BY <1>1, InvariantHolds, PTL

\* No frame is played twice or after a later one (protocol.go, take).
THEOREM PlaysInOrderHolds == Spec => PlaysInOrder
<1>1. IInv /\ [Next]_vars => [Tick /\ taken'.received => taken'.packet.audio > played]_vars
  <2> SUFFICES ASSUME IInv, Tick, taken'.received
               PROVE  taken'.packet.audio > played
    OBVIOUS
  <2>1. started /\ wait = 0
    BY DEF Tick, Take, TakeNothing, Inactive
  <2>2. taken'.packet.audio = position
    BY <2>1, TickEffect
  <2> QED BY <2>1, <2>2 DEF IInv, TypeOK, PlayedInv, NoFrame
<1> QED
  BY <1>1, InvariantHolds, PTL DEF Spec, PlaysInOrder

-----------------------------------------------------------------------------
(* The ring implements the window over unbounded frame numbers.            *)

\* The frames waiting in the ring: pending of ReorderWindow.
Waiting == {slots[i].audio : i \in {j \in Slot : valid[j]}}

\* What the last tick handed out: out of ReorderWindow.
Output == [active   |-> taken.active,
           received |-> taken.received,
           frame    |-> IF taken.received THEN taken.packet.audio ELSE NoFrame]

\* A frame of the window waits exactly when its own slot is marked.
LEMMA WaitingSlot ==
  ASSUME IInv, NEW n \in position .. (position + SlotCount - 1)
  PROVE  n \in Waiting <=> valid[SlotOf(n)]
<1>1. position \in Nat /\ n \in Int /\ SlotOf(n) \in Slot
  BY SlotOfType DEF IInv, TypeOK
<1>2. ASSUME n \in Waiting PROVE valid[SlotOf(n)]
  <2>1. PICK i \in Slot : valid[i] /\ slots[i].audio = n
    BY <1>2 DEF Waiting
  <2> QED BY <2>1 DEF IInv, WindowInv, SlotInStep
<1>3. ASSUME valid[SlotOf(n)] PROVE n \in Waiting
  <2> DEFINE m == slots[SlotOf(n)].audio
  <2>1. m \in position .. (position + SlotCount - 1) /\ SlotOf(n) = SlotOf(m)
    BY <1>1, <1>3 DEF IInv, WindowInv, SlotInStep
  <2>2. m \in Waiting
    BY <1>1, <1>3 DEF Waiting
  <2> HIDE DEF m
  <2>3. /\ m \in Int /\ m - n < SlotCount /\ n - m < SlotCount
        /\ m % SlotCount = n % SlotCount
    BY <1>1, <2>1, Sizes DEF SlotOf
  <2>4. m = n
    BY <1>1, <2>3, Sizes, SameSlot
  <2> QED BY <2>2, <2>4
<1> QED
  BY <1>2, <1>3

\* Storing a frame of the window adds it to the waiting ones.
LEMMA WaitingStored ==
  ASSUME IInv, NEW n \in Frames, Stored(n), ~valid[SlotOf(n)]
  PROVE  Waiting' = Waiting \cup {n}
<1>1. n \in Nat /\ SlotOf(n) \in Slot /\ Packet(n).audio = n
  BY PlayoutAssumption, SlotOfType DEF Packet
<1>2. \A i \in Slot : i # SlotOf(n) => valid'[i] = valid[i] /\ slots'[i] = slots[i]
  BY <1>1 DEF Stored, IInv, TypeOK
<1>3. valid'[SlotOf(n)] /\ slots'[SlotOf(n)].audio = n
  BY <1>1 DEF Stored, IInv, TypeOK
<1>4. ASSUME NEW x \in Waiting' PROVE x \in Waiting \cup {n}
  <2>1. PICK i \in Slot : valid'[i] /\ x = slots'[i].audio
    BY <1>4 DEF Waiting
  <2> QED BY <2>1, <1>2, <1>3 DEF Waiting
<1>5. ASSUME NEW x \in Waiting PROVE x \in Waiting'
  <2>1. PICK i \in Slot : valid[i] /\ x = slots[i].audio
    BY <1>5 DEF Waiting
  <2> QED BY <2>1, <1>2 DEF Waiting
<1>6. n \in Waiting'
  BY <1>1, <1>3 DEF Waiting
<1> QED
  BY <1>4, <1>5, <1>6

\* Placing the window leaves only the new frame waiting.
LEMMA WaitingPlaced ==
  ASSUME IInv, NEW n \in Frames, Placed(n)
  PROVE  Waiting' = {n}
<1>1. n \in Nat /\ SlotOf(n) \in Slot /\ Packet(n).audio = n
  BY PlayoutAssumption, SlotOfType DEF Packet
<1>2. slots'[SlotOf(n)].audio = n
  BY <1>1 DEF Placed, IInv, TypeOK
<1>3. \A i \in Slot : valid'[i] <=> i = SlotOf(n)
  BY DEF Placed
<1> QED
  BY <1>1, <1>2, <1>3 DEF Waiting

\* Playing a tick removes the frame at the cursor and no other.
LEMMA WaitingTaken ==
  ASSUME IInv, started, wait = 0, Tick
  PROVE  Waiting' = Waiting \ {position}
<1> DEFINE p == SlotOf(position)
<1>1. position \in Nat /\ p \in Slot
  BY SlotOfType DEF IInv, TypeOK
<1>2. valid' = [valid EXCEPT ![p] = FALSE] /\ slots' = slots
  BY TickEffect
<1>3. \A i \in Slot : valid'[i] <=> valid[i] /\ i # p
  BY <1>1, <1>2 DEF IInv, TypeOK
<1>4. \A i \in Slot : valid[i] => i = SlotOf(slots[i].audio)
  BY DEF IInv, WindowInv, SlotInStep
<1>5. valid[p] => slots[p].audio = position
  BY <1>1, TickEffect
<1>6. ASSUME NEW x \in Waiting' PROVE x \in Waiting \ {position}
  <2>1. PICK i \in Slot : valid'[i] /\ x = slots'[i].audio
    BY <1>6 DEF Waiting
  <2> QED BY <2>1, <1>2, <1>3, <1>4 DEF Waiting
<1>7. ASSUME NEW x \in Waiting \ {position} PROVE x \in Waiting'
  <2>1. PICK i \in Slot : valid[i] /\ x = slots[i].audio
    BY <1>7 DEF Waiting
  <2> QED BY <2>1, <1>2, <1>3, <1>5 DEF Waiting
<1> QED
  BY <1>6, <1>7

\* The initial state of the ring maps to the initial state of the window.
LEMMA InitRefines == Init => Window!Init
<1> HAVE Init
<1>1. Waiting = {}
  BY DEF Init, JitterInit, Waiting
<1>2. Output = Window!Idle
  BY DEF Init, JitterInit, Inactive, Output, Window!Idle, Window!NoFrame, NoFrame
<1> QED
  BY <1>1, <1>2 DEF Init, JitterInit, Window!Init, Waiting, Output

\* Every arrival at the ring is an arrival at the window.
LEMMA ArriveRefines ==
  ASSUME IInv, NEW n \in Frames, Arrive(n)
  PROVE  Window!Arrive(n)
<1>1. CASE started /\ n < position /\ UNCHANGED vars
  BY <1>1 DEF vars, Window!Arrive, Window!absVars
<1>2. CASE /\ started /\ n \in position .. (position + SlotCount - 1)
           /\ valid[SlotOf(n)]
           /\ UNCHANGED vars
  <2>1. n \in Waiting
    BY <1>2, WaitingSlot
  <2>2. Waiting' = Waiting \cup {n} /\ Output' = Output
    BY <1>2, <2>1 DEF vars, Waiting, Output
  <2> QED BY <1>2, <2>2 DEF vars, Window!Arrive, Waiting, Output
<1>3. CASE /\ started /\ n \in position .. (position + SlotCount - 1)
           /\ ~valid[SlotOf(n)]
           /\ Stored(n)
  <2>1. Waiting' = Waiting \cup {n}
    BY <1>3, WaitingStored
  <2>2. Output' = Output
    BY <1>3 DEF Stored, Output
  <2> QED BY <1>3, <2>1, <2>2 DEF Stored, Window!Arrive, Waiting, Output
<1>4. CASE (~started \/ n >= position + SlotCount) /\ Placed(n)
  <2>1. Waiting' = {n}
    BY <1>4, WaitingPlaced
  <2>2. Output' = Output
    BY <1>4 DEF Placed, Output
  <2> QED BY <1>4, <2>1, <2>2 DEF Placed, Window!Arrive, Window!Restart, Waiting, Output
<1> QED
  BY <1>1, <1>2, <1>3, <1>4, ArriveEffect

\* Every tick of the ring is a tick of the window.
LEMMA TickRefines ==
  ASSUME IInv, Tick
  PROVE  Window!Tick
<1>1. CASE ~(started /\ wait = 0)
  <2>1. TakeNothing
    BY <1>1 DEF Tick, Take, IInv, TypeOK
  <2>2. Waiting' = Waiting
    BY <2>1 DEF TakeNothing, Waiting
  <2>3. Output' = Window!Idle
    BY <2>1 DEF TakeNothing, Inactive, Output, Window!Idle, Window!NoFrame, NoFrame
  <2>4. wait \in Nat
    BY DEF IInv, TypeOK
  <2> QED BY <1>1, <2>1, <2>2, <2>3, <2>4 DEF TakeNothing, Window!Tick, Waiting, Output
<1>2. CASE started /\ wait = 0
  <2>1. Waiting' = Waiting \ {position}
    BY <1>2, WaitingTaken
  <2>2. /\ taken'.active
        /\ taken'.received = valid[SlotOf(position)]
        /\ taken'.received => taken'.packet.audio = position
        /\ taken' \in [packet : PacketType, received : BOOLEAN, active : BOOLEAN]
        /\ position' = position + 1
        /\ UNCHANGED <<started, wait>>
    BY <1>2, TickEffect
  <2>3. position \in position .. (position + SlotCount - 1)
    BY Sizes DEF IInv, TypeOK
  <2>4. position \in Waiting <=> valid[SlotOf(position)]
    BY <2>3, WaitingSlot
  <2>5. Output' = IF position \in Waiting THEN Window!Frame(position) ELSE Window!Hole
    BY <2>2, <2>4 DEF Output, Window!Frame, Window!Hole, Window!NoFrame, NoFrame
  <2> QED BY <1>2, <2>1, <2>2, <2>5 DEF Window!Tick, Waiting, Output
<1> QED
  BY <1>1, <1>2

\* The ring with wrapping sequence numbers implements the window over
\* unbounded frame numbers (protocol.go, jitterBuffer).
THEOREM RingImplementsWindow == Spec => ImplementsWindow
<1>1. Init => Window!Init
  BY InitRefines
<1>2. IInv /\ [Next]_vars => [Window!Next]_(Window!absVars)
  <2> SUFFICES ASSUME IInv, [Next]_vars PROVE [Window!Next]_(Window!absVars)
    OBVIOUS
  <2>1. CASE Tick
    BY <2>1, TickRefines DEF Window!Next
  <2>2. ASSUME NEW n \in Frames, Arrive(n) PROVE Window!Next
    BY <2>2, ArriveRefines DEF Window!Next
  <2>3. CASE UNCHANGED vars
    BY <2>3 DEF vars, Window!absVars
  <2> QED BY <2>1, <2>2, <2>3 DEF Next
<1> QED
  BY <1>1, <1>2, InvariantHolds, PTL DEF Spec, Window!Spec, ImplementsWindow
-----------------------------------------------------------------------------
(* The way of a frame: channels of any capacity around the jitter buffer.  *)

\* What the channel playback carries.
Sound == [frame : Nat \cup {NoFrame}, source : Nat \cup {NoFrame}]

\* The variables of the path have their types; only recorded frames travel.
PathTyped ==
  /\ spoken \in Nat
  /\ captured \in Seq(Frames) /\ incoming \in Seq(Frames)
  /\ network \subseteq Frames
  /\ playback \in Seq(Sound)
  /\ heard \in Nat \cup {NoFrame} /\ newest \in Nat \cup {NoFrame}

\* The frames of q are between low and high and their numbers rise; silence
\* may stand anywhere between them.
Rising(q, low, high) ==
  /\ \A i \in 1 .. Len(q) :
       q[i].frame # NoFrame => low < q[i].frame /\ q[i].frame < high
  /\ \A i, j \in 1 .. Len(q) :
       i < j /\ q[i].frame # NoFrame /\ q[j].frame # NoFrame
         => q[i].frame < q[j].frame

\* What waits for the speaker lies between what was heard and the cursor,
\* and the cursor is less than a window behind the newest frame.
PathOrdered ==
  /\ heard < position
  /\ newest < position + SlotCount
  /\ ~started => position = 0
  /\ Rising(playback, heard, position)
  /\ \A i \in 1 .. Len(playback) : playback[i].source \in {NoFrame, playback[i].frame}

\* The inductive invariant of the path.
PathInv == IInv /\ PathTyped /\ PathOrdered

\* A channel takes a frame at its end or not at all.
LEMMA OfferElements ==
  ASSUME NEW S, NEW q \in Seq(S), NEW x \in S, NEW cap \in Nat
  PROVE  Offer(q, x, cap) \in Seq(S) /\ Offer(q, x, cap) \in {q, Append(q, x)}
BY DEF Offer

\* Taking the head of a channel leaves the others, one place further ahead.
LEMMA TailElements ==
  ASSUME NEW S, NEW q \in Seq(S), q # <<>>
  PROVE  /\ Head(q) \in S /\ Head(q) = q[1] /\ Len(q) \in Nat /\ Len(q) >= 1
         /\ Tail(q) \in Seq(S) /\ Len(Tail(q)) = Len(q) - 1
         /\ \A i \in 1 .. Len(Tail(q)) : Tail(q)[i] = q[i + 1]
BY HeadTailProperties, EmptySeq

\* A channel that the step does not touch stays in order when the cursor
\* moves ahead.
LEMMA RisingLater ==
  ASSUME NEW q \in Seq(Sound), NEW low \in Int, NEW high \in Int, NEW top \in Int,
         Rising(q, low, high), high <= top
  PROVE  Rising(q, low, top)
<1>1. \A s \in Sound : s.frame \in Int
  BY DEF Sound, NoFrame
<1>2. \A i \in 1 .. Len(q) : q[i].frame \in Int
  BY <1>1
<1>3. ASSUME NEW i \in 1 .. Len(q), q[i].frame # NoFrame
      PROVE  low < q[i].frame /\ q[i].frame < top
  <2>1. PICK f \in Int : f = q[i].frame
    BY <1>2
  <2>2. low < f /\ f < high
    BY <1>3, <2>1 DEF Rising
  <2> QED BY <2>1, <2>2
<1>4. \A i, j \in 1 .. Len(q) :
        i < j /\ q[i].frame # NoFrame /\ q[j].frame # NoFrame
          => q[i].frame < q[j].frame
  BY DEF Rising
<1> QED
  BY <1>3, <1>4 DEF Rising

\* A frame made at the cursor, or silence, goes behind what is queued.
LEMMA RisingAppend ==
  ASSUME NEW q \in Seq(Sound), NEW x \in Sound,
         NEW low \in Int, NEW high \in Int, NEW top \in Int,
         Rising(q, low, high), low < high, high <= top,
         x.frame # NoFrame => high <= x.frame /\ x.frame < top
  PROVE  Rising(q, low, top) /\ Rising(Append(q, x), low, top)
<1> DEFINE r == Append(q, x)
<1>1. /\ Len(q) \in Nat /\ Len(r) = Len(q) + 1
      /\ \A i \in 1 .. Len(q) : r[i] = q[i]
      /\ r[Len(q) + 1] = x
  OBVIOUS
<1>2. /\ \A i \in 1 .. Len(q) : q[i].frame \in Int
      /\ x.frame \in Int
  <2>1. \A s \in Sound : s.frame \in Int
    BY DEF Sound, NoFrame
  <2>2. \A i \in 1 .. Len(q) : q[i] \in Sound
    OBVIOUS
  <2> QED BY <2>1, <2>2
<1>3. Rising(q, low, top)
  BY RisingLater
<1>4. ASSUME NEW i \in 1 .. Len(r), r[i].frame # NoFrame
      PROVE  low < r[i].frame /\ r[i].frame < top
  <2>1. CASE i = Len(q) + 1
    BY <1>1, <1>2, <1>4, <2>1
  <2>2. CASE i \in 1 .. Len(q)
    BY <1>1, <1>2, <1>3, <1>4, <2>2 DEF Rising
  <2> QED BY <1>1, <2>1, <2>2
<1>5. ASSUME NEW i \in 1 .. Len(r), NEW j \in 1 .. Len(r), i < j,
             r[i].frame # NoFrame, r[j].frame # NoFrame
      PROVE  r[i].frame < r[j].frame
  <2>1. i \in 1 .. Len(q) /\ r[i] = q[i]
    BY <1>1, <1>5
  <2>2. q[i].frame < high
    BY <1>5, <2>1 DEF Rising
  <2>3. CASE j = Len(q) + 1
    BY <1>1, <1>2, <1>5, <2>1, <2>2, <2>3
  <2>4. CASE j \in 1 .. Len(q)
    BY <1>1, <1>5, <2>1, <2>4 DEF Rising
  <2> QED BY <1>1, <2>3, <2>4
<1> HIDE DEF r
<1>6. Rising(r, low, top)
  BY <1>4, <1>5 DEF Rising
<1> QED
  BY <1>3, <1>6 DEF r

\* Distances from the cursor shrink as it moves from p to q.
LEMMA CursorDistance ==
  ASSUME NEW a \in Int, NEW p \in Int, NEW q \in Int, NEW s \in Int, p <= q
  PROVE  /\ a < p => a < q
         /\ a < p + s => a < q + s /\ a - p < s
OBVIOUS

\* Once the head was heard, the rest of the queue lies after it.
LEMMA RisingTail ==
  ASSUME NEW q \in Seq(Sound), q # <<>>, NEW low \in Int, NEW high \in Int,
         Rising(q, low, high)
  PROVE  /\ Head(q).frame = NoFrame => Rising(Tail(q), low, high)
         /\ Head(q).frame # NoFrame => /\ low < Head(q).frame
                                       /\ Head(q).frame < high
                                       /\ Rising(Tail(q), Head(q).frame, high)
<1> DEFINE t == Tail(q)
           h == Head(q).frame
<1>1. /\ Head(q) = q[1] /\ Len(q) \in Nat /\ Len(q) >= 1
      /\ Len(t) = Len(q) - 1
      /\ \A i \in 1 .. Len(t) : t[i] = q[i + 1]
  BY TailElements
<1>2. h = q[1].frame /\ 1 \in 1 .. Len(q)
  BY <1>1
<1> HIDE DEF t, h
<1>3. \A i \in 1 .. Len(t) : i + 1 \in 1 .. Len(q) /\ 1 < i + 1
  BY <1>1
<1>4. h # NoFrame => low < h /\ h < high
  BY <1>2 DEF Rising
<1>5. /\ \A i \in 1 .. Len(t) : t[i].frame # NoFrame
           => low < t[i].frame /\ t[i].frame < high
      /\ \A i \in 1 .. Len(t) : t[i].frame # NoFrame /\ h # NoFrame
           => h < t[i].frame
  BY <1>1, <1>2, <1>3 DEF Rising
<1>6. ASSUME NEW i \in 1 .. Len(t), NEW j \in 1 .. Len(t), i < j,
             t[i].frame # NoFrame, t[j].frame # NoFrame
      PROVE  t[i].frame < t[j].frame
  <2>1. i + 1 < j + 1 /\ i + 1 \in 1 .. Len(q) /\ j + 1 \in 1 .. Len(q)
    BY <1>3, <1>6
  <2> QED BY <1>1, <1>6, <2>1 DEF Rising
<1>7. Rising(t, low, high) /\ (h # NoFrame => Rising(t, h, high))
  BY <1>5, <1>6 DEF Rising
<1> QED
  BY <1>4, <1>7 DEF t, h

\* The call starts with empty channels and nothing heard.
LEMMA PathInit == VoiceInit => PathInv
<1> HAVE VoiceInit
<1>1. IInv
  BY InitInvariant DEF VoiceInit
<1>2. position = 0 /\ heard = -1 /\ newest = -1 /\ playback = <<>>
  BY DEF VoiceInit, Init, JitterInit, NoFrame
<1>3. PathTyped
  BY <1>2 DEF VoiceInit, PathTyped, NoFrame
<1>4. PathOrdered
  BY <1>2, Sizes DEF PathOrdered, Rising
<1> QED
  BY <1>1, <1>3, <1>4 DEF PathInv

\* Only frames that were recorded come out of the channel incoming.
LEMMA PathTakes ==
  ASSUME PathInv, TakeMessage
  PROVE  /\ Head(incoming) \in Frames /\ Head(incoming) \in Nat
         /\ Arrive(Head(incoming))
         /\ incoming' \in Seq(Frames)
<1>1. incoming \in Seq(Frames) /\ incoming # <<>> /\ incoming' = Tail(incoming)
  BY DEF PathInv, PathTyped, TakeMessage
<1>2. Head(incoming) \in Frames /\ Tail(incoming) \in Seq(Frames)
  BY <1>1, TailElements
<1> QED
  BY <1>1, <1>2, PlayoutAssumption DEF TakeMessage

\* Every step of the path is one of the jitter buffer, or leaves it alone.
LEMMA PathStepIsPlayout == PathInv /\ [VoiceNext]_voiceVars => [Next]_vars
<1> SUFFICES ASSUME PathInv, [VoiceNext]_voiceVars PROVE [Next]_vars
  OBVIOUS
<1>1. CASE TakeMessage
  <2>1. Head(incoming) \in Frames /\ Arrive(Head(incoming))
    BY <1>1, PathTakes
  <2> QED BY <2>1 DEF Next
<1>2. CASE PlayoutTick
  BY <1>2 DEF PlayoutTick, Next
<1>3. CASE Record \/ SendAudio \/ Play \/ \E n \in network : Lose(n) \/ Deliver(n)
  BY <1>3 DEF Record, SendAudio, Play, Lose, Deliver
<1>4. CASE UNCHANGED voiceVars
  BY <1>4 DEF voiceVars
<1> QED
  BY <1>1, <1>2, <1>3, <1>4 DEF VoiceNext

\* An arrival never moves the cursor back, and leaves it less than a window
\* behind the frame that arrived.
LEMMA ArriveAdvances ==
  ASSUME PathInv, NEW n \in Frames, Arrive(n)
  PROVE  /\ position' >= position
         /\ n < position' + SlotCount
         /\ started'
<1>1. n \in Nat /\ position \in Nat /\ SlotCount \in Nat \ {0}
  BY PlayoutAssumption, Sizes DEF PathInv, IInv, TypeOK
<1>2. ~started => position = 0
  BY DEF PathInv, PathOrdered
<1>3. CASE started /\ n < position /\ UNCHANGED vars
  BY <1>1, <1>3 DEF vars
<1>4. CASE started /\ n \in position .. (position + SlotCount - 1) /\ UNCHANGED vars
  BY <1>1, <1>4 DEF vars
<1>5. CASE started /\ n \in position .. (position + SlotCount - 1) /\ Stored(n)
  BY <1>1, <1>5 DEF Stored
<1>6. CASE (~started \/ n >= position + SlotCount) /\ Placed(n)
  BY <1>1, <1>2, <1>6 DEF Placed
<1> QED
  BY <1>3, <1>4, <1>5, <1>6, ArriveEffect DEF PathInv

\* Taking a message preserves the invariant.
LEMMA TakeMessageKeeps ==
  ASSUME PathInv, TakeMessage, IInv'
  PROVE  PathInv'
<1>1. PICK n : n = Head(incoming)
  OBVIOUS
<1>2. n \in Frames /\ n \in Nat /\ Arrive(n) /\ incoming' \in Seq(Frames)
  BY <1>1, PathTakes
<1>3. /\ newest' = IF n > newest THEN n ELSE newest
      /\ UNCHANGED <<spoken, captured, network, playback, heard>>
  BY <1>1 DEF TakeMessage
<1>4. position' >= position /\ n < position' + SlotCount /\ started'
  BY <1>2, ArriveAdvances
<1>5. /\ position \in Nat /\ position' \in Nat /\ SlotCount \in Nat
      /\ heard \in Int /\ newest \in Int /\ playback \in Seq(Sound)
  BY Sizes DEF PathInv, IInv, TypeOK, PathTyped, NoFrame
<1>6. /\ heard < position /\ newest < position + SlotCount
      /\ Rising(playback, heard, position)
  BY DEF PathInv, PathOrdered
<1>7. PathTyped'
  BY <1>2, <1>3 DEF PathInv, PathTyped
<1>8. heard' < position' /\ newest' < position' + SlotCount
  <2>1. /\ position \in Int /\ position' \in Int /\ SlotCount \in Int
        /\ position <= position'
    BY <1>4, <1>5
  <2>2. heard < position' /\ newest < position' + SlotCount
    BY <1>5, <1>6, <2>1, CursorDistance, Zenon
  <2> QED BY <1>3, <1>4, <2>2, Zenon
<1>9. Rising(playback, heard, position')
  BY <1>4, <1>5, <1>6, RisingLater
<1>10. PathOrdered'
  BY <1>3, <1>4, <1>8, <1>9 DEF PathInv, PathOrdered, Rising
<1> QED
  BY <1>7, <1>10 DEF PathInv

\* What a tick makes: silence, or the frame at the cursor, decoded from its
\* own packet or concealed.
LEMMA TickMakes ==
  ASSUME PathInv, Tick
  PROVE  /\ Made \in Sound
         /\ Made.source \in {NoFrame, Made.frame}
         /\ Made.frame # NoFrame => Made.frame = position /\ position' = position + 1
         /\ position' >= position /\ position' \in Nat
         /\ started' = started
         /\ ~started => position' = position
<1>1. IInv /\ position \in Nat /\ started \in BOOLEAN /\ wait \in Nat
  BY JitterAssumption DEF PathInv, IInv, TypeOK
<1>2. CASE ~(started /\ wait = 0)
  <2>1. TakeNothing
    BY <1>1, <1>2 DEF Tick, Take
  <2>2. taken'.active = FALSE /\ taken'.received = FALSE
    BY <2>1 DEF TakeNothing, Inactive
  <2>3. Made = [frame |-> NoFrame, source |-> NoFrame]
    BY <2>2 DEF Made
  <2>4. position' = position /\ started' = started
    BY <2>1 DEF TakeNothing
  <2> QED BY <1>1, <2>3, <2>4 DEF Sound
<1>3. CASE started /\ wait = 0
  <2>1. /\ taken'.active
        /\ taken'.received => taken'.packet.audio = position
        /\ position' = position + 1 /\ started' = started
    BY <1>1, <1>3, TickEffect
  <2>2. PICK src : src = IF taken'.received THEN taken'.packet.audio ELSE NoFrame
    OBVIOUS
  <2>3. Made = [frame |-> position, source |-> src] /\ src \in {NoFrame, position}
    BY <2>1, <2>2 DEF Made
  <2> QED BY <1>1, <1>3, <2>1, <2>3 DEF Sound
<1> QED
  BY <1>2, <1>3

\* A tick preserves the invariant, whether its frame finds room or not.
LEMMA PlayoutTickKeeps ==
  ASSUME PathInv, PlayoutTick, IInv'
  PROVE  PathInv'
<1>1. PICK x : x = Made
  OBVIOUS
<1>2. Tick /\ playback' = Offer(playback, x, PlaybackCap)
      /\ UNCHANGED <<spoken, captured, network, incoming, heard, newest>>
  BY <1>1 DEF PlayoutTick, Queued
<1>3. /\ x \in Sound /\ x.source \in {NoFrame, x.frame}
      /\ x.frame # NoFrame => x.frame = position /\ position' = position + 1
      /\ position' >= position /\ position' \in Nat
      /\ started' = started
      /\ ~started => position' = position
  BY <1>1, <1>2, TickMakes
<1>4. /\ position \in Nat /\ SlotCount \in Nat /\ PlaybackCap \in Nat
      /\ heard \in Int /\ newest \in Int /\ playback \in Seq(Sound)
  BY Sizes, PathAssumption DEF PathInv, IInv, TypeOK, PathTyped, NoFrame
<1>5. /\ heard < position /\ newest < position + SlotCount
      /\ ~started => position = 0
      /\ Rising(playback, heard, position)
      /\ \A i \in 1 .. Len(playback) : playback[i].source \in {NoFrame, playback[i].frame}
  BY DEF PathInv, PathOrdered
<1>6. playback' \in Seq(Sound) /\ playback' \in {playback, Append(playback, x)}
  BY <1>2, <1>3, <1>4, OfferElements
<1>7. x.frame # NoFrame => position <= x.frame /\ x.frame < position'
  BY <1>3, <1>4
<1>8. Rising(playback, heard, position') /\ Rising(Append(playback, x), heard, position')
  BY <1>3, <1>4, <1>5, <1>7, RisingAppend
<1>9. PathTyped'
  BY <1>2, <1>6 DEF PathInv, PathTyped
<1>10. \A i \in 1 .. Len(playback') : playback'[i].source \in {NoFrame, playback'[i].frame}
  <2>1. CASE playback' = playback
    BY <1>5, <2>1
  <2>2. CASE playback' = Append(playback, x)
    <3>1. /\ Len(playback) \in Nat /\ Len(playback') = Len(playback) + 1
          /\ \A i \in 1 .. Len(playback) : playback'[i] = playback[i]
          /\ playback'[Len(playback) + 1] = x
      BY <1>3, <1>4, <2>2
    <3> TAKE i \in 1 .. Len(playback')
    <3>2. CASE i = Len(playback) + 1
      BY <1>3, <3>1, <3>2
    <3>3. CASE i \in 1 .. Len(playback)
      BY <1>5, <3>1, <3>3
    <3> QED BY <3>1, <3>2, <3>3
  <2> QED BY <1>6, <2>1, <2>2
<1>11. Rising(playback', heard, position')
  BY <1>6, <1>8
<1>12. heard' < position' /\ newest' < position' + SlotCount /\ (~started' => position' = 0)
  BY <1>2, <1>3, <1>4, <1>5
<1>13. PathOrdered'
  BY <1>2, <1>10, <1>11, <1>12 DEF PathOrdered, Rising
<1> QED
  BY <1>9, <1>13 DEF PathInv

\* The speaker takes the head of the queue, which lies after all it had.
LEMMA PlayKeeps ==
  ASSUME PathInv, Play, IInv'
  PROVE  PathInv' /\ (heard' # heard => heard' > heard)
<1>1. PICK h : h = Head(playback).frame
  OBVIOUS
<1>2. /\ playback # <<>> /\ playback' = Tail(playback)
      /\ heard' = IF h = NoFrame THEN heard ELSE h
      /\ UNCHANGED vars
      /\ UNCHANGED <<spoken, captured, network, incoming, newest>>
  BY <1>1 DEF Play
<1>3. /\ position \in Nat /\ SlotCount \in Nat
      /\ heard \in Nat \cup {NoFrame} /\ playback \in Seq(Sound)
  BY Sizes DEF PathInv, IInv, TypeOK, PathTyped
<1>4. heard \in Int
  BY <1>3 DEF NoFrame
<1>5. /\ heard < position /\ newest < position + SlotCount
      /\ ~started => position = 0
      /\ Rising(playback, heard, position)
      /\ \A i \in 1 .. Len(playback) : playback[i].source \in {NoFrame, playback[i].frame}
  BY DEF PathInv, PathOrdered
<1>6. /\ h = NoFrame => Rising(Tail(playback), heard, position)
      /\ h # NoFrame => heard < h /\ h < position /\ Rising(Tail(playback), h, position)
  BY <1>1, <1>2, <1>3, <1>4, <1>5, RisingTail
<1>7. /\ Head(playback) \in Sound /\ Tail(playback) \in Seq(Sound)
      /\ Len(playback) \in Nat /\ Len(Tail(playback)) = Len(playback) - 1
      /\ \A i \in 1 .. Len(Tail(playback)) : Tail(playback)[i] = playback[i + 1]
  BY <1>2, <1>3, TailElements
<1>8. h \in Nat \cup {NoFrame}
  BY <1>1, <1>7 DEF Sound
<1>9. PathTyped'
  BY <1>2, <1>3, <1>7, <1>8 DEF PathInv, PathTyped
<1>10. \A i \in 1 .. Len(playback') : playback'[i].source \in {NoFrame, playback'[i].frame}
  <2> TAKE i \in 1 .. Len(playback')
  <2>1. i + 1 \in 1 .. Len(playback) /\ playback'[i] = playback[i + 1]
    BY <1>2, <1>7
  <2> QED BY <1>5, <2>1
<1>11. Rising(playback', heard', position) /\ heard' < position
       /\ (heard' # heard => heard' > heard)
  BY <1>2, <1>4, <1>5, <1>6, <1>8 DEF NoFrame
<1>12. position' = position /\ started' = started
  BY <1>2 DEF vars
<1>13. PathOrdered'
  BY <1>2, <1>5, <1>10, <1>11, <1>12 DEF PathOrdered, Rising
<1> QED
  BY <1>9, <1>11, <1>13 DEF PathInv

\* Recording, sending and the network touch only the channels before the
\* jitter buffer.
LEMMA SendingKeeps ==
  ASSUME PathInv, IInv',
         Record \/ SendAudio \/ \E n \in network : Lose(n) \/ Deliver(n)
  PROVE  PathInv' /\ heard' = heard
<1>1. /\ spoken \in Nat /\ captured \in Seq(Frames) /\ incoming \in Seq(Frames)
      /\ network \subseteq Frames /\ CapturedCap \in Nat /\ IncomingCap \in Nat
  BY PathAssumption DEF PathInv, PathTyped
<1>2. UNCHANGED <<vars, playback, heard, newest>>
  BY DEF Record, SendAudio, Lose, Deliver
<1>3. /\ spoken' \in Nat /\ captured' \in Seq(Frames) /\ incoming' \in Seq(Frames)
      /\ network' \subseteq Frames
  <2>1. CASE Record
    <3>1. Offer(captured, spoken, CapturedCap) \in Seq(Frames)
      BY <1>1, <2>1, OfferElements DEF Record
    <3> QED BY <1>1, <2>1, <3>1 DEF Record
  <2>2. CASE SendAudio
    <3>1. Head(captured) \in Frames /\ Tail(captured) \in Seq(Frames)
      BY <1>1, <2>2, TailElements DEF SendAudio
    <3> QED BY <1>1, <2>2, <3>1 DEF SendAudio
  <2>3. ASSUME NEW n \in network, Lose(n)
        PROVE  /\ spoken' \in Nat /\ captured' \in Seq(Frames)
               /\ incoming' \in Seq(Frames) /\ network' \subseteq Frames
    BY <1>1, <2>3 DEF Lose
  <2>4. ASSUME NEW n \in network, Deliver(n)
        PROVE  /\ spoken' \in Nat /\ captured' \in Seq(Frames)
               /\ incoming' \in Seq(Frames) /\ network' \subseteq Frames
    <3>1. Offer(incoming, n, IncomingCap) \in Seq(Frames)
      BY <1>1, <2>4, OfferElements
    <3> QED BY <1>1, <2>4, <3>1 DEF Deliver
  <2> QED BY <2>1, <2>2, <2>3, <2>4
<1>4. PathTyped'
  BY <1>2, <1>3 DEF PathInv, PathTyped
<1>5. PathOrdered'
  BY <1>2 DEF PathInv, PathOrdered, Rising, vars
<1> QED
  BY <1>2, <1>4, <1>5 DEF PathInv

\* Every step preserves the invariant, and what is heard next has a higher
\* number.
LEMMA PathStep ==
  ASSUME PathInv, [VoiceNext]_voiceVars
  PROVE  PathInv' /\ (heard' # heard => heard' > heard)
<1>1. IInv'
  BY PathStepIsPlayout, StepInvariant DEF PathInv
<1>2. CASE TakeMessage
  BY <1>1, <1>2, TakeMessageKeeps DEF TakeMessage
<1>3. CASE PlayoutTick
  BY <1>1, <1>3, PlayoutTickKeeps DEF PlayoutTick
<1>4. CASE Play
  BY <1>1, <1>4, PlayKeeps
<1>5. CASE Record \/ SendAudio \/ \E n \in network : Lose(n) \/ Deliver(n)
  BY <1>1, <1>5, SendingKeeps
<1>6. CASE UNCHANGED voiceVars
  <2>1. UNCHANGED vars /\ UNCHANGED pathVars
    BY <1>6 DEF voiceVars
  <2>2. PathTyped' /\ PathOrdered'
    BY <2>1 DEF PathInv, PathTyped, PathOrdered, Rising, vars, pathVars
  <2> QED BY <1>1, <2>1, <2>2 DEF PathInv, pathVars
<1> QED
  BY <1>2, <1>3, <1>4, <1>5, <1>6 DEF VoiceNext

\* The path's invariant holds in every reachable state, for channels of any
\* capacity (audio.go, call.go, network.go).
THEOREM PathHolds == VoiceSpec => []PathInv
<1>1. PathInv /\ [VoiceNext]_voiceVars => PathInv'
  BY PathStep
<1> QED
  BY <1>1, PathInit, PTL DEF VoiceSpec

\* Inside the running program the jitter buffer sees only what JitterPlayout
\* allows, so all that is proved of Spec holds there (call.go, the playout
\* worker).
THEOREM PathImplementsPlayout == VoiceSpec => Spec
<1>1. VoiceInit => Init
  BY DEF VoiceInit
<1> QED
  BY <1>1, PathHolds, PathStepIsPlayout, PTL DEF VoiceSpec, Spec

\* What the speaker has are frames of rising numbers, each decoded from its
\* own packet or concealed, less than a window behind what has arrived
\* (protocol.go, "Bound latency after a pause or sender queue overflow").
THEOREM VoiceInOrderHolds == VoiceSpec => VoiceInOrder
<1> DEFINE A == /\ heard' # heard => heard' > heard
                /\ \A i \in 1 .. Len(playback') :
                     LET f == playback'[i]
                     IN  f.source \in {NoFrame, f.frame}
                /\ started' => newest' - position' < SlotCount
<1>1. PathInv /\ [VoiceNext]_voiceVars => [A]_voiceVars
  <2> SUFFICES ASSUME PathInv, [VoiceNext]_voiceVars PROVE A
    OBVIOUS
  <2>1. PathInv' /\ (heard' # heard => heard' > heard)
    BY PathStep
  <2>2. \A i \in 1 .. Len(playback') : playback'[i].source \in {NoFrame, playback'[i].frame}
    BY <2>1 DEF PathInv, PathOrdered
  <2>3. newest' < position' + SlotCount /\ newest' \in Nat \cup {NoFrame}
    BY <2>1 DEF PathInv, PathTyped, PathOrdered
  <2>4. newest' \in Int
    BY <2>3 DEF NoFrame
  <2>5. position' \in Int /\ SlotCount \in Int /\ position' <= position'
    BY <2>1, Sizes DEF PathInv, IInv, TypeOK
  <2>6. newest' - position' < SlotCount
    BY <2>3, <2>4, <2>5, CursorDistance, Zenon
  <2> QED BY <2>1, <2>2, <2>6
<1> HIDE DEF A
<1>2. VoiceSpec => [][A]_voiceVars
  BY <1>1, PathHolds, PTL DEF VoiceSpec
<1> QED
  BY <1>2 DEF VoiceInOrder, A
=============================================================================
