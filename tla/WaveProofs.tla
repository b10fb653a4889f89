----------------------------- MODULE WaveProofs -----------------------------
(***************************************************************************)
(* Proofs about the WinMM backend for any number of buffers: the ring      *)
(* indices follow the driver's order, the driver holds memory that may     *)
(* move only if it refuses to give it back, and every end closes what was  *)
(* opened.                                                                 *)
(***************************************************************************)
EXTENDS WaveLoop, SequenceTheorems, TLAPS

-----------------------------------------------------------------------------
(* One device.                                                             *)

DeviceType ==
  [handle : {"none", "open", "closed"}, pinned : SUBSET Buffers,
   prepared : SUBSET Buffers, next : Buffers, queue : Seq(Buffers), done : Seq(Buffers),
   runs : BOOLEAN, due : BOOLEAN, refused : SUBSET {"Reset", "Unprepare", "Close"}]

\* What the program and the driver still have to do: done, then working on.
All(r) == r.done \o r.queue

\* The first n places of the ring, from the index at next on.
InTurn(next, n, bufs) ==
  Len(bufs) = n /\ \A k \in 1 .. n : bufs[k] = (next + k - 1) % BufferCount

\* A device of which n buffers were submitted: they stand in the order of
\* the ring, from next on, and their memory is pinned.
Held(r, n) ==
  /\ r.handle = "open"
  /\ 0 .. (n - 1) \subseteq r.pinned
  /\ InTurn(r.next, n, All(r))

\* A device not opened yet.
New(r) == r.handle = "none" /\ r.next = 0

\* The driver works in pinned memory, and only for an open device, except for
\* what it refused when the device was given up.
Sound(r) ==
  /\ r.handle # "closed" =>
       /\ \A k \in 1 .. Len(r.queue) : r.queue[k] \in r.pinned
       /\ r.prepared \subseteq r.pinned
  /\ r.handle = "none" => r.queue = <<>> /\ r.done = <<>> /\ ~r.due
  /\ r.handle # "open" => r.pinned = {}
  /\ r.handle = "closed" =>
       /\ r.queue # <<>> => "Reset" \in r.refused
       /\ r.queue # <<>> \/ r.due => "Close" \in r.refused
       /\ r.prepared # {} => "Unprepare" \in r.refused

-----------------------------------------------------------------------------
(* The inductive invariant.                                                *)

Stages == {"events", "open", "prepare", "submit", "start"}
Turns  == {"wait", "drain", "resubmit"}
Ends   == {"closing", "release", "over"}

TypeOK ==
  /\ loop \in [at : Stages \cup Turns \cup Ends, device : Devices, i : Nat,
               toClose : {<<>>, <<"in">>, <<"out">>, <<"out", "in">>}]
  /\ dev \in [Devices -> DeviceType]
  /\ signalled \subseteq Devices \cup {"stop"}
  /\ caller \in {"starting", "refused", "running", "stopping", "stopped"}
  /\ events \in {"none", "open", "closed"}
  /\ reported \in BOOLEAN

DevicesInv ==
  \A d \in Devices : Sound(dev[d]) /\ (dev[d].handle = "open" => events = "open")

\* startAudio: the output is untouched while the input is opened, the input
\* complete while the output is.
OpeningInv == loop.at \in Stages =>
  /\ caller = "starting"
  /\ loop.device = "in" => New(dev["out"])
  /\ loop.device = "out" => Held(dev["in"], BufferCount)
  /\ loop.at = "events" => loop.device = "in" /\ New(dev["in"])
  /\ loop.at = "open" => events = "open" /\ New(this)
  /\ loop.at \in {"prepare", "submit"} =>
       loop.i \in Buffers /\ this.next = 0 /\ Held(this, loop.i)
  /\ loop.at = "submit" => loop.i \in this.pinned
  /\ loop.at = "start" => loop.device = "in" /\ Held(this, BufferCount)

ServingInv == loop.at \in Turns =>
  /\ caller \in {"running", "stopping"}
  /\ \A d \in Devices : Held(dev[d], BufferCount)

\* Each open device is still to be closed, and the end has a reason.
EndingInv ==
  /\ loop.at \in Ends =>
       /\ \A d \in Devices :
            dev[d].handle = "open" <=> loop.at # "over" /\ d \in ToSet(loop.toClose)
       /\ caller = "running" => reported
  /\ loop.at = "release" =>
       loop.toClose # <<>> /\ (dev[Closing].queue = <<>> \/ "Reset" \in dev[Closing].refused)
  /\ loop.at = "over" => caller # "starting"
  /\ caller \in {"refused", "stopped"} => loop.at = "over" /\ events = "closed"
  /\ "stop" \in signalled => caller \in {"stopping", "stopped"}

IInv == TypeOK /\ DevicesInv /\ OpeningInv /\ ServingInv /\ EndingInv

-----------------------------------------------------------------------------
(* Steps of one device.                                                    *)

\* The ring's index, without the remainder.
LEMMA RingIndex ==
  ASSUME NEW n \in Nat, NEW j \in Nat, n < BufferCount, j <= BufferCount
  PROVE  (n + j) % BufferCount = IF n + j < BufferCount THEN n + j ELSE n + j - BufferCount
<1>1. BufferCount \in Nat \ {0}
  BY WaveAssumption
<1> QED BY <1>1

\* The place of a buffer when the ring has turned by one.
LEMMA RingTurn ==
  ASSUME NEW n \in Nat, NEW j \in 1 .. BufferCount, n < BufferCount
  PROVE  /\ Advance(n) \in Nat /\ Advance(n) < BufferCount
         /\ j < BufferCount =>
              (Advance(n) + j - 1) % BufferCount = (n + (j + 1) - 1) % BufferCount
         /\ (Advance(n) + BufferCount - 1) % BufferCount = n
<1>1. BufferCount \in Nat \ {0}
  BY WaveAssumption
<1>2. Advance(n) = IF n + 1 < BufferCount THEN n + 1 ELSE n + 1 - BufferCount
  BY <1>1, RingIndex DEF Advance
<1> PICK m \in Nat, i \in Nat, l \in Nat :
      m = Advance(n) /\ i = j - 1 /\ l = BufferCount - 1
  BY <1>1, <1>2
<1>3. m < BufferCount /\ (m = n + 1 \/ (m = 0 /\ n = BufferCount - 1))
  BY <1>1, <1>2
<1>a. i <= BufferCount /\ j \in Nat /\ j <= BufferCount /\ l <= BufferCount
  BY <1>1
<1>4. (m + i) % BufferCount = IF m + i < BufferCount THEN m + i ELSE m + i - BufferCount
  BY <1>3, <1>a, RingIndex, Zenon
<1>5. (n + j) % BufferCount = IF n + j < BufferCount THEN n + j ELSE n + j - BufferCount
  BY <1>a, RingIndex, Zenon
<1>6. (m + l) % BufferCount = IF m + l < BufferCount THEN m + l ELSE m + l - BufferCount
  BY <1>3, <1>a, RingIndex, Zenon
<1>7. m + j - 1 = m + i /\ n + (j + 1) - 1 = n + j /\ m + BufferCount - 1 = m + l
  BY <1>1
<1>8. ASSUME j < BufferCount PROVE (m + i) % BufferCount = (n + j) % BufferCount
  BY <1>1, <1>3, <1>4, <1>5, <1>8
<1>9. (m + l) % BufferCount = n
  BY <1>1, <1>3, <1>6
<1> QED BY <1>3, <1>7, <1>8, <1>9

\* A buffer submitted to a ring that is being filled.
LEMMA FillStep ==
  ASSUME NEW d \in Seq(Buffers), NEW q \in Seq(Buffers), NEW i \in Buffers,
         InTurn(0, i, d \o q)
  PROVE  Append(q, i) \in Seq(Buffers) /\ InTurn(0, i + 1, d \o Append(q, i))
<1>1. i \in Nat /\ i < BufferCount /\ BufferCount \in Nat \ {0}
  BY WaveAssumption DEF Buffers
<1> DEFINE old == d \o q
           new == d \o Append(q, i)
<1>2. /\ Append(q, i) \in Seq(Buffers)
      /\ Len(new) = Len(old) + 1 /\ new[Len(old) + 1] = i
      /\ \A k \in 1 .. Len(old) : new[k] = old[k]
  OBVIOUS
<1>3. Len(old) = i /\ \A k \in 1 .. i : old[k] = (0 + k - 1) % BufferCount
  BY DEF InTurn
<1> HIDE DEF old, new
<1>4. (0 + (i + 1) - 1) % BufferCount = i
  <2>1. 0 \in Nat /\ 0 < BufferCount /\ i <= BufferCount /\ 0 + (i + 1) - 1 = 0 + i
    BY <1>1
  <2>2. (0 + i) % BufferCount = IF 0 + i < BufferCount THEN 0 + i ELSE 0 + i - BufferCount
    BY <1>1, <2>1, RingIndex, Zenon
  <2> QED BY <1>1, <2>1, <2>2
<1>5. ASSUME NEW k \in 1 .. (i + 1)
      PROVE  new[k] = (0 + k - 1) % BufferCount
  <2>1. k \in 1 .. i \/ k = i + 1
    BY <1>1
  <2> QED BY <2>1, <1>2, <1>3, <1>4
<1>6. Len(new) = i + 1
  BY <1>2, <1>3
<1> QED BY <1>2, <1>5, <1>6 DEF InTurn, new

\* The buffer at next is the oldest one with its flag set, wherever in the
\* list it is looked for.
LEMMA NextIsOldest ==
  ASSUME NEW d \in Seq(Buffers), NEW q \in Seq(Buffers), NEW n \in Buffers,
         InTurn(n, BufferCount, d \o q), NEW k \in DOMAIN d, d[k] = n
  PROVE  k = 1
<1>1. BufferCount \in Nat \ {0} /\ n \in Nat /\ n < BufferCount
  BY WaveAssumption DEF Buffers
<1>2. /\ Len(d \o q) = BufferCount
      /\ \A j \in 1 .. BufferCount : (d \o q)[j] = (n + j - 1) % BufferCount
  BY DEF InTurn
<1>3. /\ k \in 1 .. Len(d) /\ Len(d) \in Nat /\ d[k] = n
      /\ (d \o q)[k] = d[k] /\ Len(d) <= Len(d \o q)
  OBVIOUS
<1>a. k \in 1 .. BufferCount
  <2> PICK l \in Nat : l = Len(d)
    BY <1>3
  <2> QED BY <1>1, <1>2, <1>3
<1> PICK j \in Nat : j = k - 1
  BY <1>a
<1>4. j < BufferCount /\ j <= BufferCount /\ k = j + 1 /\ n + k - 1 = n + j
  BY <1>1, <1>a
<1>5. n = (n + j) % BufferCount
  BY <1>2, <1>3, <1>4, <1>a
<1>6. (n + j) % BufferCount = IF n + j < BufferCount THEN n + j ELSE n + j - BufferCount
  BY <1>1, <1>4, RingIndex, Zenon
<1>7. n = n + j \/ n = n + j - BufferCount
  BY <1>5, <1>6, Zenon
<1> QED
  BY <1>1, <1>4, <1>7

\* It goes from the head of the flagged ones to the end of the driver's, and
\* the ring turns by one.
LEMMA TurnStep ==
  ASSUME NEW d \in Seq(Buffers), NEW q \in Seq(Buffers), NEW n \in Buffers,
         InTurn(n, BufferCount, d \o q), NEW k \in DOMAIN d, d[k] = n
  PROVE  /\ RemoveAt(d, k) \in Seq(Buffers) /\ Append(q, n) \in Seq(Buffers)
         /\ Advance(n) \in Buffers
         /\ InTurn(Advance(n), BufferCount, RemoveAt(d, k) \o Append(q, n))
<1>1. BufferCount \in Nat \ {0} /\ n \in Nat /\ n < BufferCount /\ 1 \in 1 .. BufferCount
  BY WaveAssumption DEF Buffers
<1>2. k = 1 /\ d # <<>>
  BY NextIsOldest
<1>3. RemoveAt(d, k) = Tail(d)
  <2>1. SubSeq(d, 1, 0) = <<>> /\ SubSeq(d, 2, Len(d)) = Tail(d) /\ Tail(d) \in Seq(Buffers)
    BY <1>2
  <2>2. RemoveAt(d, k) = SubSeq(d, 1, 0) \o SubSeq(d, 2, Len(d))
    BY <1>2 DEF RemoveAt
  <2> QED BY <2>1, <2>2
<1> DEFINE old == d \o q
           new == Tail(d) \o Append(q, n)
<1>4. /\ Tail(d) \in Seq(Buffers) /\ Append(q, n) \in Seq(Buffers)
      /\ Len(Tail(d)) = Len(d) - 1 /\ Len(Append(q, n)) = Len(q) + 1
      /\ \A j \in 1 .. Len(Tail(d)) : Tail(d)[j] = d[j + 1]
  BY <1>2
<1>5. /\ Len(new) = Len(old) /\ new[Len(old)] = n
      /\ \A j \in 1 .. (Len(old) - 1) : new[j] = old[j + 1]
  BY <1>4
<1>6. /\ Len(old) = BufferCount
      /\ \A j \in 1 .. BufferCount : old[j] = (n + j - 1) % BufferCount
  BY DEF InTurn
<1> HIDE DEF old, new
<1>7. ASSUME NEW j \in 1 .. BufferCount
      PROVE  new[j] = (Advance(n) + j - 1) % BufferCount
  <2>1. CASE j < BufferCount
    <3>1. j + 1 \in 1 .. BufferCount /\ j \in 1 .. (Len(old) - 1)
      BY <1>1, <1>6, <2>1
    <3>2. new[j] = (n + (j + 1) - 1) % BufferCount
      BY <1>5, <1>6, <3>1
    <3>3. (Advance(n) + j - 1) % BufferCount = (n + (j + 1) - 1) % BufferCount
      BY <1>1, <2>1, RingTurn, Zenon
    <3> QED BY <3>2, <3>3
  <2>2. CASE j = BufferCount
    <3>1. (Advance(n) + BufferCount - 1) % BufferCount = n
      BY <1>1, RingTurn, Zenon
    <3> QED BY <1>5, <1>6, <2>2, <3>1
  <2> QED BY <1>1, <2>1, <2>2
<1>8. Advance(n) \in Buffers
  <2>1. Advance(n) \in Nat /\ Advance(n) < BufferCount
    BY <1>1, RingTurn, Zenon
  <2> QED BY <1>1, <2>1 DEF Buffers
<1>9. InTurn(Advance(n), BufferCount, new)
  BY <1>5, <1>6, <1>7 DEF InTurn
<1> QED BY <1>3, <1>4, <1>8, <1>9 DEF new

\* Moving the head of one sequence to the end of the other keeps their order.
LEMMA MoveHead ==
  ASSUME NEW s \in Seq(Buffers), NEW t \in Seq(Buffers), t # <<>>
  PROVE  /\ Tail(t) \in Seq(Buffers) /\ Head(t) \in Buffers /\ Append(s, Head(t)) \in Seq(Buffers)
         /\ Append(s, Head(t)) \o Tail(t) = s \o t
         /\ \A k \in 1 .. Len(Tail(t)) : Tail(t)[k] = t[k + 1]
         /\ Len(Tail(t)) = Len(t) - 1
<1>1. /\ Tail(t) \in Seq(Buffers) /\ Head(t) \in Buffers /\ Append(s, Head(t)) \in Seq(Buffers)
      /\ Len(Tail(t)) = Len(t) - 1
      /\ \A k \in 1 .. Len(Tail(t)) : Tail(t)[k] = t[k + 1]
  OBVIOUS
<1>2. Len(Append(s, Head(t)) \o Tail(t)) = Len(s \o t)
  BY <1>1
<1>3. ASSUME NEW k \in 1 .. Len(s \o t)
      PROVE  (Append(s, Head(t)) \o Tail(t))[k] = (s \o t)[k]
  BY <1>1
<1>4. Append(s, Head(t)) \o Tail(t) \in Seq(Buffers) /\ s \o t \in Seq(Buffers)
  BY <1>1
<1> QED BY <1>1, <1>2, <1>3, <1>4

\* A completed buffer changes sides, not places.
LEMMA CompleteEffect ==
  ASSUME NEW r \in DeviceType, Sound(r), r.queue # <<>>, NEW s,
         s = [r EXCEPT !.queue = Tail(@), !.due = TRUE, !.done = Append(@, Head(r.queue))]
  PROVE  /\ s \in DeviceType /\ Sound(s) /\ All(s) = All(r)
         /\ s.handle = r.handle /\ s.next = r.next /\ s.pinned = r.pinned
         /\ s.refused = r.refused
<1>1. r.queue \in Seq(Buffers) /\ r.done \in Seq(Buffers)
  BY DEF DeviceType
<1>2. /\ Tail(r.queue) \in Seq(Buffers) /\ Append(r.done, Head(r.queue)) \in Seq(Buffers)
      /\ Append(r.done, Head(r.queue)) \o Tail(r.queue) = r.done \o r.queue
      /\ \A k \in 1 .. Len(Tail(r.queue)) : Tail(r.queue)[k] = r.queue[k + 1]
      /\ Len(Tail(r.queue)) = Len(r.queue) - 1
  BY <1>1, MoveHead
<1>3. s \in DeviceType
  BY <1>2 DEF DeviceType
<1>4. /\ s.queue = Tail(r.queue) /\ s.done = Append(r.done, Head(r.queue))
      /\ s.handle = r.handle /\ s.next = r.next /\ s.pinned = r.pinned /\ s.due = TRUE
      /\ s.prepared = r.prepared /\ s.refused = r.refused
  BY DEF DeviceType
<1>5. Sound(s)
  <2>1. r.handle # "none"
    BY DEF Sound
  <2>2. ASSUME r.handle # "closed", NEW k \in 1 .. Len(s.queue)
        PROVE  s.queue[k] \in s.pinned
    <3>1. k + 1 \in 1 .. Len(r.queue) /\ s.queue[k] = r.queue[k + 1]
      BY <1>1, <1>2, <1>4
    <3> QED BY <1>4, <2>2, <3>1 DEF Sound
  <2> QED BY <1>4, <2>1, <2>2 DEF Sound
<1> QED BY <1>2, <1>3, <1>4, <1>5 DEF All

\* The next buffer of a ring being filled is submitted.
LEMMA SubmitEffect ==
  ASSUME NEW r \in DeviceType, Sound(r), NEW i \in Buffers, Held(r, i), r.next = 0,
         i \in r.pinned, NEW s, s = [r EXCEPT !.queue = Append(@, i)]
  PROVE  s \in DeviceType /\ Sound(s) /\ Held(s, i + 1) /\ s.next = 0
<1>1. r.queue \in Seq(Buffers) /\ r.done \in Seq(Buffers) /\ i \in Nat
  BY WaveAssumption DEF DeviceType, Buffers
<1>2. Append(r.queue, i) \in Seq(Buffers) /\ InTurn(0, i + 1, r.done \o Append(r.queue, i))
  BY <1>1, FillStep DEF Held, All
<1>3. s \in DeviceType
  BY <1>2 DEF DeviceType
<1>4. /\ s.queue = Append(r.queue, i) /\ s.done = r.done /\ s.prepared = r.prepared
      /\ s.handle = r.handle /\ s.next = r.next /\ s.pinned = r.pinned
  BY DEF DeviceType
<1>5. Sound(s)
  <2>1. ASSUME NEW j \in 1 .. Len(Append(r.queue, i))
        PROVE  Append(r.queue, i)[j] \in r.pinned
    BY <1>1 DEF Sound, Held
  <2> QED BY <1>4, <2>1 DEF Sound, Held
<1>6. s.handle = "open" /\ 0 .. ((i + 1) - 1) \subseteq s.pinned
  BY <1>1, <1>4 DEF Held
<1> QED BY <1>2, <1>3, <1>4, <1>5, <1>6 DEF Held, All

\* A buffer that was handled goes back.
LEMMA ResubmitEffect ==
  ASSUME NEW r \in DeviceType, Sound(r), Held(r, BufferCount),
         NEW k \in DOMAIN r.done, r.done[k] = r.next, NEW s,
         s = [r EXCEPT !.done = RemoveAt(@, k), !.queue = Append(@, r.next),
                       !.next = Advance(r.next)]
  PROVE  s \in DeviceType /\ Sound(s) /\ Held(s, BufferCount)
<1>1. r.queue \in Seq(Buffers) /\ r.done \in Seq(Buffers) /\ r.next \in Buffers
  BY DEF DeviceType
<1>2. /\ RemoveAt(r.done, k) \in Seq(Buffers) /\ Append(r.queue, r.next) \in Seq(Buffers)
      /\ Advance(r.next) \in Buffers
      /\ InTurn(Advance(r.next), BufferCount, RemoveAt(r.done, k) \o Append(r.queue, r.next))
  BY <1>1, TurnStep DEF Held, All
<1>3. s \in DeviceType
  BY <1>2 DEF DeviceType
<1>4. /\ s.queue = Append(r.queue, r.next) /\ s.done = RemoveAt(r.done, k)
      /\ s.prepared = r.prepared
      /\ s.handle = r.handle /\ s.next = Advance(r.next) /\ s.pinned = r.pinned
  BY DEF DeviceType
<1>5. Sound(s)
  <2>1. r.next \in r.pinned /\ r.handle = "open"
    BY <1>1 DEF Held, Buffers
  <2>2. ASSUME NEW j \in 1 .. Len(Append(r.queue, r.next))
        PROVE  Append(r.queue, r.next)[j] \in r.pinned
    BY <1>1, <2>1 DEF Sound
  <2> QED BY <1>4, <2>1, <2>2 DEF Sound
<1>6. s.handle = "open" /\ 0 .. (BufferCount - 1) \subseteq s.pinned
  BY <1>4 DEF Held
<1> QED BY <1>2, <1>3, <1>4, <1>5, <1>6 DEF Held, All
\* What is still to be closed, as a set.
LEMMA OrderSets ==
  /\ ToSet(<<>>) = {} /\ ToSet(<<"in">>) = {"in"} /\ ToSet(<<"out">>) = {"out"}
  /\ ToSet(<<"out", "in">>) = {"out", "in"}
BY DEF ToSet

\* The devices are closed one by one, each once.
LEMMA OrderTail ==
  ASSUME NEW o \in {<<>>, <<"in">>, <<"out">>, <<"out", "in">>}, o # <<>>
  PROVE  /\ Head(o) \in Devices /\ Head(o) \in ToSet(o)
         /\ Tail(o) \in {<<>>, <<"in">>, <<"out">>, <<"out", "in">>}
         /\ ToSet(Tail(o)) = ToSet(o) \ {Head(o)}
<1>1. Tail(<<"in">>) = <<>> /\ Tail(<<"out">>) = <<>> /\ Tail(<<"out", "in">>) = <<"in">>
  OBVIOUS
<1>2. Head(<<"in">>) = "in" /\ Head(<<"out">>) = "out" /\ Head(<<"out", "in">>) = "out"
  OBVIOUS
<1> QED BY <1>1, <1>2, OrderSets DEF Devices

-----------------------------------------------------------------------------
(* The steps of the whole backend.                                         *)

LEMMA InitInvariant == Init => IInv
<1> HAVE Init
<1>1. BufferCount \in Nat \ {0} /\ 0 \in Buffers /\ <<>> \in Seq(Buffers)
  BY WaveAssumption DEF Buffers
<1>2. \A d \in Devices : dev[d] = NewDevice(d) /\ NewDevice(d) \in DeviceType
  BY <1>1 DEF Init, NewDevice, DeviceType
<1>3. dev \in [Devices -> DeviceType]
  BY <1>2 DEF Init
<1>4. TypeOK
  BY <1>3 DEF Init, TypeOK, Stages, Turns, Ends, Devices
<1>5. ASSUME NEW d \in Devices
      PROVE  Sound(dev[d]) /\ New(dev[d]) /\ dev[d].handle # "open"
  <2>1. /\ dev[d].handle = "none" /\ dev[d].next = 0 /\ dev[d].pinned = {}
        /\ dev[d].queue = <<>> /\ dev[d].done = <<>> /\ dev[d].due = FALSE
        /\ dev[d].prepared = {}
    <3> PICK r : r = NewDevice(d)
      OBVIOUS
    <3>1. dev[d] = r
      BY <1>2
    <3>2. /\ r.handle = "none" /\ r.next = 0 /\ r.pinned = {}
          /\ r.queue = <<>> /\ r.done = <<>> /\ r.due = FALSE /\ r.prepared = {}
      BY DEF NewDevice
    <3> QED BY <3>1, <3>2
  <2>2. Len(<<>>) = 0
    OBVIOUS
  <2> QED BY <2>1, <2>2 DEF Sound, New
<1>6. DevicesInv /\ OpeningInv
  BY <1>5 DEF Init, DevicesInv, OpeningInv, Stages, Devices
<1>7. ServingInv /\ EndingInv
  BY DEF Init, ServingInv, EndingInv, Turns, Ends
<1> QED BY <1>4, <1>6, <1>7 DEF IInv

\* What the driver does to a device moves no buffer.
LEMMA DriverStep ==
  ASSUME IInv, NEW d \in Devices, NEW s \in DeviceType, Sound(s), All(s) = All(dev[d]),
         s.handle = dev[d].handle, s.next = dev[d].next, s.pinned = dev[d].pinned,
         dev[d].queue = <<>> => s.queue = <<>>, s.refused = dev[d].refused,
         dev' = [dev EXCEPT ![d] = s], signalled' \subseteq signalled \cup Devices,
         UNCHANGED <<loop, caller, events, reported>>
  PROVE  IInv'
<1>1. dev \in [Devices -> DeviceType]
  BY DEF IInv, TypeOK
<1>2. /\ dev' \in [Devices -> DeviceType] /\ dev'[d] = s
      /\ \A e \in Devices : e # d => dev'[e] = dev[e]
  BY <1>1
<1>3. \A e \in Devices : /\ dev'[e].handle = dev[e].handle /\ dev'[e].next = dev[e].next
                         /\ dev'[e].pinned = dev[e].pinned /\ All(dev'[e]) = All(dev[e])
  BY <1>2
<1>4. \A e \in Devices : /\ New(dev[e]) => New(dev'[e])
                         /\ \A n : Held(dev[e], n) => Held(dev'[e], n)
  BY <1>3 DEF New, Held
<1>5. TypeOK'
  BY <1>2 DEF IInv, TypeOK
<1>6. DevicesInv'
  BY <1>2, <1>3 DEF IInv, DevicesInv
<1>7. loop.device \in Devices /\ "in" \in Devices /\ "out" \in Devices
  BY DEF IInv, TypeOK, Devices
<1>8. OpeningInv'
  BY <1>3, <1>4, <1>7 DEF IInv, OpeningInv, this
<1>9. ServingInv'
  BY <1>4 DEF IInv, ServingInv
<1>10. ASSUME loop.at = "release"
       PROVE  dev'[Closing].queue = <<>> \/ "Reset" \in dev'[Closing].refused
  <2>1. /\ dev[Closing].queue = <<>> \/ "Reset" \in dev[Closing].refused
        /\ loop.toClose # <<>>
    BY <1>10 DEF IInv, EndingInv
  <2>2. Closing \in Devices
    BY <2>1, OrderTail DEF IInv, TypeOK, Closing
  <2> QED BY <1>2, <2>1, <2>2
<1>11. EndingInv'
  BY <1>3, <1>10 DEF IInv, EndingInv, Devices, Closing
<1> QED BY <1>5, <1>6, <1>8, <1>9, <1>11 DEF IInv

LEMMA CompleteStep ==
  ASSUME IInv, NEW d \in Devices, Complete(d)
  PROVE  IInv'
<1> PICK r \in DeviceType : r = dev[d]
  BY DEF IInv, TypeOK
<1> PICK s : s = [r EXCEPT !.queue = Tail(@), !.due = TRUE, !.done = Append(@, Head(r.queue))]
  OBVIOUS
<1>1. Sound(r) /\ r.queue # <<>>
  BY DEF IInv, DevicesInv, Complete
<1>2. /\ s \in DeviceType /\ Sound(s) /\ All(s) = All(r)
      /\ s.handle = r.handle /\ s.next = r.next /\ s.pinned = r.pinned
      /\ s.refused = r.refused
  BY <1>1, CompleteEffect
<1>3. dev' = [dev EXCEPT ![d] = s]
  BY DEF Complete, IInv, TypeOK
<1> QED BY <1>2, <1>3, DriverStep DEF Complete

LEMMA SignalStep ==
  ASSUME IInv, NEW d \in Devices, Signal(d)
  PROVE  IInv'
<1> PICK r \in DeviceType : r = dev[d]
  BY DEF IInv, TypeOK
<1> PICK s : s = [r EXCEPT !.due = FALSE]
  OBVIOUS
<1>1. s \in DeviceType
  BY DEF DeviceType
<1>2. /\ s.queue = r.queue /\ s.done = r.done /\ s.due = FALSE
      /\ s.handle = r.handle /\ s.next = r.next /\ s.pinned = r.pinned
      /\ s.prepared = r.prepared /\ s.refused = r.refused
  BY DEF DeviceType
<1>3. Sound(s) /\ All(s) = All(r)
  BY <1>2 DEF Sound, All, IInv, DevicesInv
<1>4. dev' = [dev EXCEPT ![d] = s]
  BY DEF Signal, IInv, TypeOK
<1> QED BY <1>1, <1>2, <1>3, <1>4, DriverStep DEF Signal
-----------------------------------------------------------------------------
(* Opening.                                                                *)

\* Two short sequences, one after the other.
LEMMA ShortSequences ==
  ASSUME NEW e, NEW f
  PROVE  /\ <<>> \o <<>> = <<>> /\ <<>> \o <<e>> = <<e>> /\ <<e>> \o <<>> = <<e>>
         /\ <<e>> \o <<f>> = <<e, f>>
<1>1. <<>> \in Seq({e}) /\ <<e>> \in Seq({e})
  OBVIOUS
<1>2. <<>> \o <<>> = <<>> /\ <<>> \o <<e>> = <<e>> /\ <<e>> \o <<>> = <<e>>
  BY <1>1, ConcatEmptySeq
<1> DEFINE s == <<e>> \o <<f>>
           t == <<e, f>>
<1>3. s \in Seq({e, f}) /\ Len(s) = 2 /\ s[1] = e /\ s[2] = f
  OBVIOUS
<1>4. t \in Seq({e, f}) /\ Len(t) = 2 /\ t[1] = e /\ t[2] = f
  OBVIOUS
<1> HIDE DEF s, t
<1>5. \A i \in 1 .. 2 : s[i] = t[i]
  BY <1>3, <1>4
<1>6. s = t
  BY <1>3, <1>4, <1>5, SeqEqual
<1> QED BY <1>2, <1>6 DEF s, t

\* What Undo closes: the devices opened so far, the last one first.
LEMMA UndoOrder ==
  ASSUME loop.device \in Devices
  PROVE  /\ Undo(TRUE) = IF loop.device = "in" THEN <<"in">> ELSE <<"out", "in">>
         /\ Undo(FALSE) = IF loop.device = "in" THEN <<>> ELSE <<"in">>
<1>1. ASSUME NEW e \in Devices
      PROVE  /\ <<>> \o <<e>> = <<e>> /\ <<e>> \o <<>> = <<e>>
             /\ <<>> \o <<>> = <<>>
             /\ <<"out">> \o <<e>> = <<"out", e>>
  BY ShortSequences
<1> QED BY <1>1 DEF Undo, Devices

\* Whatever goes wrong, the devices still open are the ones to be closed.
LEMMA CloseStep ==
  ASSUME IInv, loop.at \notin Ends,
         NEW devices \in {<<>>, <<"in">>, <<"out">>, <<"out", "in">>}, Close(devices),
         dev' \in [Devices -> DeviceType], DevicesInv',
         \A d \in Devices : dev'[d].handle = "open" <=> d \in ToSet(devices),
         caller = "running" => reported', reported' \in BOOLEAN,
         signalled' \subseteq signalled, UNCHANGED <<caller, events>>
  PROVE  IInv'
<1>1. /\ loop' \in [at : Stages \cup Turns \cup Ends, device : Devices, i : Nat,
                    toClose : {<<>>, <<"in">>, <<"out">>, <<"out", "in">>}]
      /\ loop'.at = "closing" /\ loop'.toClose = devices
  BY DEF Close, IInv, TypeOK, Ends
<1>2. TypeOK'
  BY <1>1 DEF IInv, TypeOK
<1>3. OpeningInv' /\ ServingInv'
  BY <1>1 DEF OpeningInv, ServingInv, Stages, Turns
<1>4. EndingInv'
  BY <1>1 DEF IInv, EndingInv, Ends
<1> QED BY <1>2, <1>3, <1>4 DEF IInv

\* The fields of loop when it goes on.
LEMMA GotoFacts ==
  ASSUME IInv, NEW l \in Stages \cup Turns \cup Ends, NEW d \in Devices, NEW n \in Nat,
         Goto(l, d, n)
  PROVE  /\ loop' \in [at : Stages \cup Turns \cup Ends, device : Devices, i : Nat,
                       toClose : {<<>>, <<"in">>, <<"out">>, <<"out", "in">>}]
         /\ loop'.at = l /\ loop'.device = d /\ loop'.i = n
BY DEF Goto, IInv, TypeOK

LEMMA CreateEventStep ==
  ASSUME IInv, CreateEvent
  PROVE  IInv'
<1>1. /\ loop.at = "events" /\ loop.at \in Stages /\ loop.at \notin Ends
      /\ UNCHANGED <<dev, signalled, caller, reported>>
  BY DEF CreateEvent, Stages, Ends
<1>2. /\ caller = "starting" /\ \A d \in Devices : New(dev[d])
  BY <1>1 DEF IInv, OpeningInv, Devices, this
<1>3. CASE /\ events' = "open"
           /\ IF loop.i < 2 THEN Goto("events", "in", loop.i + 1) ELSE Goto("open", "in", 0)
  <2> PICK l \in {"events", "open"}, n \in Nat : Goto(l, "in", n)
    <3> PICK i \in Nat : i = loop.i
      BY DEF IInv, TypeOK
    <3> PICK j \in Nat : j = i + 1
      OBVIOUS
    <3>1. Goto("events", "in", j) \/ Goto("open", "in", 0)
      BY <1>3
    <3> QED BY <3>1
  <2>1. l \in Stages /\ "in" \in Devices /\ "out" \in Devices
    BY DEF Stages, Devices
  <2>2. /\ loop' \in [at : Stages \cup Turns \cup Ends, device : Devices, i : Nat,
                      toClose : {<<>>, <<"in">>, <<"out">>, <<"out", "in">>}]
        /\ loop'.at = l /\ loop'.device = "in"
    BY <2>1, GotoFacts
  <2>3. TypeOK'
    BY <1>1, <1>3, <2>2 DEF IInv, TypeOK
  <2>4. DevicesInv'
    BY <1>1, <1>3 DEF IInv, DevicesInv
  <2>5. OpeningInv'
    BY <1>1, <1>2, <1>3, <2>1, <2>2 DEF OpeningInv, this
  <2>6. ServingInv' /\ EndingInv'
    BY <1>1, <1>2, <2>2 DEF IInv, ServingInv, EndingInv, Turns, Ends
  <2> QED BY <2>3, <2>4, <2>5, <2>6 DEF IInv
<1>4. CASE Close(<<>>) /\ UNCHANGED events
  <2>1. DevicesInv' /\ dev' \in [Devices -> DeviceType] /\ reported' \in BOOLEAN
    BY <1>1, <1>4 DEF IInv, DevicesInv, TypeOK
  <2>2. \A d \in Devices : dev'[d].handle = "open" <=> d \in ToSet(<<>>)
    BY <1>1, <1>2, OrderSets DEF New
  <2> QED BY <1>1, <1>2, <1>4, <2>1, <2>2, CloseStep
<1> QED BY <1>3, <1>4 DEF CreateEvent

LEMMA OpenHandleStep ==
  ASSUME IInv, OpenHandle
  PROVE  IInv'
<1> PICK d \in Devices : d = loop.device
  BY DEF IInv, TypeOK
<1>1. /\ loop.at = "open" /\ loop.at \in Stages /\ loop.at \notin Ends
      /\ UNCHANGED <<signalled, caller, events, reported>>
  BY DEF OpenHandle, Stages, Ends
<1>2. /\ caller = "starting" /\ events = "open" /\ New(dev[d])
      /\ d = "in" => New(dev["out"])
      /\ d = "out" => Held(dev["in"], BufferCount)
  BY <1>1 DEF IInv, OpeningInv, this
<1>3. CASE /\ dev' = [dev EXCEPT ![loop.device].handle = "open", ![loop.device].due = TRUE]
           /\ Goto("prepare", loop.device, 0)
  <2> PICK r \in DeviceType : r = dev[d]
    BY DEF IInv, TypeOK
  <2> PICK s : s = [r EXCEPT !.handle = "open", !.due = TRUE]
    OBVIOUS
  <2>1. /\ s \in DeviceType
        /\ s.queue = r.queue /\ s.done = r.done /\ s.next = 0 /\ s.handle = "open"
        /\ s.queue = <<>> /\ s.done = <<>> /\ s.prepared \subseteq s.pinned
    BY <1>2 DEF DeviceType, New, IInv, DevicesInv, Sound
  <2>2. dev \in [Devices -> DeviceType] /\ dev' = [dev EXCEPT ![d] = s]
    BY <1>3 DEF IInv, TypeOK
  <2>3. /\ dev' \in [Devices -> DeviceType] /\ dev'[d] = s
        /\ \A e \in Devices : e # d => dev'[e] = dev[e]
    BY <2>1, <2>2
  <2>4. Len(<<>>) = 0 /\ <<>> \o <<>> = <<>> /\ BufferCount \in Nat \ {0} /\ 0 \in Buffers
    BY WaveAssumption DEF Buffers
  <2>5. Sound(s) /\ Held(s, 0)
    <3>1. Sound(s)
      BY <2>1, <2>4 DEF Sound
    <3>2. All(s) = <<>>
      BY <2>1, <2>4 DEF All
    <3>3. 0 .. (0 - 1) \subseteq s.pinned /\ InTurn(0, 0, <<>>)
      BY <2>4 DEF InTurn
    <3> QED BY <2>1, <3>1, <3>2, <3>3 DEF Held
  <2>6. "prepare" \in Stages /\ "in" \in Devices /\ "out" \in Devices /\ 0 \in Nat
    BY DEF Stages, Devices
  <2>7. /\ loop' \in [at : Stages \cup Turns \cup Ends, device : Devices, i : Nat,
                      toClose : {<<>>, <<"in">>, <<"out">>, <<"out", "in">>}]
        /\ loop'.at = "prepare" /\ loop'.device = d /\ loop'.i = 0
    BY <1>3, <2>6, GotoFacts
  <2>8. TypeOK'
    BY <1>1, <2>3, <2>7 DEF IInv, TypeOK
  <2>9. DevicesInv'
    BY <1>1, <1>2, <2>3, <2>5 DEF IInv, DevicesInv
  <2>10. OpeningInv'
    BY <1>1, <1>2, <2>1, <2>3, <2>4, <2>5, <2>6, <2>7 DEF OpeningInv, this
  <2>11. ServingInv' /\ EndingInv'
    BY <1>1, <1>2, <2>7 DEF IInv, ServingInv, EndingInv, Turns, Ends
  <2> QED BY <2>8, <2>9, <2>10, <2>11 DEF IInv
<1>4. CASE Close(Undo(FALSE)) /\ UNCHANGED dev
  <2>1. DevicesInv' /\ dev' \in [Devices -> DeviceType] /\ reported' \in BOOLEAN
    BY <1>1, <1>4 DEF IInv, DevicesInv, TypeOK
  <2> PICK u : u = Undo(FALSE)
    OBVIOUS
  <2>2. u \in {<<>>, <<"in">>, <<"out">>, <<"out", "in">>}
    BY UndoOrder
  <2>3. \A e \in Devices : dev'[e].handle = "open" <=> e \in ToSet(u)
    BY <1>2, <1>4, UndoOrder, OrderSets DEF New, Held, Devices
  <2> QED BY <1>1, <1>2, <1>4, <2>1, <2>2, <2>3, CloseStep
<1> QED BY <1>3, <1>4 DEF OpenHandle

LEMMA PrepareStep ==
  ASSUME IInv, Prepare
  PROVE  IInv'
<1> PICK d \in Devices, i \in Nat : d = loop.device /\ i = loop.i
  BY DEF IInv, TypeOK
<1> PICK r \in DeviceType : r = dev[d]
  BY DEF IInv, TypeOK
<1>1. /\ loop.at = "prepare" /\ loop.at \in Stages /\ loop.at \notin Ends
      /\ UNCHANGED <<signalled, caller, events, reported>>
  BY DEF Prepare, Stages, Ends
<1>2. /\ caller = "starting" /\ i \in Buffers /\ r.next = 0 /\ Held(r, i)
      /\ d = "in" => New(dev["out"])
      /\ d = "out" => Held(dev["in"], BufferCount)
  BY <1>1 DEF IInv, OpeningInv, this
<1>3. dev \in [Devices -> DeviceType]
  BY DEF IInv, TypeOK
<1>4. PICK s \in DeviceType :
        /\ s.pinned = r.pinned \cup {i} /\ s.prepared \subseteq r.prepared \cup {i}
        /\ s.queue = r.queue /\ s.done = r.done /\ s.next = 0 /\ s.handle = r.handle
        /\ dev' = [dev EXCEPT ![d] = s]
        /\ Goto("submit", d, i) \/ Close(Undo(TRUE))
  <2>1. CASE /\ dev' = [dev EXCEPT ![d].pinned = @ \cup {i}, ![d].prepared = @ \cup {i}]
             /\ Goto("submit", d, i)
    <3> PICK s : s = [r EXCEPT !.pinned = @ \cup {i}, !.prepared = @ \cup {i}]
      OBVIOUS
    <3>1. /\ s \in DeviceType /\ s.pinned = r.pinned \cup {i}
          /\ s.prepared = r.prepared \cup {i}
          /\ s.queue = r.queue /\ s.done = r.done /\ s.next = 0 /\ s.handle = r.handle
      BY <1>2 DEF DeviceType
    <3>2. dev' = [dev EXCEPT ![d] = s]
      BY <1>3, <2>1
    <3> QED BY <2>1, <3>1, <3>2
  <2>2. CASE dev' = [dev EXCEPT ![d].pinned = @ \cup {i}] /\ Close(Undo(TRUE))
    <3> PICK s : s = [r EXCEPT !.pinned = @ \cup {i}]
      OBVIOUS
    <3>1. /\ s \in DeviceType /\ s.pinned = r.pinned \cup {i} /\ s.prepared = r.prepared
          /\ s.queue = r.queue /\ s.done = r.done /\ s.next = 0 /\ s.handle = r.handle
      BY <1>2 DEF DeviceType
    <3>2. dev' = [dev EXCEPT ![d] = s]
      BY <1>3, <2>2
    <3> QED BY <2>2, <3>1, <3>2
  <2> QED BY <2>1, <2>2 DEF Prepare
<1>5. Sound(s) /\ Held(s, i) /\ s.handle = "open" /\ events = "open"
  BY <1>2, <1>4 DEF Sound, Held, All, IInv, DevicesInv
<1>7. /\ dev' \in [Devices -> DeviceType] /\ dev'[d] = s
      /\ \A e \in Devices : e # d => dev'[e] = dev[e]
  BY <1>3, <1>4
<1>8. DevicesInv'
  BY <1>1, <1>5, <1>7 DEF IInv, DevicesInv
<1>9. CASE Goto("submit", d, i)
  <2>1. "submit" \in Stages /\ "in" \in Devices /\ "out" \in Devices
    BY DEF Stages, Devices
  <2>2. /\ loop' \in [at : Stages \cup Turns \cup Ends, device : Devices, i : Nat,
                      toClose : {<<>>, <<"in">>, <<"out">>, <<"out", "in">>}]
        /\ loop'.at = "submit" /\ loop'.device = d /\ loop'.i = i
    BY <1>9, <2>1, GotoFacts
  <2>3. TypeOK'
    BY <1>1, <1>7, <2>2 DEF IInv, TypeOK
  <2>4. OpeningInv'
    BY <1>1, <1>2, <1>4, <1>5, <1>7, <2>1, <2>2 DEF OpeningInv, this
  <2>5. ServingInv' /\ EndingInv'
    BY <1>1, <1>2, <2>2 DEF IInv, ServingInv, EndingInv, Turns, Ends
  <2> QED BY <1>8, <2>3, <2>4, <2>5 DEF IInv
<1>10. CASE Close(Undo(TRUE))
  <2> PICK u : u = Undo(TRUE)
    OBVIOUS
  <2>1. u \in {<<>>, <<"in">>, <<"out">>, <<"out", "in">>} /\ reported' \in BOOLEAN
    BY <1>1, UndoOrder DEF IInv, TypeOK
  <2>2. \A e \in Devices : dev'[e].handle = "open" <=> e \in ToSet(u)
    BY <1>2, <1>5, <1>7, UndoOrder, OrderSets DEF New, Held, Devices
  <2> QED BY <1>1, <1>2, <1>7, <1>8, <1>10, <2>1, <2>2, CloseStep
<1> QED BY <1>4, <1>9, <1>10

LEMMA SubmitStep ==
  ASSUME IInv, Submit
  PROVE  IInv'
<1> PICK d \in Devices, i \in Nat : d = loop.device /\ i = loop.i
  BY DEF IInv, TypeOK
<1> PICK r \in DeviceType : r = dev[d]
  BY DEF IInv, TypeOK
<1>1. /\ loop.at = "submit" /\ loop.at \in Stages /\ loop.at \notin Ends
      /\ UNCHANGED <<signalled, events, reported>>
  BY DEF Submit, Stages, Ends
<1>2. /\ caller = "starting" /\ i \in Buffers /\ r.next = 0 /\ Held(r, i) /\ i \in r.pinned
      /\ d = "in" => New(dev["out"])
      /\ d = "out" => Held(dev["in"], BufferCount)
      /\ Sound(r) /\ events = "open"
  BY <1>1 DEF IInv, OpeningInv, this, DevicesInv, Held
<1>3. BufferCount \in Nat \ {0} /\ i < BufferCount /\ "in" \in Devices /\ "out" \in Devices
  BY <1>2, WaveAssumption DEF Buffers, Devices
<1>4. CASE /\ dev' = [dev EXCEPT ![loop.device].queue = Append(@, loop.i)]
           /\ IF loop.i + 1 < BufferCount
              THEN Goto("prepare", loop.device, loop.i + 1) /\ UNCHANGED caller
              ELSE IF loop.device = "in" THEN Goto("start", "in", 0) /\ UNCHANGED caller
              ELSE Goto("wait", "out", 0) /\ caller' = "running"
  <2> PICK s : s = [r EXCEPT !.queue = Append(@, i)]
    OBVIOUS
  <2>1. s \in DeviceType /\ Sound(s) /\ Held(s, i + 1) /\ s.next = 0
    BY <1>2, SubmitEffect
  <2>2. dev \in [Devices -> DeviceType] /\ dev' = [dev EXCEPT ![d] = s]
    BY <1>4 DEF IInv, TypeOK
  <2>3. /\ dev' \in [Devices -> DeviceType] /\ dev'[d] = s
        /\ \A e \in Devices : e # d => dev'[e] = dev[e]
    BY <2>1, <2>2
  <2>4. DevicesInv'
    BY <1>1, <1>2, <2>1, <2>3 DEF IInv, DevicesInv
  <2>5. ASSUME i + 1 < BufferCount
        PROVE  IInv'
    <3>1. Goto("prepare", d, i + 1) /\ UNCHANGED caller
      BY <1>4, <2>5
    <3>2. /\ loop' \in [at : Stages \cup Turns \cup Ends, device : Devices, i : Nat,
                        toClose : {<<>>, <<"in">>, <<"out">>, <<"out", "in">>}]
          /\ loop'.at = "prepare" /\ loop'.device = d /\ loop'.i = i + 1
      <4> PICK n \in Nat : n = i + 1
        OBVIOUS
      <4>1. "prepare" \in Stages
        BY DEF Stages
      <4> QED BY <3>1, <4>1, GotoFacts
    <3>3. TypeOK'
      BY <1>1, <2>3, <3>1, <3>2 DEF IInv, TypeOK
    <3>4. i + 1 \in Buffers
      BY <1>3, <2>5 DEF Buffers
    <3>5. OpeningInv'
      BY <1>1, <1>2, <1>3, <2>1, <2>3, <3>1, <3>2, <3>4 DEF OpeningInv, this
    <3>6. ServingInv' /\ EndingInv'
      BY <1>1, <1>2, <3>1, <3>2 DEF IInv, ServingInv, EndingInv, Turns, Ends
    <3> QED BY <2>4, <3>3, <3>5, <3>6 DEF IInv
  <2>6. ASSUME ~ (i + 1 < BufferCount), d = "in"
        PROVE  IInv'
    <3>1. Goto("start", "in", 0) /\ UNCHANGED caller
      BY <1>4, <2>6
    <3>2. /\ loop' \in [at : Stages \cup Turns \cup Ends, device : Devices, i : Nat,
                        toClose : {<<>>, <<"in">>, <<"out">>, <<"out", "in">>}]
          /\ loop'.at = "start" /\ loop'.device = "in" /\ loop'.i = 0
      BY <1>3, <3>1, GotoFacts DEF Stages
    <3>3. TypeOK'
      BY <1>1, <2>3, <3>1, <3>2 DEF IInv, TypeOK
    <3>4. Held(s, BufferCount) /\ dev'["in"] = s /\ New(dev'["out"])
      <4>1. i + 1 = BufferCount
        BY <1>3, <2>6
      <4> QED BY <1>2, <1>3, <2>1, <2>3, <2>6, <4>1
    <3>5. OpeningInv'
      BY <1>2, <3>1, <3>2, <3>4 DEF OpeningInv, this
    <3>6. ServingInv' /\ EndingInv'
      BY <1>1, <1>2, <3>1, <3>2 DEF IInv, ServingInv, EndingInv, Turns, Ends
    <3> QED BY <2>4, <3>3, <3>5, <3>6 DEF IInv
  <2>7. ASSUME ~ (i + 1 < BufferCount), d # "in"
        PROVE  IInv'
    <3>1. Goto("wait", "out", 0) /\ caller' = "running" /\ d = "out"
      BY <1>4, <2>7 DEF Devices
    <3>2. /\ loop' \in [at : Stages \cup Turns \cup Ends, device : Devices, i : Nat,
                        toClose : {<<>>, <<"in">>, <<"out">>, <<"out", "in">>}]
          /\ loop'.at = "wait" /\ loop'.device = "out" /\ loop'.i = 0
      BY <1>3, <3>1, GotoFacts DEF Turns
    <3>3. TypeOK'
      BY <1>1, <2>3, <3>1, <3>2 DEF IInv, TypeOK
    <3>4. i + 1 = BufferCount
      BY <1>3, <2>7
    <3>5. ServingInv'
      BY <1>2, <2>1, <2>3, <3>1, <3>4 DEF ServingInv, Devices
    <3>6. OpeningInv' /\ EndingInv'
      BY <1>1, <1>2, <3>1, <3>2 DEF IInv, OpeningInv, EndingInv, Stages, Ends
    <3> QED BY <2>4, <3>3, <3>5, <3>6 DEF IInv
  <2> QED BY <2>5, <2>6, <2>7
<1>5. CASE Close(Undo(TRUE)) /\ UNCHANGED <<dev, caller>>
  <2> PICK u : u = Undo(TRUE)
    OBVIOUS
  <2>1. u \in {<<>>, <<"in">>, <<"out">>, <<"out", "in">>} /\ reported' \in BOOLEAN
    BY <1>1, UndoOrder DEF IInv, TypeOK
  <2>2. \A e \in Devices : dev'[e].handle = "open" <=> e \in ToSet(u)
    BY <1>2, <1>5, UndoOrder, OrderSets DEF New, Held, Devices
  <2>3. DevicesInv' /\ dev' \in [Devices -> DeviceType]
    BY <1>1, <1>5 DEF IInv, DevicesInv, TypeOK
  <2> QED BY <1>1, <1>2, <1>5, <2>1, <2>2, <2>3, CloseStep
<1> QED BY <1>4, <1>5 DEF Submit

LEMMA StartInputStep ==
  ASSUME IInv, StartInput
  PROVE  IInv'
<1> PICK r \in DeviceType : r = dev["in"]
  BY DEF IInv, TypeOK, Devices
<1>1. /\ loop.at = "start" /\ loop.at \in Stages /\ loop.at \notin Ends
      /\ UNCHANGED <<signalled, caller, events, reported>>
  BY DEF StartInput, Stages, Ends
<1>2. /\ caller = "starting" /\ loop.device = "in" /\ Held(r, BufferCount)
      /\ New(dev["out"]) /\ Sound(r) /\ events = "open"
      /\ "in" \in Devices /\ "out" \in Devices
  BY <1>1 DEF IInv, OpeningInv, this, DevicesInv, Held, Devices
<1>3. CASE dev' = [dev EXCEPT !["in"].runs = TRUE] /\ Goto("open", "out", 0)
  <2> PICK s : s = [r EXCEPT !.runs = TRUE]
    OBVIOUS
  <2>1. /\ s \in DeviceType /\ s.pinned = r.pinned /\ s.due = r.due
        /\ s.prepared = r.prepared
        /\ s.queue = r.queue /\ s.done = r.done /\ s.next = r.next /\ s.handle = r.handle
    BY DEF DeviceType
  <2>2. Sound(s) /\ Held(s, BufferCount)
    BY <1>2, <2>1 DEF Sound, Held, All
  <2>3. dev \in [Devices -> DeviceType] /\ dev' = [dev EXCEPT !["in"] = s]
    BY <1>3 DEF IInv, TypeOK
  <2>4. /\ dev' \in [Devices -> DeviceType] /\ dev'["in"] = s
        /\ \A e \in Devices : e # "in" => dev'[e] = dev[e]
    BY <1>2, <2>1, <2>3
  <2>5. DevicesInv'
    BY <1>1, <1>2, <2>2, <2>4 DEF IInv, DevicesInv
  <2>6. /\ loop' \in [at : Stages \cup Turns \cup Ends, device : Devices, i : Nat,
                      toClose : {<<>>, <<"in">>, <<"out">>, <<"out", "in">>}]
        /\ loop'.at = "open" /\ loop'.device = "out" /\ loop'.i = 0
    BY <1>2, <1>3, GotoFacts DEF Stages
  <2>7. TypeOK'
    BY <1>1, <2>4, <2>6 DEF IInv, TypeOK
  <2>8. OpeningInv'
    BY <1>1, <1>2, <2>2, <2>4, <2>6 DEF OpeningInv, this
  <2>9. ServingInv' /\ EndingInv'
    BY <1>1, <1>2, <2>6 DEF IInv, ServingInv, EndingInv, Turns, Ends
  <2> QED BY <2>5, <2>7, <2>8, <2>9 DEF IInv
<1>4. CASE Close(Undo(TRUE)) /\ UNCHANGED dev
  <2> PICK u : u = Undo(TRUE)
    OBVIOUS
  <2>1. u \in {<<>>, <<"in">>, <<"out">>, <<"out", "in">>} /\ reported' \in BOOLEAN
    BY <1>1, <1>2, UndoOrder DEF IInv, TypeOK
  <2>2. \A e \in Devices : dev'[e].handle = "open" <=> e \in ToSet(u)
    BY <1>2, <1>4, UndoOrder, OrderSets DEF New, Held, Devices
  <2>3. DevicesInv' /\ dev' \in [Devices -> DeviceType]
    BY <1>1, <1>4 DEF IInv, DevicesInv, TypeOK
  <2> QED BY <1>1, <1>2, <1>4, <2>1, <2>2, <2>3, CloseStep
<1> QED BY <1>3, <1>4 DEF StartInput
-----------------------------------------------------------------------------
(* Ending.                                                                 *)

LEMMA ResetStep ==
  ASSUME IInv, Reset
  PROVE  IInv'
<1>1. /\ loop.at = "closing" /\ loop.toClose # <<>> /\ loop.at \in Ends /\ loop.at # "over"
      /\ UNCHANGED <<signalled, caller, events, reported>>
      /\ loop' = [loop EXCEPT !.at = "release"]
  BY DEF Reset, Ends
<1> PICK o \in {<<>>, <<"in">>, <<"out">>, <<"out", "in">>} : o = loop.toClose
  BY DEF IInv, TypeOK
<1>2. Closing \in Devices /\ Closing \in ToSet(o)
  BY <1>1, OrderTail DEF Closing
<1> PICK d \in Devices : d = Closing
  BY <1>2
<1> PICK r \in DeviceType : r = dev[d]
  BY DEF IInv, TypeOK
<1>3. r.handle = "open" /\ events = "open" /\ Sound(r)
  BY <1>1, <1>2 DEF IInv, EndingInv, DevicesInv
<1>4. r.done \o r.queue \in Seq(Buffers) /\ <<>> \in Seq(Buffers) /\ Len(<<>>) = 0
  BY DEF DeviceType
<1>5. PICK s \in DeviceType :
        /\ s.handle = "open" /\ Sound(s) /\ dev' = [dev EXCEPT ![d] = s]
        /\ s.queue = <<>> \/ "Reset" \in s.refused
  <2>1. CASE dev' = [dev EXCEPT ![d].queue = <<>>, ![d].due = TRUE, ![d].done = @ \o dev[d].queue]
    <3> PICK s : s = [r EXCEPT !.queue = <<>>, !.due = TRUE, !.done = @ \o r.queue]
      OBVIOUS
    <3>1. /\ s \in DeviceType /\ s.queue = <<>> /\ s.handle = "open"
          /\ s.pinned = r.pinned /\ s.prepared = r.prepared
      BY <1>3, <1>4 DEF DeviceType
    <3>2. Sound(s)
      BY <1>3, <1>4, <3>1 DEF Sound
    <3>3. dev' = [dev EXCEPT ![d] = s]
      BY <2>1 DEF IInv, TypeOK
    <3> QED BY <3>1, <3>2, <3>3
  <2>2. CASE dev' = [dev EXCEPT ![d].refused = @ \cup {"Reset"}]
    <3> PICK s : s = [r EXCEPT !.refused = @ \cup {"Reset"}]
      OBVIOUS
    <3>1. /\ s \in DeviceType /\ s.queue = r.queue /\ s.handle = "open"
          /\ s.pinned = r.pinned /\ s.prepared = r.prepared /\ "Reset" \in s.refused
      BY <1>3 DEF DeviceType
    <3>2. Sound(s)
      BY <1>3, <3>1 DEF Sound
    <3>3. dev' = [dev EXCEPT ![d] = s]
      BY <2>2 DEF IInv, TypeOK
    <3> QED BY <3>1, <3>2, <3>3
  <2> QED BY <2>1, <2>2 DEF Reset
<1>7. dev \in [Devices -> DeviceType]
  BY DEF IInv, TypeOK
<1>8. /\ dev' \in [Devices -> DeviceType] /\ dev'[d] = s
      /\ \A e \in Devices : e # d => dev'[e] = dev[e]
  BY <1>5, <1>7
<1>9. /\ loop' \in [at : Stages \cup Turns \cup Ends, device : Devices, i : Nat,
                    toClose : {<<>>, <<"in">>, <<"out">>, <<"out", "in">>}]
      /\ loop'.at = "release" /\ loop'.toClose = o
  BY <1>1 DEF IInv, TypeOK, Ends
<1>10. TypeOK'
  BY <1>1, <1>8, <1>9 DEF IInv, TypeOK
<1>11. DevicesInv'
  BY <1>1, <1>3, <1>5, <1>8 DEF IInv, DevicesInv
<1>12. EndingInv'
  <2>1. Closing' = d
    BY <1>9 DEF Closing
  <2>2. \A e \in Devices : dev[e].handle = "open" <=> e \in ToSet(o)
    BY <1>1 DEF IInv, EndingInv
  <2>3. \A e \in Devices : dev'[e].handle = "open" <=> e \in ToSet(o)
    BY <1>3, <1>5, <1>8, <2>2
  <2>4. /\ caller = "running" => reported
        /\ caller \notin {"refused", "stopped"}
        /\ "stop" \in signalled => caller \in {"stopping", "stopped"}
    BY <1>1 DEF IInv, EndingInv
  <2>5. o # <<>> /\ (dev'[Closing'].queue = <<>> \/ "Reset" \in dev'[Closing'].refused)
    BY <1>1, <1>5, <1>8, <2>1
  <2> QED BY <1>1, <1>9, <2>3, <2>4, <2>5 DEF EndingInv
<1>13. OpeningInv' /\ ServingInv'
  BY <1>9 DEF OpeningInv, ServingInv, Stages, Turns
<1> QED BY <1>10, <1>11, <1>12, <1>13 DEF IInv

LEMMA ReleaseStep ==
  ASSUME IInv, Release
  PROVE  IInv'
<1>1. /\ loop.at = "release" /\ loop.at \in Ends /\ loop.at # "over" /\ loop.toClose # <<>>
      /\ UNCHANGED <<signalled, caller, events, reported>>
      /\ loop' = [loop EXCEPT !.at = "closing", !.toClose = Tail(@)]
  BY DEF Release, Ends, IInv, EndingInv
<1> PICK o \in {<<>>, <<"in">>, <<"out">>, <<"out", "in">>} : o = loop.toClose
  BY DEF IInv, TypeOK
<1>2. /\ Closing \in Devices /\ Closing = Head(o)
      /\ Tail(o) \in {<<>>, <<"in">>, <<"out">>, <<"out", "in">>}
      /\ ToSet(Tail(o)) = ToSet(o) \ {Head(o)}
  BY <1>1, OrderTail DEF Closing
<1> PICK d \in Devices : d = Closing
  BY <1>2
<1> PICK r \in DeviceType : r = dev[d]
  BY DEF IInv, TypeOK
<1>3. /\ r.queue \in Seq(Buffers) /\ <<>> \in Seq(Buffers) /\ 0 \in Buffers
      /\ ToSet(r.queue) \subseteq Buffers
  BY WaveAssumption DEF DeviceType, Buffers, ToSet
<1>4. r.queue # <<>> => "Reset" \in r.refused
  BY <1>1 DEF IInv, EndingInv
<1>5. PICK s \in DeviceType :
        s.handle = "closed" /\ Sound(s) /\ dev' = [dev EXCEPT ![d] = s]
  <2>1. PICK kept \in {ToSet(r.queue), r.prepared} :
          LET g == GivenUp(r, kept)
          IN  \/ /\ g.queue = <<>>
                 /\ dev' = [dev EXCEPT ![d] = [g EXCEPT !.due = FALSE]]
              \/ dev' = [dev EXCEPT ![d] = [g EXCEPT !.refused = @ \cup {"Close"}]]
    BY DEF Release
  <2> PICK g : g = GivenUp(r, kept)
    OBVIOUS
  <2>2. kept \in SUBSET Buffers
    BY <1>3 DEF DeviceType
  <2>3. /\ g \in DeviceType /\ g.handle = "closed" /\ g.pinned = {} /\ g.prepared = kept
        /\ g.queue = r.queue /\ r.refused \subseteq g.refused
        /\ kept # {} => "Unprepare" \in g.refused
    <3> PICK f : f = r.refused \cup (IF kept = {} THEN {} ELSE {"Unprepare"})
      OBVIOUS
    <3>1. /\ f \in SUBSET {"Reset", "Unprepare", "Close"} /\ r.refused \subseteq f
          /\ kept # {} => "Unprepare" \in f
      BY DEF DeviceType
    <3>2. g = [r EXCEPT !.handle = "closed", !.pinned = {}, !.prepared = kept, !.next = 0,
                        !.done = <<>>, !.runs = FALSE, !.refused = f]
      BY DEF GivenUp, DeviceType
    <3>3. /\ g \in DeviceType /\ g.handle = "closed" /\ g.pinned = {} /\ g.prepared = kept
          /\ g.queue = r.queue /\ g.refused = f
      BY <1>3, <2>2, <3>1, <3>2 DEF DeviceType
    <3> QED BY <3>1, <3>3
  <2>4. CASE r.queue = <<>> /\ dev' = [dev EXCEPT ![d] = [g EXCEPT !.due = FALSE]]
    <3> PICK s : s = [g EXCEPT !.due = FALSE]
      OBVIOUS
    <3>1. /\ s \in DeviceType /\ s.handle = "closed" /\ s.pinned = {} /\ s.prepared = kept
          /\ s.queue = <<>> /\ s.due = FALSE /\ s.refused = g.refused
      BY <2>3, <2>4 DEF DeviceType
    <3>2. Sound(s)
      BY <2>3, <3>1 DEF Sound
    <3> QED BY <2>4, <3>1, <3>2
  <2>5. CASE dev' = [dev EXCEPT ![d] = [g EXCEPT !.refused = @ \cup {"Close"}]]
    <3> PICK s : s = [g EXCEPT !.refused = @ \cup {"Close"}]
      OBVIOUS
    <3>1. /\ s \in DeviceType /\ s.handle = "closed" /\ s.pinned = {} /\ s.prepared = kept
          /\ s.queue = r.queue /\ s.refused = g.refused \cup {"Close"}
      BY <2>3 DEF DeviceType
    <3>2. Sound(s)
      BY <1>4, <2>3, <3>1 DEF Sound
    <3> QED BY <2>5, <3>1, <3>2
  <2>6. \/ g.queue = <<>> /\ dev' = [dev EXCEPT ![d] = [g EXCEPT !.due = FALSE]]
        \/ dev' = [dev EXCEPT ![d] = [g EXCEPT !.refused = @ \cup {"Close"}]]
    BY <2>1, Zenon
  <2> QED BY <2>3, <2>4, <2>5, <2>6
<1>6. /\ dev' \in [Devices -> DeviceType] /\ dev'[d] = s
      /\ \A e \in Devices : e # d => dev'[e] = dev[e]
  BY <1>5 DEF IInv, TypeOK
<1>7. /\ loop' \in [at : Stages \cup Turns \cup Ends, device : Devices, i : Nat,
                    toClose : {<<>>, <<"in">>, <<"out">>, <<"out", "in">>}]
      /\ loop'.at = "closing" /\ loop'.toClose = Tail(o)
  BY <1>1, <1>2 DEF IInv, TypeOK, Ends
<1>8. TypeOK'
  BY <1>1, <1>6, <1>7 DEF IInv, TypeOK
<1>10. DevicesInv'
  BY <1>1, <1>5, <1>6 DEF IInv, DevicesInv
<1>11. EndingInv'
  <2>1. \A e \in Devices : dev[e].handle = "open" <=> e \in ToSet(o)
    BY <1>1 DEF IInv, EndingInv
  <2>2. \A e \in Devices : dev'[e].handle = "open" <=> e \in ToSet(Tail(o))
    BY <1>2, <1>5, <1>6, <2>1
  <2>3. /\ caller = "running" => reported
        /\ caller \notin {"refused", "stopped"}
        /\ "stop" \in signalled => caller \in {"stopping", "stopped"}
    BY <1>1 DEF IInv, EndingInv
  <2> QED BY <1>1, <1>7, <2>2, <2>3 DEF EndingInv
<1>12. OpeningInv' /\ ServingInv'
  BY <1>7 DEF OpeningInv, ServingInv, Stages, Turns
<1> QED BY <1>8, <1>10, <1>11, <1>12 DEF IInv

LEMMA FinishStep ==
  ASSUME IInv, Finish
  PROVE  IInv'
<1>1. /\ loop.at = "closing" /\ loop.toClose = <<>> /\ loop.at \in Ends /\ loop.at # "over"
      /\ UNCHANGED <<dev, signalled, reported>>
      /\ loop' = [loop EXCEPT !.at = "over"]
  BY DEF Finish, Ends
<1>2. IF caller = "starting" THEN events' = "closed" /\ caller' = "refused"
      ELSE UNCHANGED <<events, caller>>
  BY DEF Finish
<1>3. \A d \in Devices : dev[d].handle # "open"
  BY <1>1, OrderSets DEF IInv, EndingInv
<1>4. /\ loop' \in [at : Stages \cup Turns \cup Ends, device : Devices, i : Nat,
                    toClose : {<<>>, <<"in">>, <<"out">>, <<"out", "in">>}]
      /\ loop'.at = "over" /\ loop'.toClose = <<>>
  BY <1>1 DEF IInv, TypeOK, Ends
<1>5. TypeOK'
  BY <1>1, <1>2, <1>4 DEF IInv, TypeOK
<1>6. DevicesInv'
  BY <1>1, <1>3 DEF IInv, DevicesInv
<1>7. EndingInv'
  BY <1>1, <1>2, <1>3, <1>4 DEF IInv, EndingInv
<1>8. OpeningInv' /\ ServingInv'
  BY <1>4 DEF OpeningInv, ServingInv, Stages, Turns
<1> QED BY <1>5, <1>6, <1>7, <1>8 DEF IInv
-----------------------------------------------------------------------------
(* Serving.                                                                *)

\* The goroutine goes on; the devices are as full as before.
LEMMA TurnOn ==
  ASSUME IInv, loop.at \in Turns, NEW l \in Turns, NEW d \in Devices, NEW n \in Nat,
         Goto(l, d, n), dev' \in [Devices -> DeviceType], DevicesInv',
         \A e \in Devices : Held(dev'[e], BufferCount),
         signalled' \subseteq signalled, UNCHANGED <<caller, events, reported>>
  PROVE  IInv'
<1>1. /\ loop' \in [at : Stages \cup Turns \cup Ends, device : Devices, i : Nat,
                    toClose : {<<>>, <<"in">>, <<"out">>, <<"out", "in">>}]
      /\ loop'.at = l
  BY GotoFacts
<1>2. TypeOK'
  BY <1>1 DEF IInv, TypeOK
<1>3. caller \in {"running", "stopping"}
  BY DEF IInv, ServingInv
<1>4. ServingInv'
  BY <1>3 DEF ServingInv
<1>5. OpeningInv' /\ EndingInv'
  BY <1>1, <1>3 DEF IInv, OpeningInv, EndingInv, Stages, Turns, Ends
<1> QED BY <1>2, <1>4, <1>5 DEF IInv

\* The goroutine leaves with both devices open.
LEMMA LeaveBoth ==
  ASSUME IInv, loop.at \in Turns, Close(<<"out", "in">>), UNCHANGED <<dev, caller, events>>,
         signalled' \subseteq signalled, reported' \in BOOLEAN, caller = "running" => reported'
  PROVE  IInv'
<1>1. loop.at \notin Ends
  BY DEF Turns, Ends
<1>2. \A d \in Devices : Held(dev[d], BufferCount)
  BY DEF IInv, ServingInv
<1>3. \A d \in Devices : dev'[d].handle = "open" <=> d \in ToSet(<<"out", "in">>)
  BY <1>2, OrderSets DEF Held, Devices
<1>4. dev' \in [Devices -> DeviceType] /\ DevicesInv'
  BY DEF IInv, TypeOK, DevicesInv
<1> QED BY <1>1, <1>3, <1>4, CloseStep

LEMMA WakeStep ==
  ASSUME IInv, NEW e \in Devices \cup {"stop"}, Wake(e)
  PROVE  IInv'
<1>1. /\ loop.at = "wait" /\ loop.at \in Turns /\ e \in signalled
      /\ signalled' = signalled \ {e} /\ UNCHANGED <<dev, caller, events, reported>>
  BY DEF Wake, Turns
<1>2. CASE e = "stop"
  <2>1. caller \in {"running", "stopping"} /\ caller \in {"stopping", "stopped"}
    BY <1>1, <1>2 DEF IInv, ServingInv, EndingInv
  <2>2. Close(<<"out", "in">>) /\ caller # "running"
    BY <1>2, <2>1 DEF Wake
  <2>3. reported' \in BOOLEAN
    BY <1>1 DEF IInv, TypeOK
  <2> QED BY <1>1, <2>2, <2>3, LeaveBoth
<1>3. CASE e # "stop"
  <2>1. Goto("drain", "in", 0) /\ "drain" \in Turns /\ "in" \in Devices
    BY <1>3 DEF Wake, Turns, Devices
  <2>2. dev' \in [Devices -> DeviceType] /\ DevicesInv'
        /\ \A d \in Devices : Held(dev'[d], BufferCount)
    BY <1>1 DEF IInv, TypeOK, DevicesInv, ServingInv
  <2> QED BY <1>1, <2>1, <2>2, TurnOn
<1> QED BY <1>2, <1>3

LEMMA WaitFailsStep ==
  ASSUME IInv, WaitFails
  PROVE  IInv'
<1>1. loop.at \in Turns
  BY DEF WaitFails, Turns
<1> QED BY <1>1, LeaveBoth DEF WaitFails

LEMMA DrainStep ==
  ASSUME IInv, Drain
  PROVE  IInv'
<1>1. loop.at \in Turns /\ UNCHANGED <<dev, signalled, caller, events, reported>>
  BY DEF Drain, Turns
<1>2. PICK l \in Turns, d \in Devices, n \in Nat : Goto(l, d, n)
  <2>1. /\ "resubmit" \in Turns /\ "drain" \in Turns /\ "wait" \in Turns
        /\ "in" \in Devices /\ "out" \in Devices /\ 0 \in Nat
        /\ loop.device \in Devices /\ loop.i \in Nat
    BY DEF IInv, TypeOK, Turns, Devices
  <2> QED BY <2>1 DEF Drain, NextDevice
<1>3. dev' \in [Devices -> DeviceType] /\ DevicesInv'
      /\ \A e \in Devices : Held(dev'[e], BufferCount)
  BY <1>1 DEF IInv, TypeOK, DevicesInv, ServingInv
<1> QED BY <1>1, <1>2, <1>3, TurnOn

LEMMA ResubmitStep ==
  ASSUME IInv, Resubmit
  PROVE  IInv'
<1>1. loop.at = "resubmit" /\ loop.at \in Turns /\ UNCHANGED <<signalled, caller, events>>
  BY DEF Resubmit, Turns
<1> PICK d \in Devices, i \in Nat : d = loop.device /\ i = loop.i
  BY DEF IInv, TypeOK
<1> PICK r \in DeviceType : r = dev[d]
  BY DEF IInv, TypeOK
<1>2. Sound(r) /\ Held(r, BufferCount) /\ events = "open"
  BY <1>1 DEF IInv, DevicesInv, ServingInv, Held
<1>3. CASE /\ \E k \in DOMAIN this.done :
                /\ this.done[k] = this.next
                /\ dev' = [dev EXCEPT ![loop.device].done = RemoveAt(@, k),
                                      ![loop.device].queue = Append(@, this.next),
                                      ![loop.device].next = Advance(this.next)]
           /\ Goto("drain", loop.device, loop.i + 1)
           /\ UNCHANGED reported
  <2>1. PICK k \in DOMAIN r.done :
          /\ r.done[k] = r.next
          /\ dev' = [dev EXCEPT ![d].done = RemoveAt(@, k), ![d].queue = Append(@, r.next),
                                ![d].next = Advance(r.next)]
    BY <1>3 DEF this
  <2> PICK s : s = [r EXCEPT !.done = RemoveAt(@, k), !.queue = Append(@, r.next),
                             !.next = Advance(r.next)]
    OBVIOUS
  <2>2. s \in DeviceType /\ Sound(s) /\ Held(s, BufferCount)
    BY <1>2, <2>1, ResubmitEffect
  <2>3. dev \in [Devices -> DeviceType] /\ dev' = [dev EXCEPT ![d] = s]
    BY <2>1 DEF IInv, TypeOK
  <2>4. /\ dev' \in [Devices -> DeviceType] /\ dev'[d] = s
        /\ \A e \in Devices : e # d => dev'[e] = dev[e]
    BY <2>2, <2>3
  <2>5. DevicesInv'
    BY <1>1, <1>2, <2>2, <2>4 DEF IInv, DevicesInv
  <2>6. \A e \in Devices : Held(dev'[e], BufferCount)
    BY <1>1, <2>2, <2>4 DEF IInv, ServingInv
  <2> PICK n \in Nat : n = i + 1
    OBVIOUS
  <2>7. Goto("drain", d, n) /\ "drain" \in Turns
    BY <1>3 DEF Turns
  <2> QED BY <1>1, <1>3, <2>4, <2>5, <2>6, <2>7, TurnOn
<1>4. CASE reported' = TRUE /\ Close(<<"out", "in">>) /\ UNCHANGED dev
  BY <1>1, <1>4, LeaveBoth
<1> QED BY <1>3, <1>4 DEF Resubmit

LEMMA RequestStopStep ==
  ASSUME IInv, RequestStop
  PROVE  IInv'
<1>1. /\ caller = "running" /\ caller' = "stopping" /\ signalled' = signalled \cup {"stop"}
      /\ UNCHANGED <<loop, dev, events, reported>>
  BY DEF RequestStop
<1>2. loop.at \notin Stages
  BY <1>1 DEF IInv, OpeningInv
<1>3. TypeOK'
  BY <1>1 DEF IInv, TypeOK
<1>4. DevicesInv' /\ OpeningInv' /\ ServingInv'
  BY <1>1, <1>2 DEF IInv, DevicesInv, OpeningInv, ServingInv
<1>5. EndingInv'
  BY <1>1 DEF IInv, EndingInv, Closing
<1> QED BY <1>3, <1>4, <1>5 DEF IInv

LEMMA StoppedStep ==
  ASSUME IInv, Stopped
  PROVE  IInv'
<1>1. /\ caller = "stopping" /\ loop.at = "over" /\ caller' = "stopped" /\ events' = "closed"
      /\ UNCHANGED <<loop, dev, signalled, reported>>
  BY DEF Stopped
<1>2. loop.at \in Ends /\ loop.at \notin Stages /\ loop.at \notin Turns
  BY <1>1 DEF Ends, Stages, Turns
<1>3. \A d \in Devices : dev[d].handle # "open"
  BY <1>1, <1>2 DEF IInv, EndingInv
<1>4. TypeOK'
  BY <1>1 DEF IInv, TypeOK
<1>5. DevicesInv' /\ OpeningInv' /\ ServingInv'
  BY <1>1, <1>2, <1>3 DEF IInv, DevicesInv, OpeningInv, ServingInv
<1>6. EndingInv'
  BY <1>1, <1>2 DEF IInv, EndingInv, Closing
<1> QED BY <1>4, <1>5, <1>6 DEF IInv
-----------------------------------------------------------------------------
\* The invariant holds throughout.
LEMMA StepInvariant == IInv /\ [Next]_vars => IInv'
<1> SUFFICES ASSUME IInv, [Next]_vars PROVE IInv'
  OBVIOUS
<1>1. CASE \E d \in Devices : Complete(d) \/ Signal(d)
  BY <1>1, CompleteStep, SignalStep
<1>2. CASE Opening
  BY <1>2, CreateEventStep, OpenHandleStep, PrepareStep, SubmitStep, StartInputStep
     DEF Opening
<1>3. CASE Ending
  BY <1>3, ResetStep, ReleaseStep, FinishStep DEF Ending
<1>4. CASE Serving
  BY <1>4, WakeStep, DrainStep, ResubmitStep DEF Serving
<1>5. CASE WaitFails \/ RequestStop \/ Stopped
  BY <1>5, WaitFailsStep, RequestStopStep, StoppedStep
<1>6. CASE UNCHANGED vars
  BY <1>6 DEF IInv, TypeOK, DevicesInv, OpeningInv, ServingInv, EndingInv, vars, this,
     Closing
<1> QED BY <1>1, <1>2, <1>3, <1>4, <1>5, <1>6 DEF Next

\* Every variable of the backend keeps its type, with any number of buffers
\* (audio_windows.go, waveDevice).
THEOREM TypeCorrect == Spec => []TypeOK
<1>1. IInv => TypeOK
  BY DEF IInv
<1> QED BY InitInvariant, StepInvariant, <1>1, PTL DEF Spec

\* The ring's index is always the oldest buffer: audio is handled in the order
\* it was recorded or played, with any number of buffers (audio_windows.go,
\* waveDevice.next).
THEOREM BuffersInTurn == Spec => []RingInTurn
<1>1. IInv => RingInTurn
  <2> SUFFICES ASSUME IInv, loop.at \in {"wait", "drain", "resubmit"}, NEW d \in Devices
               PROVE  LET all == dev[d].done \o dev[d].queue
                      IN  /\ Len(all) = BufferCount
                          /\ \A k \in 1 .. Len(all) :
                               all[k] = (dev[d].next + k - 1) % BufferCount
    BY DEF RingInTurn
  <2>1. InTurn(dev[d].next, BufferCount, dev[d].done \o dev[d].queue)
    BY DEF IInv, ServingInv, Turns, Held, All
  <2> QED BY <2>1 DEF InTurn
<1> QED BY InitInvariant, StepInvariant, <1>1, PTL DEF Spec

\* The driver works in pinned memory of open devices only, however far the
\* opening came and however the stream ends, also when it refuses one of Reset
\* and Close: what it keeps is what it refused to give back
\* (audio_windows.go, openWave, close).
THEOREM DriverMemoryPinned == Spec => []HeldIsPinned
<1>1. IInv => HeldIsPinned
  <2> SUFFICES ASSUME IInv, NEW d \in Devices
               PROVE  /\ \/ ToSet(dev[d].queue) \subseteq dev[d].pinned
                         \/ {"Reset", "Close"} \subseteq dev[d].refused
                      /\ \/ dev[d].prepared \subseteq dev[d].pinned
                         \/ "Unprepare" \in dev[d].refused
                      /\ dev[d].queue # <<>> \/ dev[d].due =>
                           \/ dev[d].handle = "open" /\ events = "open"
                           \/ "Close" \in dev[d].refused
    BY DEF HeldIsPinned
  <2> PICK r \in DeviceType : r = dev[d]
    BY DEF IInv, TypeOK
  <2>1. Sound(r) /\ (r.handle = "open" => events = "open")
    BY DEF IInv, DevicesInv
  <2>2. r.handle \in {"none", "open", "closed"} /\ DOMAIN r.queue = 1 .. Len(r.queue)
    BY DEF DeviceType
  <2>3. ToSet(r.queue) \subseteq r.pinned \/ {"Reset", "Close"} \subseteq r.refused
    <3>1. CASE r.handle # "closed"
      BY <2>1, <2>2, <3>1 DEF Sound, ToSet
    <3>2. CASE r.handle = "closed" /\ r.queue = <<>>
      <4>1. ToSet(r.queue) = {}
        BY <3>2, OrderSets
      <4> QED BY <4>1
    <3>3. CASE r.handle = "closed" /\ r.queue # <<>>
      BY <2>1, <3>3 DEF Sound
    <3> QED BY <3>1, <3>2, <3>3
  <2> QED BY <2>1, <2>2, <2>3 DEF Sound
<1> QED BY InitInvariant, StepInvariant, <1>1, PTL DEF Spec

\* Whichever call fails, and however the stream ends, Close is called for the
\* devices opened so far, for each once, and the end is asked for or reported
\* (audio_windows.go, openWave, startAudio).
THEOREM EndsClean == Spec => []CleanEnd
<1>1. IInv => CleanEnd
  <2> SUFFICES ASSUME IInv PROVE CleanEnd
    OBVIOUS
  <2>1. ASSUME loop.at = "closing", NEW k \in 1 .. Len(loop.toClose)
        PROVE  dev[loop.toClose[k]].handle = "open"
    <3>1. loop.at \in Ends /\ loop.at # "over"
      BY <2>1 DEF Ends
    <3> PICK o \in {<<>>, <<"in">>, <<"out">>, <<"out", "in">>} : o = loop.toClose
      BY DEF IInv, TypeOK
    <3>2. o[k] \in Devices /\ o[k] \in ToSet(o)
      BY <2>1 DEF Devices, ToSet
    <3> QED BY <3>1, <3>2 DEF IInv, EndingInv
  <2>2. ASSUME loop.at = "over"
        PROVE  /\ \A d \in Devices : dev[d].handle # "open" /\ dev[d].pinned = {}
               /\ caller \in {"refused", "stopping", "stopped"} \/ reported
    BY <2>2 DEF IInv, TypeOK, EndingInv, DevicesInv, Sound, Ends
  <2>3. caller \in {"refused", "stopped"} => loop.at = "over" /\ events # "open"
    BY DEF IInv, EndingInv
  <2> QED BY <2>1, <2>2, <2>3 DEF CleanEnd
<1> QED BY InitInvariant, StepInvariant, <1>1, PTL DEF Spec
=============================================================================
