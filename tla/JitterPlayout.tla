--------------------------- MODULE JitterPlayout ---------------------------
(***************************************************************************)
(* The jitter buffer as the playout goroutine uses it: packets arrive in   *)
(* any order, any number of times or never, and a ticker takes one frame   *)
(* per period (cmd/talk/call.go).                                          *)
(***************************************************************************)
EXTENDS JitterBuffer

CONSTANTS
  Frames,     \* the numbers of the frames that may arrive
  LastTick    \* playout stops at this position (bound)

ASSUME PlayoutAssumption == Frames \subseteq Nat /\ LastTick \in Nat

VARIABLE
  played      \* history: the number of the last frame played

vars == <<slots, valid, next, started, wait, taken, position, played>>

Init ==
  /\ JitterInit
  /\ played = NoFrame

\* A packet is at most half the sequence space away from the cursor: 2^31
\* frames, which is more than a year of audio.
Arrive(n) ==
  /\ started => n - position \in -Half .. (Half - 1)
  /\ Insert(Packet(n))
  /\ UNCHANGED played

Tick ==
  /\ position < LastTick
  /\ Take
  /\ played' = IF taken'.received THEN taken'.packet.audio ELSE played

Next == Tick \/ \E n \in Frames : Arrive(n)

Spec == Init /\ [][Next]_vars

-----------------------------------------------------------------------------
PacketType == [seq : 0 .. (Modulus - 1), audio : Nat \cup {NoFrame}]

\* Every variable of jitterBuffer stays within its Go type.
TypeOK ==
  /\ slots \in [Slot -> PacketType]
  /\ valid \in [Slot -> BOOLEAN]
  /\ next \in 0 .. (Modulus - 1)
  /\ started \in BOOLEAN
  /\ wait \in 0 .. Prebuffer
  /\ taken \in [packet : PacketType, received : BOOLEAN, active : BOOLEAN]
  /\ position \in Nat
  /\ played \in Nat \cup {NoFrame}

\* next stands for the frame at position, across wraparounds and restarts.
CursorInStep == next = position % Modulus

\* A slot marked valid holds the packet of one of the next SlotCount frames
\* to be played, and it is that frame's slot.
SlotInStep(i) ==
  /\ started
  /\ slots[i] = Packet(slots[i].audio)
  /\ slots[i].audio \in position .. (position + SlotCount - 1)
  /\ i = SlotOf(slots[i].audio)

\* No slot of the ring (protocol.go, jitterBuffer.slots) is ever blocked by
\* a packet that was played, skipped or belongs to another lap of the ring
\* or of the sequence space, although insert never overwrites a valid slot
\* and take looks at one slot only.
WindowInv == CursorInStep /\ \A i \in Slot : valid[i] => SlotInStep(i)

\* Before the window is placed nothing is buffered or played; afterwards what
\* was played lies behind the window.
PlayedInv ==
  /\ ~started => /\ \A i \in Slot : ~valid[i]
                 /\ played = NoFrame
  /\ started => played < position

\* The inductive invariant behind the properties below.
IInv == TypeOK /\ WindowInv /\ PlayedInv

\* A frame is played at most once and never after a later one, although
\* packets are duplicated, reordered and sequence numbers wrap.
PlaysInOrder ==
  [][Tick /\ taken'.received => taken'.packet.audio > played]_vars

\* The ring with wrapping sequence numbers implements the window over
\* unbounded frame numbers: no frame is lost, replayed or mistaken for
\* another lap's.
Window == INSTANCE ReorderWindow WITH
  Depth   <- SlotCount,
  cursor  <- position,
  pending <- {slots[i].audio : i \in {j \in Slot : valid[j]}},
  out     <- [active   |-> taken.active,
              received |-> taken.received,
              frame    |-> IF taken.received THEN taken.packet.audio ELSE NoFrame]

ImplementsWindow == Window!Spec
=============================================================================
