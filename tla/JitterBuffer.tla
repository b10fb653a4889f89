---------------------------- MODULE JitterBuffer ----------------------------
(***************************************************************************)
(* The receiver's jitter buffer (cmd/talk/protocol.go): a ring of packets  *)
(* indexed by sequence number modulo the ring's length, a cursor next into *)
(* the 32-bit sequence space, and a countdown before playout (re)starts.   *)
(* insert and take are the only operations; both belong to the playout     *)
(* goroutine.                                                              *)
(*                                                                         *)
(* The audio of a packet is represented by the number of the frame, which  *)
(* counts from the first captured frame and never wraps; the wire carries  *)
(* only that number modulo Modulus.  position is a history variable: the   *)
(* unwrapped value of next.  No operation reads it.                        *)
(***************************************************************************)
EXTENDS Integers

CONSTANTS
  Modulus,    \* size of the sequence space (2^32 in the code)
  SlotCount,  \* slots of the ring (64 in the code)
  Prebuffer   \* ticks to wait after the window was (re)started (3 in the code)

ASSUME JitterAssumption ==
  /\ SlotCount \in Nat \ {0}
  /\ Prebuffer \in Nat
  /\ Modulus \in Nat
  /\ \E k \in 1 .. Modulus : Modulus = 2 * (k * SlotCount)

VARIABLES
  slots,      \* the ring: packets, also stale ones
  valid,      \* which slots hold a packet waiting to be played
  next,       \* the sequence number to be played next
  started,    \* a packet has been inserted
  wait,       \* ticks left before playout (re)starts
  taken,      \* what the last take returned: (p, received, active)
  position    \* history: next, unwrapped

Slot == 0 .. (SlotCount - 1)
Half == Modulus \div 2
NoFrame == -1
NoPacket == [seq |-> 0, audio |-> NoFrame]   \* Go's zero packet

\* The packet that carries frame n.
Packet(n) == [seq |-> n % Modulus, audio |-> n]

\* p.seq % uint32(len(j.slots))
SlotOf(seq) == seq % SlotCount

\* Mutant: the difference of two uint32 values without the conversion to int32.
UnsignedDelta(a, b) == (a - b) % Modulus

\* int32(a - b) for two uint32 values.
SignedDelta(a, b) ==
  LET d == (a - b) % Modulus
  IN  IF d < Half THEN d ELSE d - Modulus

\* The results of take: nothing to play yet, or slot contents.
Inactive == [packet |-> NoPacket, received |-> FALSE, active |-> FALSE]

JitterInit ==
  /\ slots = [i \in Slot |-> NoPacket]
  /\ valid = [i \in Slot |-> FALSE]
  /\ next = 0
  /\ started = FALSE
  /\ wait = 0
  /\ taken = Inactive
  /\ position = 0
-----------------------------------------------------------------------------
\* The first packet ever places the window.
Base(p) == IF started THEN next ELSE p.seq

\* delta < 0: the packet has been played or comes too late.
InsertLate(p) ==
  /\ SignedDelta(p.seq, Base(p)) < 0
  /\ UNCHANGED <<slots, valid, next, started, wait, position>>

\* The packet falls into the window; an occupied slot keeps its packet.
InsertInWindow(p) ==
  /\ SignedDelta(p.seq, Base(p)) \in 0 .. (SlotCount - 1)
  /\ started' = TRUE
  /\ next' = Base(p)
  /\ wait' = IF started THEN wait ELSE Prebuffer
  /\ position' = IF started THEN position ELSE p.audio
  /\ IF valid[SlotOf(p.seq)]
     THEN UNCHANGED <<slots, valid>>
     ELSE /\ slots' = [slots EXCEPT ![SlotOf(p.seq)] = p]
          /\ valid' = [valid EXCEPT ![SlotOf(p.seq)] = TRUE]

\* Mutant: the ring is not cleared when the window is moved.
InsertAfterGapKeepsValid(p) ==
  /\ SignedDelta(p.seq, Base(p)) >= SlotCount
  /\ next' = p.seq
  /\ wait' = Prebuffer
  /\ position' = p.audio
  /\ IF valid[SlotOf(p.seq)]
     THEN UNCHANGED <<slots, valid>>
     ELSE /\ slots' = [slots EXCEPT ![SlotOf(p.seq)] = p]
          /\ valid' = [valid EXCEPT ![SlotOf(p.seq)] = TRUE]
  /\ UNCHANGED started

\* The packet lies beyond the window: everything buffered is dropped and
\* the window restarts at the packet.
InsertAfterGap(p) ==
  /\ SignedDelta(p.seq, Base(p)) >= SlotCount
  /\ next' = p.seq
  /\ wait' = Prebuffer
  /\ position' = p.audio
  /\ slots' = [slots EXCEPT ![SlotOf(p.seq)] = p]
  /\ valid' = [i \in Slot |-> i = SlotOf(p.seq)]
  /\ UNCHANGED started

Insert(p) ==
  /\ InsertLate(p) \/ InsertInWindow(p) \/ InsertAfterGap(p)
  /\ UNCHANGED taken
-----------------------------------------------------------------------------
TakeNothing ==
  /\ taken' = Inactive
  /\ wait' = IF started /\ wait > 0 THEN wait - 1 ELSE wait
  /\ UNCHANGED <<slots, valid, next, started, position>>

\* Mutant: a slot is played when its sequence number fits, marked or not.
TakeNextUnmarked ==
  /\ taken' = [packet   |-> slots[SlotOf(next)],
               received |-> slots[SlotOf(next)].seq = next,
               active   |-> TRUE]
  /\ valid' = [valid EXCEPT ![SlotOf(next)] = FALSE]
  /\ next' = (next + 1) % Modulus
  /\ position' = position + 1
  /\ UNCHANGED <<slots, started, wait>>

TakeNext ==
  /\ taken' = [packet   |-> slots[SlotOf(next)],
               received |-> valid[SlotOf(next)] /\ slots[SlotOf(next)].seq = next,
               active   |-> TRUE]
  /\ valid' = [valid EXCEPT ![SlotOf(next)] = FALSE]
  /\ next' = (next + 1) % Modulus
  /\ position' = position + 1
  /\ UNCHANGED <<slots, started, wait>>

Take ==
  \/ (~started \/ wait > 0) /\ TakeNothing
  \/ (started /\ wait = 0) /\ TakeNext
=============================================================================
