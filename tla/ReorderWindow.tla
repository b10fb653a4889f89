--------------------------- MODULE ReorderWindow ---------------------------
(***************************************************************************)
(* What the receiver of a call is promised by its jitter buffer, without   *)
(* rings, slots or 32-bit sequence numbers.  Frames carry unbounded        *)
(* numbers.  A window of Depth consecutive numbers starts at cursor; the   *)
(* frames of the window that have arrived are pending.  Every playout tick *)
(* hands out the frame at the cursor, or reports that it is missing, and   *)
(* moves the window by one.                                                *)
(***************************************************************************)
EXTENDS Integers

CONSTANTS
  Frames,     \* the numbers of the frames that may arrive
  Depth,      \* the length of the window
  Prebuffer   \* ticks to wait after the window was (re)started

VARIABLES
  started,    \* some frame has arrived
  cursor,     \* the number of the next frame to play
  pending,    \* the frames of the window that have arrived
  wait,       \* ticks left before playout (re)starts
  out         \* what the last tick handed out

absVars == <<started, cursor, pending, wait, out>>

NoFrame == -1

\* What a tick hands out: nothing, a frame, or a hole to be concealed.
Idle      == [active |-> FALSE, received |-> FALSE, frame |-> NoFrame]
Hole      == [active |-> TRUE,  received |-> FALSE, frame |-> NoFrame]
Frame(n)  == [active |-> TRUE,  received |-> TRUE,  frame |-> n]

Init ==
  /\ started = FALSE
  /\ cursor = 0
  /\ pending = {}
  /\ wait = 0
  /\ out = Idle

\* The window is placed at frame n, which is the only one pending.
Restart(n) ==
  /\ started' = TRUE
  /\ cursor' = n
  /\ pending' = {n}
  /\ wait' = Prebuffer
  /\ UNCHANGED out

Arrive(n) ==
  \/ /\ ~started \/ n >= cursor + Depth
     /\ Restart(n)
  \/ /\ started
     /\ n \in cursor .. (cursor + Depth - 1)
     /\ pending' = pending \cup {n}
     /\ UNCHANGED <<started, cursor, wait, out>>
  \/ /\ started
     /\ n < cursor
     /\ UNCHANGED absVars

Tick ==
  \/ /\ ~started
     /\ out' = Idle
     /\ UNCHANGED <<started, cursor, pending, wait>>
  \/ /\ started
     /\ wait > 0
     /\ wait' = wait - 1
     /\ out' = Idle
     /\ UNCHANGED <<started, cursor, pending>>
  \/ /\ started
     /\ wait = 0
     /\ out' = IF cursor \in pending THEN Frame(cursor) ELSE Hole
     /\ pending' = pending \ {cursor}
     /\ cursor' = cursor + 1
     /\ UNCHANGED <<started, wait>>

Next == Tick \/ \E n \in Frames : Arrive(n)

Spec == Init /\ [][Next]_absVars
=============================================================================
