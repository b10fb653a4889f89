------------------------------ MODULE WaveLoop ------------------------------
(***************************************************************************)
(* The WinMM backend (cmd/talk/audio_windows.go): opening the two devices  *)
(* with their rings of buffers, the goroutine that serves both of them,    *)
(* and the ways it ends.  The driver is external: it returns buffers in    *)
(* the order it got them, sets a buffer's done flag first and the device's *)
(* event afterwards, and neither unprepares a buffer it works on nor       *)
(* closes a device that has such buffers.  It may refuse every other call  *)
(* too.  Events reset themselves when a wait returns.                      *)
(***************************************************************************)
EXTENDS Integers, Sequences, SequencesExt

CONSTANT BufferCount   \* buffers of a device (3)

ASSUME WaveAssumption == BufferCount \in Nat \ {0}

Devices == {"in", "out"}
Buffers == 0 .. (BufferCount - 1)

VARIABLES
  loop,      \* where startAudio, and then its goroutine, is: at, the device
             \* and buffer it is busy with, the devices it has still to close
  dev,       \* each device: handle ("closed" once Close was called, whatever
             \* the answer), memory that may not move, headers the driver has
             \* prepared, waveDevice.next, buffers the driver works on, buffers
             \* with WHDR_DONE (oldest first), whether it runs, whether it is
             \* about to set its event, calls of waveDevice.close it refused
  signalled, \* events that are set
  caller,    \* where the owner of the stop function is
  events,    \* the event handles: "none", "open" or "closed"
  reported   \* bridge.fail was called

vars == <<loop, dev, signalled, caller, events, reported>>

NewDevice(d) ==
  [handle |-> "none", pinned |-> {}, prepared |-> {}, next |-> 0, queue |-> <<>>,
   done |-> <<>>, runs |-> d = "out", due |-> FALSE, refused |-> {}]

Init ==
  /\ loop = [at |-> "events", device |-> "in", i |-> 0, toClose |-> <<>>]
  /\ dev = [d \in Devices |-> NewDevice(d)]
  /\ signalled = {} /\ caller = "starting" /\ events = "none" /\ reported = FALSE

this == dev[loop.device]
Goto(l, d, n)  == loop' = [loop EXCEPT !.at = l, !.device = d, !.i = n]
Close(devices) == loop' = [loop EXCEPT !.at = "closing", !.toClose = devices]
-----------------------------------------------------------------------------
\* A buffer is full, or was played.
Complete(d) ==
  /\ dev[d].queue # <<>> /\ dev[d].runs
  /\ dev' = [dev EXCEPT ![d].queue = Tail(@), ![d].due = TRUE,
                        ![d].done = Append(@, Head(dev[d].queue))]
  /\ UNCHANGED <<loop, signalled, caller, events, reported>>

Signal(d) ==
  /\ dev[d].due
  /\ dev' = [dev EXCEPT ![d].due = FALSE]
  /\ signalled' = signalled \cup {d}
  /\ UNCHANGED <<loop, caller, events, reported>>
-----------------------------------------------------------------------------
(* Opening.  Every call may fail.                                          *)

\* Mutant: the input device is forgotten when the output does not open.
UndoOwn(own) == IF own THEN <<loop.device>> ELSE <<>>
\* openWave closes its own device, startAudio the one opened before.
Undo(own) == (IF own THEN <<loop.device>> ELSE <<>>)
             \o (IF loop.device = "out" THEN <<"in">> ELSE <<>>)

\* The three events, one by one; closeEvents takes those there are.
CreateEvent ==
  /\ loop.at = "events"
  /\ \/ /\ events' = "open"
        /\ IF loop.i < 2 THEN Goto("events", "in", loop.i + 1) ELSE Goto("open", "in", 0)
     \/ Close(<<>>) /\ UNCHANGED events
  /\ UNCHANGED <<dev, signalled, caller, reported>>

\* The driver sets the event of a device that opens.
OpenHandle ==
  /\ loop.at = "open"
  /\ \/ /\ dev' = [dev EXCEPT ![loop.device].handle = "open", ![loop.device].due = TRUE]
        /\ Goto("prepare", loop.device, 0)
     \/ Close(Undo(FALSE)) /\ UNCHANGED dev
  /\ UNCHANGED <<signalled, caller, events, reported>>

Prepare ==
  /\ loop.at = "prepare"
  /\ \/ /\ dev' = [dev EXCEPT ![loop.device].pinned = @ \cup {loop.i},
                              ![loop.device].prepared = @ \cup {loop.i}]
        /\ Goto("submit", loop.device, loop.i)
     \/ /\ dev' = [dev EXCEPT ![loop.device].pinned = @ \cup {loop.i}]
        /\ Close(Undo(TRUE))
  /\ UNCHANGED <<signalled, caller, events, reported>>

\* The last buffer of the output device makes startAudio return.
Submit ==
  /\ loop.at = "submit"
  /\ \/ /\ dev' = [dev EXCEPT ![loop.device].queue = Append(@, loop.i)]
        /\ IF loop.i + 1 < BufferCount
           THEN Goto("prepare", loop.device, loop.i + 1) /\ UNCHANGED caller
           ELSE IF loop.device = "in" THEN Goto("start", "in", 0) /\ UNCHANGED caller
           ELSE Goto("wait", "out", 0) /\ caller' = "running"
     \/ Close(Undo(TRUE)) /\ UNCHANGED <<dev, caller>>
  /\ UNCHANGED <<signalled, events, reported>>

StartInput ==
  /\ loop.at = "start"
  /\ \/ dev' = [dev EXCEPT !["in"].runs = TRUE] /\ Goto("open", "out", 0)
     \/ Close(Undo(TRUE)) /\ UNCHANGED dev
  /\ UNCHANGED <<signalled, caller, events, reported>>
-----------------------------------------------------------------------------
(* waveDevice.close for each device of toClose.  It looks at no answer.    *)

Closing == Head(loop.toClose)

\* Mutant: the memory is unpinned before the driver gives it back.
ResetUnpinned ==
  /\ loop.at = "closing" /\ loop.toClose # <<>>
  /\ loop' = [loop EXCEPT !.at = "release"]
  /\ \/ dev' = [dev EXCEPT ![Closing].queue = <<>>, ![Closing].due = TRUE,
                           ![Closing].done = @ \o dev[Closing].queue, ![Closing].pinned = {}]
     \/ dev' = [dev EXCEPT ![Closing].refused = @ \cup {"Reset"}, ![Closing].pinned = {}]
  /\ UNCHANGED <<signalled, caller, events, reported>>
\* Reset makes the driver return all buffers, done or not, or is refused.
Reset ==
  /\ loop.at = "closing" /\ loop.toClose # <<>>
  /\ loop' = [loop EXCEPT !.at = "release"]
  /\ \/ dev' = [dev EXCEPT ![Closing].queue = <<>>, ![Closing].due = TRUE,
                           ![Closing].done = @ \o dev[Closing].queue]
     \/ dev' = [dev EXCEPT ![Closing].refused = @ \cup {"Reset"}]
  /\ UNCHANGED <<signalled, caller, events, reported>>

\* A device the program has given up and dropped with its ring and flags, of
\* which the driver keeps the headers in kept.  Buffers it still works on stay
\* with it: nobody looks at them again.
GivenUp(r, kept) ==
  [r EXCEPT !.handle = "closed", !.pinned = {}, !.prepared = kept,
            !.next = 0, !.done = <<>>, !.runs = FALSE,
            !.refused = @ \cup (IF kept = {} THEN {} ELSE {"Unprepare"})]

\* UnprepareHeader for every prepared header, which the driver grants for all
\* buffers it does not work on or for none, Close and Unpin.  A device the
\* driver closed sets no event any more.
Release ==
  /\ loop.at = "release"
  /\ loop' = [loop EXCEPT !.at = "closing", !.toClose = Tail(@)]
  /\ \E kept \in {ToSet(dev[Closing].queue), dev[Closing].prepared} :
       LET r == GivenUp(dev[Closing], kept)
       IN  \/ /\ r.queue = <<>>
              /\ dev' = [dev EXCEPT ![Closing] = [r EXCEPT !.due = FALSE]]
           \/ dev' = [dev EXCEPT ![Closing] = [r EXCEPT !.refused = @ \cup {"Close"}]]
  /\ UNCHANGED <<signalled, caller, events, reported>>

\* startAudio returns its error, or the goroutine ends (close(done)).
Finish ==
  /\ loop.at = "closing" /\ loop.toClose = <<>>
  /\ loop' = [loop EXCEPT !.at = "over"]
  /\ IF caller = "starting" THEN events' = "closed" /\ caller' = "refused"
     ELSE UNCHANGED <<events, caller>>
  /\ UNCHANGED <<dev, signalled, reported>>
-----------------------------------------------------------------------------
(* The goroutine.                                                          *)

\* WaitForMultipleObjects takes the event with the lowest index.
Lowest == IF "in" \in signalled THEN "in" ELSE IF "out" \in signalled THEN "out" ELSE "stop"

Wake(event) ==
  /\ loop.at = "wait" /\ event \in signalled /\ event = Lowest
  /\ signalled' = signalled \ {event}
  /\ IF event = "stop" THEN Close(<<"out", "in">>) ELSE Goto("drain", "in", 0)
  /\ UNCHANGED <<dev, caller, events, reported>>

\* The wait itself fails: bridge.fail.
WaitFails ==
  /\ loop.at = "wait"
  /\ reported' = TRUE
  /\ Close(<<"out", "in">>)
  /\ UNCHANGED <<dev, signalled, caller, events>>

\* Mutant: the break leaves both loops.
NextDeviceNone == Goto("wait", loop.device, 0)
\* The inner loop ends.
NextDevice == IF loop.device = "in" THEN Goto("drain", "out", 0) ELSE Goto("wait", "out", 0)

Drain ==
  /\ loop.at = "drain"
  /\ IF loop.i < BufferCount /\ Contains(this.done, this.next)
     THEN Goto("resubmit", loop.device, loop.i) ELSE NextDevice
  /\ UNCHANGED <<dev, signalled, caller, events, reported>>

\* Mutant: the last buffer of the ring is skipped.
AdvanceShort(b) == (b + 1) % (BufferCount - 1)
Advance(b) == (b + 1) % BufferCount

\* The buffer went through process and goes back to the driver, which clears
\* its flag, unless the driver refuses it: bridge.fail.
Resubmit ==
  LET d == loop.device b == this.next
  IN  /\ loop.at = "resubmit"
      /\ \/ /\ \E k \in DOMAIN this.done :
                /\ this.done[k] = b
                /\ dev' = [dev EXCEPT ![d].done = RemoveAt(@, k), ![d].queue = Append(@, b),
                                      ![d].next = Advance(b)]
            /\ Goto("drain", d, loop.i + 1)
            /\ UNCHANGED reported
         \/ reported' = TRUE /\ Close(<<"out", "in">>) /\ UNCHANGED dev
      /\ UNCHANGED <<signalled, caller, events>>
-----------------------------------------------------------------------------
(* The function startAudio returns.                                        *)

RequestStop ==
  /\ caller = "running" /\ caller' = "stopping"
  /\ signalled' = signalled \cup {"stop"}
  /\ UNCHANGED <<loop, dev, events, reported>>

Stopped ==
  /\ caller = "stopping" /\ loop.at = "over"
  /\ caller' = "stopped" /\ events' = "closed"
  /\ UNCHANGED <<loop, dev, signalled, reported>>

Opening == CreateEvent \/ OpenHandle \/ Prepare \/ Submit \/ StartInput
Ending  == Reset \/ Release \/ Finish
Serving == (\E e \in Devices \cup {"stop"} : Wake(e)) \/ Drain \/ Resubmit

Next ==
  \/ \E d \in Devices : Complete(d) \/ Signal(d)
  \/ Opening \/ Ending \/ Serving \/ WaitFails
  \/ RequestStop \/ Stopped

Spec == Init /\ [][Next]_vars

\* The goroutine runs, and the driver sets the events it owes.  It owes no
\* buffer.
FairSpec ==
  /\ Spec
  /\ WF_vars(Opening) /\ WF_vars(Ending) /\ WF_vars(Serving) /\ WF_vars(Stopped)
  /\ \A d \in Devices : WF_vars(Signal(d))
-----------------------------------------------------------------------------
\* The buffers are handled in the order the driver recorded or played them:
\* whatever the ring's index and the order of flags, events and wakeups, next
\* is the oldest buffer (audio_windows.go, waveDevice.next).
RingInTurn == loop.at \in {"wait", "drain", "resubmit"} =>
  \A d \in Devices :
    LET all == dev[d].done \o dev[d].queue
    IN  /\ Len(all) = BufferCount
        /\ \A k \in 1 .. Len(all) : all[k] = (dev[d].next + k - 1) % BufferCount

\* On every path, also when the second device does not open or the driver
\* refuses calls of close, Close is called for each device that was opened,
\* once, before the events are closed, its memory is unpinned, and an end
\* nobody asked for is reported (audio_windows.go, openWave, startAudio).
CleanEnd ==
  /\ loop.at = "closing" => \A k \in 1 .. Len(loop.toClose) : dev[loop.toClose[k]].handle = "open"
  /\ loop.at = "over" =>
       /\ \A d \in Devices : dev[d].handle # "open" /\ dev[d].pinned = {}
       /\ caller \in {"refused", "stopping", "stopped"} \/ reported
  /\ caller \in {"refused", "stopped"} => loop.at = "over" /\ events # "open"

\* The driver works in memory that may move only if it refused both Reset and
\* Close, whose answers the program does not look at; it keeps the address of
\* such memory only if it refused UnprepareHeader (audio_windows.go: "WinMM
\* retains these addresses until Reset/UnprepareHeader completes"); and it
\* works for a device given up, or with its event gone, only if it refused
\* Close.
HeldIsPinned ==
  \A d \in Devices :
    /\ ToSet(dev[d].queue) \subseteq dev[d].pinned \/ {"Reset", "Close"} \subseteq dev[d].refused
    /\ dev[d].prepared \subseteq dev[d].pinned \/ "Unprepare" \in dev[d].refused
    /\ dev[d].queue # <<>> \/ dev[d].due =>
         (dev[d].handle = "open" /\ events = "open") \/ "Close" \in dev[d].refused

\* No wakeup is lost: a buffer the driver returned goes back to it, unless the
\* loop ends.  One event may stand for several buffers of either device.
BuffersReturn ==
  \A d \in Devices, b \in Buffers :
    Contains(dev[d].done, b) ~> ~Contains(dev[d].done, b)
=============================================================================
