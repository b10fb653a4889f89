---------------------------- MODULE CallWorkers ----------------------------
(***************************************************************************)
(* The goroutines of one call (cmd/talk/call.go, runCall): the caller,     *)
(* three workers and the device callbacks, the channels between them and   *)
(* the way they all stop.  Queues are modelled by their lengths: what is   *)
(* in them is the business of JitterPlayout and AudioBridge.               *)
(***************************************************************************)
EXTENDS Integers, Sequences

CONSTANTS
  IncomingCap,  \* capacity of incoming (64)
  CapturedCap,  \* capacity of bridge.captured (4)
  PlaybackCap   \* capacity of bridge.playback (3)

ASSUME WorkersAssumption ==
  IncomingCap \in Nat \ {0} /\ CapturedCap \in Nat \ {0} /\ PlaybackCap \in Nat \ {0}

Workers == {"receive", "encode", "play"}

\* Mutant: room for one failure fewer than there are workers.
FailureCapShort == 2
FailureCap == 3

Causes == {"canceled", "timeout", "peerLeft", "socket", "device", "open"}
Errors == Causes \cup {"closed"}   \* "closed": use of the closed socket

VARIABLES
  main,      \* where runCall, then run, is
  at,        \* at[w]: where worker w is
  err,       \* err[w]: what work() returned
  canceled,  \* the call's context is done
  conn,      \* the socket: "open" or "closed"
  devices,   \* the audio devices: "off" or "on"
  failures,  \* the channel failures
  errors,    \* length of bridge.errors (capacity 1)
  incoming, captured, playback,  \* lengths of the three queues
  silent,    \* lastAudio is more than ten seconds ago
  result,    \* what runCall returns
  happened,  \* history: the causes to end the call that really occurred
  told       \* history: a bye was sent

queues == <<incoming, captured, playback>>
vars == <<main, at, err, canceled, conn, devices, failures, errors, queues,
          silent, result, happened, told>>

Init ==
  /\ main = "opening"
  /\ at = [w \in Workers |-> "idle"]
  /\ err = [w \in Workers |-> "none"]
  /\ canceled = FALSE
  /\ conn = "open"
  /\ devices = "off"
  /\ failures = <<>>
  /\ errors = 0
  /\ incoming = 0 /\ captured = 0 /\ playback = 0
  /\ silent = FALSE
  /\ result = "none"
  /\ happened = {}
  /\ told = FALSE
-----------------------------------------------------------------------------
(* The environment.                                                        *)

\* Ctrl+C cancels the parent context, and with it the call's.
Interrupt ==
  /\ main # "exited"
  /\ ~canceled
  /\ canceled' = TRUE
  /\ happened' = happened \cup {"canceled"}
  /\ UNCHANGED <<main, at, err, conn, devices, failures, errors, queues, silent,
                 result, told>>

\* Ten seconds pass without audio.
FallSilent ==
  /\ at["receive"] \notin {"idle", "done"}
  /\ silent' = TRUE
  /\ UNCHANGED <<main, at, err, canceled, conn, devices, failures, errors, queues,
                 result, happened, told>>

\* process: a frame is offered to captured, a frame is taken from playback.
Callback ==
  /\ devices = "on"
  /\ captured' \in {captured, IF captured < CapturedCap THEN captured + 1 ELSE captured}
  /\ playback' \in {playback, IF playback > 0 THEN playback - 1 ELSE playback}
  /\ UNCHANGED <<main, at, err, canceled, conn, devices, failures, errors, incoming,
                 silent, result, happened, told>>

\* bridge.fail: reported unless a report is already waiting.
DeviceFails ==
  /\ devices = "on"
  /\ errors' = 1
  /\ happened' = happened \cup {"device"}
  /\ UNCHANGED <<main, at, err, canceled, conn, devices, failures, queues, silent,
                 result, told>>
-----------------------------------------------------------------------------
(* The workers.                                                            *)

\* work() returns e.
Return(w, e) ==
  /\ at' = [at EXCEPT ![w] = "report"]
  /\ err' = [err EXCEPT ![w] = e]

Goto(w, l) == at' = [at EXCEPT ![w] = l] /\ UNCHANGED err

\* failures <- work(), and workers.Done.
Report(w) ==
  /\ at[w] = "report"
  /\ Len(failures) < FailureCap
  /\ failures' = Append(failures, err[w])
  /\ at' = [at EXCEPT ![w] = "done"]
  /\ UNCHANGED <<main, err, canceled, conn, devices, errors, queues, silent, result,
                 happened, told>>

\* Use of the socket by w: it goes on to l, or finds the socket closed, or
\* broken.
UseSocket(w, l) ==
  \/ /\ conn = "open"
     /\ Goto(w, l)
     /\ UNCHANGED happened
  \/ /\ conn = "closed"
     /\ Return(w, "closed")
     /\ UNCHANGED happened
  \/ /\ conn = "open"
     /\ Return(w, "socket")
     /\ happened' = happened \cup {"socket"}

\* The head of receive's loop.
ReceiveCheck ==
  /\ at["receive"] = "check"
  /\ IF canceled THEN Return("receive", "canceled") /\ UNCHANGED happened
     ELSE IF silent
     THEN Return("receive", "timeout") /\ happened' = happened \cup {"timeout"}
     ELSE Goto("receive", "read") /\ UNCHANGED happened
  /\ UNCHANGED <<main, canceled, conn, devices, failures, errors, queues, silent,
                 result, told>>

\* Nothing for this call arrives within 250 ms, or the socket fails.
ReadNothing ==
  /\ at["receive"] = "read"
  /\ UseSocket("receive", "check")
  /\ UNCHANGED <<main, canceled, conn, devices, failures, errors, queues, silent,
                 result, told>>

ReadHello ==
  /\ at["receive"] = "read"
  /\ conn = "open"
  /\ Goto("receive", "answer")
  /\ UNCHANGED <<main, canceled, conn, devices, failures, errors, queues, silent,
                 result, happened, told>>

\* The accept is sent again.
Answer ==
  /\ at["receive"] = "answer"
  /\ UseSocket("receive", "check")
  /\ UNCHANGED <<main, canceled, conn, devices, failures, errors, queues, silent,
                 result, told>>

ReadBye ==
  /\ at["receive"] = "read"
  /\ conn = "open"
  /\ Return("receive", "peerLeft")
  /\ happened' = happened \cup {"peerLeft"}
  /\ UNCHANGED <<main, canceled, conn, devices, failures, errors, queues, silent,
                 result, told>>

ReadAudio ==
  /\ at["receive"] = "read"
  /\ conn = "open"
  /\ silent' = FALSE
  /\ Goto("receive", "deliver")
  /\ UNCHANGED <<main, canceled, conn, devices, failures, errors, queues, result,
                 happened, told>>

\* Mutants: the send to incoming waits for room, and it has no limit.
DeliverWaits == incoming < IncomingCap /\ incoming' = incoming + 1

Deliver == incoming' = IF incoming < IncomingCap THEN incoming + 1 ELSE incoming

\* The datagram goes to incoming, or is dropped.
DeliverAudio ==
  /\ at["receive"] = "deliver"
  /\ Deliver
  /\ Goto("receive", "check")
  /\ UNCHANGED <<main, canceled, conn, devices, failures, errors, captured, playback,
                 silent, result, happened, told>>

\* The selects of the other two workers: the context is done.
SelectDone(w) ==
  /\ at[w] = "select"
  /\ canceled
  /\ Return(w, "canceled")
  /\ UNCHANGED <<main, canceled, conn, devices, failures, errors, queues, silent,
                 result, happened, told>>

\* A frame is taken and encoded.  Encode refuses only buffers of other sizes
\* than the mode's, and the arrays given to it have those: its error return
\* is no branch.
EncodeFrame ==
  /\ at["encode"] = "select"
  /\ captured > 0
  /\ captured' = captured - 1
  /\ Goto("encode", "send")
  /\ UNCHANGED <<main, canceled, conn, devices, failures, errors, incoming, playback,
                 silent, result, happened, told>>

SendFrame ==
  /\ at["encode"] = "send"
  /\ UseSocket("encode", "select")
  /\ UNCHANGED <<main, canceled, conn, devices, failures, errors, queues, silent,
                 result, told>>

\* A message goes to the jitter buffer.
TakeMessage ==
  /\ at["play"] = "select"
  /\ incoming > 0
  /\ incoming' = incoming - 1
  /\ UNCHANGED <<main, at, err, canceled, conn, devices, failures, errors, captured,
                 playback, silent, result, happened, told>>

\* A tick: one frame is offered to playback.
PlayFrame ==
  /\ at["play"] = "select"
  /\ playback' = IF playback < PlaybackCap THEN playback + 1 ELSE playback
  /\ UNCHANGED <<main, at, err, canceled, conn, devices, failures, errors, incoming,
                 captured, silent, result, happened, told>>
-----------------------------------------------------------------------------
(* The caller.                                                             *)

\* openAudio succeeds and the workers start.
Open ==
  /\ main = "opening"
  /\ main' = "select"
  /\ devices' = "on"
  /\ at' = [w \in Workers |-> IF w = "receive" THEN "check" ELSE "select"]
  /\ UNCHANGED <<err, canceled, conn, failures, errors, queues, silent, result,
                 happened, told>>

\* openAudio fails: the peer is told, and runCall returns.
OpenFails ==
  /\ main = "opening"
  /\ main' = "returned"
  /\ result' = "open"
  /\ happened' = happened \cup {"open"}
  /\ told' = TRUE
  /\ UNCHANGED <<at, err, canceled, conn, devices, failures, errors, queues, silent>>

\* The select that ends the call.
Select ==
  /\ main = "select"
  /\ main' = "cancel"
  /\ \/ canceled /\ result' = "canceled" /\ UNCHANGED <<failures, errors>>
     \/ /\ failures # <<>>
        /\ result' = Head(failures)
        /\ failures' = Tail(failures)
        /\ UNCHANGED errors
     \/ errors = 1 /\ result' = "device" /\ errors' = 0 /\ UNCHANGED failures
  /\ UNCHANGED <<at, err, canceled, conn, devices, queues, silent, happened, told>>

\* Mutant: cancelling closes the socket.
CancelAndClose ==
  /\ main = "cancel"
  /\ main' = "bye"
  /\ canceled' = TRUE
  /\ conn' = "closed"
  /\ UNCHANGED <<at, err, devices, failures, errors, queues, silent, result, happened, told>>

Cancel ==
  /\ main = "cancel"
  /\ main' = "bye"
  /\ canceled' = TRUE
  /\ UNCHANGED <<at, err, conn, devices, failures, errors, queues, silent, result,
                 happened, told>>

SendBye ==
  /\ main = "bye"
  /\ main' = "close"
  /\ told' = TRUE
  /\ UNCHANGED <<at, err, canceled, conn, devices, failures, errors, queues, silent,
                 result, happened>>

Close ==
  /\ main = "close"
  /\ main' = "wait"
  /\ conn' = "closed"
  /\ UNCHANGED <<at, err, canceled, devices, failures, errors, queues, silent, result,
                 happened, told>>

\* Mutants: the caller does not wait; it prefers what a worker says last.
WaitNot ==
  /\ main = "wait"
  /\ main' = "stop"
  /\ UNCHANGED <<at, err, canceled, conn, devices, failures, errors, queues, silent,
                 result, happened, told>>
WaitAndAsk ==
  /\ main = "wait"
  /\ \A w \in Workers : at[w] = "done"
  /\ main' = "stop"
  /\ result' = IF failures = <<>> THEN result ELSE Head(failures)
  /\ UNCHANGED <<at, err, canceled, conn, devices, failures, errors, queues, silent,
                 happened, told>>

Wait ==
  /\ main = "wait"
  /\ \A w \in Workers : at[w] = "done"
  /\ main' = "stop"
  /\ UNCHANGED <<at, err, canceled, conn, devices, failures, errors, queues, silent,
                 result, happened, told>>

\* The deferred stopAudio.
StopAudio ==
  /\ main = "stop"
  /\ main' = "returned"
  /\ devices' = "off"
  /\ UNCHANGED <<at, err, canceled, conn, failures, errors, queues, silent, result,
                 happened, told>>

\* run returns: its deferred Close.
Exit ==
  /\ main = "returned"
  /\ main' = "exited"
  /\ conn' = "closed"
  /\ UNCHANGED <<at, err, canceled, devices, failures, errors, queues, silent, result,
                 happened, told>>

Exited == main = "exited" /\ UNCHANGED vars

Caller ==
  \/ Open \/ OpenFails \/ Select \/ Cancel \/ SendBye \/ Close \/ Wait \/ StopAudio
  \/ Exit
ReceiveStep ==
  \/ ReceiveCheck \/ ReadNothing \/ ReadHello \/ Answer \/ ReadBye \/ ReadAudio
  \/ DeliverAudio

Next ==
  \/ Interrupt \/ FallSilent \/ Callback \/ DeviceFails
  \/ Caller
  \/ ReceiveStep
  \/ EncodeFrame \/ SendFrame \/ TakeMessage \/ PlayFrame
  \/ \E w \in Workers : Report(w) \/ SelectDone(w)
  \/ Exited

Spec == Init /\ [][Next]_vars

\* Every goroutine runs.  A select that finds several cases ready chooses at
\* random, so a case that is ready again and again is chosen.
FairSpec ==
  /\ Spec
  /\ WF_vars(Caller) /\ WF_vars(ReceiveStep) /\ WF_vars(SendFrame)
  /\ \A w \in Workers : WF_vars(Report(w)) /\ SF_vars(SelectDone(w))
-----------------------------------------------------------------------------
\* No queue of the call outgrows its channel.
TypeOK ==
  /\ main \in {"opening", "select", "cancel", "bye", "close", "wait", "stop",
               "returned", "exited"}
  /\ at \in [Workers -> {"idle", "check", "read", "answer", "deliver", "select",
                         "send", "report", "done"}]
  /\ err \in [Workers -> Errors \cup {"none"}]
  /\ canceled \in BOOLEAN
  /\ conn \in {"open", "closed"}
  /\ devices \in {"off", "on"}
  /\ failures \in Seq(Errors)
  /\ errors \in 0 .. 1
  /\ incoming \in 0 .. IncomingCap
  /\ captured \in 0 .. CapturedCap
  /\ playback \in 0 .. PlaybackCap
  /\ silent \in BOOLEAN
  /\ result \in Errors \cup {"none"}
  /\ happened \subseteq Causes
  /\ told \in BOOLEAN

\* What runCall returns is something that happened to the call: neither the
\* cancellation nor the closed socket with which it stops its own workers is
\* taken for the user's interrupt or for a failure (main prints "Call ended."
\* or an error accordingly).
HonestResult == result # "none" => result \in happened

\* The socket is not closed before the peer was told that the call ends
\* (runCall, the order of its last steps).
PeerTold == conn = "closed" => told

\* When runCall has returned no goroutine of the call is left, and nothing
\* calls back into its bridge (runCall: workers.Wait, stopAudio).
NothingLeft ==
  main \in {"returned", "exited"} =>
    devices = "off" /\ \A w \in Workers : at[w] \in {"idle", "done"}

\* A worker that ends finds room in failures, although the caller reads one
\* failure at most.
NeverBlocked == \A w \in Workers : at[w] = "report" => Len(failures) < FailureCap

\* An interrupt, a failing device or the end of a worker ends the call,
\* wherever its goroutines are at that moment.
CallEnds ==
  (canceled \/ errors = 1 \/ \E w \in Workers : at[w] = "report") ~> main = "exited"
=============================================================================
