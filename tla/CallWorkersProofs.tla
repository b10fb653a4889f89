------------------------- MODULE CallWorkersProofs -------------------------
(***************************************************************************)
(* Proofs about CallWorkers, for every capacity of its three queues.       *)
(***************************************************************************)
EXTENDS CallWorkers, SequenceTheorems, TLAPS

\* runCall has not chosen a reason to end yet.
Running == main \in {"opening", "select"}

\* Until then every reason in sight is a real one: nobody but the user has
\* cancelled, and no worker has been stopped by runCall itself.
ReasonsInv ==
  /\ Running =>
       /\ result = "none"
       /\ conn = "open"
       /\ canceled => "canceled" \in happened
       /\ \A w \in Workers : at[w] \in {"report", "done"} => err[w] \in happened
       /\ \A i \in 1 .. Len(failures) : failures[i] \in happened
  /\ errors = 1 => "device" \in happened
  /\ HonestResult

\* What the caller has done when it is at each of its last steps.
OrderInv ==
  /\ main \in {"wait", "stop", "returned", "exited"} \/ conn = "open"
  /\ main \in {"close", "wait", "stop", "returned", "exited"} => told
  /\ main = "opening" => \A w \in Workers : at[w] = "idle"
  /\ main \in {"stop", "returned", "exited"} =>
       \A w \in Workers : at[w] \in {"idle", "done"}
  /\ main \in {"opening", "returned", "exited"} => devices = "off"

\* One report per finished worker at most.
Finished(w) == IF at[w] = "done" THEN 1 ELSE 0
RoomInv ==
  /\ \A w \in Workers : at[w] = "report" => err[w] # "none"
  /\ Len(failures) <= Finished("receive") + Finished("encode") + Finished("play")

IInv == TypeOK /\ ReasonsInv /\ OrderInv /\ RoomInv
-----------------------------------------------------------------------------
\* Before anything starts there is nothing to explain.
LEMMA Initially == Init => IInv
<1> SUFFICES ASSUME Init PROVE IInv
  OBVIOUS
<1> USE DEF Workers, Causes, Errors
<1>1. failures \in Seq(Errors) /\ Len(failures) = 0
  BY DEF Init
<1>2. at \in [Workers -> {"idle"}] /\ err \in [Workers -> {"none"}]
  BY DEF Init
<1>3. TypeOK
  <2>1. at \in [Workers -> {"idle", "check", "read", "answer", "deliver",
                           "select", "send", "report", "done"}]
    BY <1>2
  <2>2. err \in [Workers -> Errors \cup {"none"}]
    BY <1>2
  <2>3. incoming \in 0 .. IncomingCap /\ captured \in 0 .. CapturedCap
        /\ playback \in 0 .. PlaybackCap /\ errors \in 0 .. 1
    BY WorkersAssumption DEF Init
  <2>4. canceled \in BOOLEAN /\ silent \in BOOLEAN /\ told \in BOOLEAN
    BY DEF Init
  <2> QED
    BY <1>1, <2>1, <2>2, <2>3, <2>4 DEF Init, TypeOK
<1>4. ReasonsInv
  BY <1>1, <1>2 DEF Init, ReasonsInv, HonestResult
<1>5. OrderInv
  BY <1>2 DEF Init, OrderInv
<1>6. RoomInv
  BY <1>1, <1>2 DEF Init, RoomInv, Finished
<1> QED
  BY <1>3, <1>4, <1>5, <1>6 DEF IInv

\* The user, the clock and the devices.
LEMMA EnvironmentKeeps ==
  ASSUME IInv, Interrupt \/ FallSilent \/ Callback \/ DeviceFails
  PROVE  IInv'
<1> USE DEF IInv, Workers, Causes, Errors, queues
<1>1. CASE Interrupt
  <2>1. TypeOK'
    BY <1>1, WorkersAssumption DEF TypeOK, Interrupt
  <2>2. ReasonsInv'
    BY <1>1 DEF TypeOK, ReasonsInv, Running, HonestResult, OrderInv, RoomInv, Interrupt
  <2>3. OrderInv'
    BY <1>1 DEF TypeOK, OrderInv, Interrupt
  <2>4. RoomInv'
    BY <1>1 DEF TypeOK, RoomInv, Finished, Interrupt
  <2> QED
    BY <2>1, <2>2, <2>3, <2>4 DEF IInv
<1>2. CASE FallSilent
  <2>1. TypeOK'
    BY <1>2, WorkersAssumption DEF TypeOK, FallSilent
  <2>2. ReasonsInv'
    BY <1>2 DEF TypeOK, ReasonsInv, Running, HonestResult, OrderInv, RoomInv, FallSilent
  <2>3. OrderInv'
    BY <1>2 DEF TypeOK, OrderInv, FallSilent
  <2>4. RoomInv'
    BY <1>2 DEF TypeOK, RoomInv, Finished, FallSilent
  <2> QED
    BY <2>1, <2>2, <2>3, <2>4 DEF IInv
<1>3. CASE Callback
  <2>1. TypeOK'
    BY <1>3, WorkersAssumption DEF TypeOK, Callback
  <2>2. ReasonsInv'
    BY <1>3 DEF TypeOK, ReasonsInv, Running, HonestResult, OrderInv, RoomInv, Callback
  <2>3. OrderInv'
    BY <1>3 DEF TypeOK, OrderInv, Callback
  <2>4. RoomInv'
    BY <1>3 DEF TypeOK, RoomInv, Finished, Callback
  <2> QED
    BY <2>1, <2>2, <2>3, <2>4 DEF IInv
<1>4. CASE DeviceFails
  <2>1. TypeOK'
    BY <1>4, WorkersAssumption DEF TypeOK, DeviceFails
  <2>2. ReasonsInv'
    BY <1>4 DEF TypeOK, ReasonsInv, Running, HonestResult, OrderInv, RoomInv, DeviceFails
  <2>3. OrderInv'
    BY <1>4 DEF TypeOK, OrderInv, DeviceFails
  <2>4. RoomInv'
    BY <1>4 DEF TypeOK, RoomInv, Finished, DeviceFails
  <2> QED
    BY <2>1, <2>2, <2>3, <2>4 DEF IInv
<1> QED
  BY <1>1, <1>2, <1>3, <1>4

\* The receiving goroutine.
LEMMA ReceiverKeeps ==
  ASSUME IInv, ReceiveStep
  PROVE  IInv'
<1> USE DEF IInv, Workers, Causes, Errors, queues
<1>1. CASE ReceiveCheck
  <2>1. TypeOK'
    <3>1. at' \in [Workers -> {"idle", "check", "read", "answer", "deliver",
                              "select", "send", "report", "done"}]
      BY <1>1 DEF TypeOK, ReceiveCheck, Return, Goto
    <3>2. err' \in [Workers -> Errors \cup {"none"}]
      BY <1>1 DEF TypeOK, ReceiveCheck, Return, Goto
    <3>3. happened' \subseteq Causes
      BY <1>1 DEF TypeOK, ReceiveCheck, Return, Goto
    <3> QED
      BY <1>1, <3>1, <3>2, <3>3 DEF TypeOK, ReceiveCheck
  <2>2. ReasonsInv'
    BY <1>1 DEF TypeOK, ReasonsInv, Running, HonestResult, OrderInv, RoomInv, ReceiveCheck, Return, Goto
  <2>3. OrderInv'
    BY <1>1 DEF TypeOK, OrderInv, ReceiveCheck, Return, Goto
  <2>4. RoomInv'
    BY <1>1 DEF TypeOK, RoomInv, Finished, ReceiveCheck, Return, Goto
  <2> QED
    BY <2>1, <2>2, <2>3, <2>4 DEF IInv
<1>2. CASE ReadNothing
  <2>1. TypeOK'
    <3>1. at' \in [Workers -> {"idle", "check", "read", "answer", "deliver",
                              "select", "send", "report", "done"}]
      BY <1>2 DEF TypeOK, ReadNothing, UseSocket, Return, Goto
    <3>2. err' \in [Workers -> Errors \cup {"none"}]
      BY <1>2 DEF TypeOK, ReadNothing, UseSocket, Return, Goto
    <3>3. happened' \subseteq Causes
      BY <1>2 DEF TypeOK, ReadNothing, UseSocket, Return, Goto
    <3> QED
      BY <1>2, <3>1, <3>2, <3>3 DEF TypeOK, ReadNothing
  <2>2. ReasonsInv'
    BY <1>2 DEF TypeOK, ReasonsInv, Running, HonestResult, OrderInv, RoomInv, ReadNothing, UseSocket, Return, Goto
  <2>3. OrderInv'
    BY <1>2 DEF TypeOK, OrderInv, ReadNothing, UseSocket, Return, Goto
  <2>4. RoomInv'
    BY <1>2 DEF TypeOK, RoomInv, Finished, ReadNothing, UseSocket, Return, Goto
  <2> QED
    BY <2>1, <2>2, <2>3, <2>4 DEF IInv
<1>3. CASE ReadHello
  <2>1. TypeOK'
    BY <1>3, WorkersAssumption DEF TypeOK, ReadHello, Goto
  <2>2. ReasonsInv'
    BY <1>3 DEF TypeOK, ReasonsInv, Running, HonestResult, OrderInv, RoomInv, ReadHello, Goto
  <2>3. OrderInv'
    BY <1>3 DEF TypeOK, OrderInv, ReadHello, Goto
  <2>4. RoomInv'
    BY <1>3 DEF TypeOK, RoomInv, Finished, ReadHello, Goto
  <2> QED
    BY <2>1, <2>2, <2>3, <2>4 DEF IInv
<1>4. CASE Answer
  <2>1. TypeOK'
    <3>1. at' \in [Workers -> {"idle", "check", "read", "answer", "deliver",
                              "select", "send", "report", "done"}]
      BY <1>4 DEF TypeOK, Answer, UseSocket, Return, Goto
    <3>2. err' \in [Workers -> Errors \cup {"none"}]
      BY <1>4 DEF TypeOK, Answer, UseSocket, Return, Goto
    <3>3. happened' \subseteq Causes
      BY <1>4 DEF TypeOK, Answer, UseSocket, Return, Goto
    <3> QED
      BY <1>4, <3>1, <3>2, <3>3 DEF TypeOK, Answer
  <2>2. ReasonsInv'
    BY <1>4 DEF TypeOK, ReasonsInv, Running, HonestResult, OrderInv, RoomInv, Answer, UseSocket, Return, Goto
  <2>3. OrderInv'
    BY <1>4 DEF TypeOK, OrderInv, Answer, UseSocket, Return, Goto
  <2>4. RoomInv'
    BY <1>4 DEF TypeOK, RoomInv, Finished, Answer, UseSocket, Return, Goto
  <2> QED
    BY <2>1, <2>2, <2>3, <2>4 DEF IInv
<1>5. CASE ReadBye
  <2>1. TypeOK'
    BY <1>5, WorkersAssumption DEF TypeOK, ReadBye, Return
  <2>2. ReasonsInv'
    BY <1>5 DEF TypeOK, ReasonsInv, Running, HonestResult, OrderInv, RoomInv, ReadBye, Return
  <2>3. OrderInv'
    BY <1>5 DEF TypeOK, OrderInv, ReadBye, Return
  <2>4. RoomInv'
    BY <1>5 DEF TypeOK, RoomInv, Finished, ReadBye, Return
  <2> QED
    BY <2>1, <2>2, <2>3, <2>4 DEF IInv
<1>6. CASE ReadAudio
  <2>1. TypeOK'
    BY <1>6, WorkersAssumption DEF TypeOK, ReadAudio, Goto
  <2>2. ReasonsInv'
    BY <1>6 DEF TypeOK, ReasonsInv, Running, HonestResult, OrderInv, RoomInv, ReadAudio, Goto
  <2>3. OrderInv'
    BY <1>6 DEF TypeOK, OrderInv, ReadAudio, Goto
  <2>4. RoomInv'
    BY <1>6 DEF TypeOK, RoomInv, Finished, ReadAudio, Goto
  <2> QED
    BY <2>1, <2>2, <2>3, <2>4 DEF IInv
<1>7. CASE DeliverAudio
  <2>1. TypeOK'
    BY <1>7, WorkersAssumption DEF TypeOK, DeliverAudio, Deliver, Goto
  <2>2. ReasonsInv'
    BY <1>7 DEF TypeOK, ReasonsInv, Running, HonestResult, OrderInv, RoomInv, DeliverAudio, Deliver, Goto
  <2>3. OrderInv'
    BY <1>7 DEF TypeOK, OrderInv, DeliverAudio, Deliver, Goto
  <2>4. RoomInv'
    BY <1>7 DEF TypeOK, RoomInv, Finished, DeliverAudio, Deliver, Goto
  <2> QED
    BY <2>1, <2>2, <2>3, <2>4 DEF IInv
<1> QED
  BY <1>1, <1>2, <1>3, <1>4, <1>5, <1>6, <1>7 DEF ReceiveStep

\* The encoding and the playout goroutine.
LEMMA OthersKeep ==
  ASSUME IInv, EncodeFrame \/ SendFrame \/ TakeMessage \/ PlayFrame
  PROVE  IInv'
<1> USE DEF IInv, Workers, Causes, Errors, queues
<1>1. CASE EncodeFrame
  <2>1. TypeOK'
    BY <1>1, WorkersAssumption DEF TypeOK, EncodeFrame, Goto
  <2>2. ReasonsInv'
    BY <1>1 DEF TypeOK, ReasonsInv, Running, HonestResult, OrderInv, RoomInv, EncodeFrame, Goto
  <2>3. OrderInv'
    BY <1>1 DEF TypeOK, OrderInv, EncodeFrame, Goto
  <2>4. RoomInv'
    BY <1>1 DEF TypeOK, RoomInv, Finished, EncodeFrame, Goto
  <2> QED
    BY <2>1, <2>2, <2>3, <2>4 DEF IInv
<1>2. CASE SendFrame
  <2>1. TypeOK'
    <3>1. at' \in [Workers -> {"idle", "check", "read", "answer", "deliver",
                              "select", "send", "report", "done"}]
      BY <1>2 DEF TypeOK, SendFrame, UseSocket, Return, Goto
    <3>2. err' \in [Workers -> Errors \cup {"none"}]
      BY <1>2 DEF TypeOK, SendFrame, UseSocket, Return, Goto
    <3>3. happened' \subseteq Causes
      BY <1>2 DEF TypeOK, SendFrame, UseSocket, Return, Goto
    <3> QED
      BY <1>2, <3>1, <3>2, <3>3 DEF TypeOK, SendFrame
  <2>2. ReasonsInv'
    BY <1>2 DEF TypeOK, ReasonsInv, Running, HonestResult, OrderInv, RoomInv, SendFrame, UseSocket, Return, Goto
  <2>3. OrderInv'
    BY <1>2 DEF TypeOK, OrderInv, SendFrame, UseSocket, Return, Goto
  <2>4. RoomInv'
    BY <1>2 DEF TypeOK, RoomInv, Finished, SendFrame, UseSocket, Return, Goto
  <2> QED
    BY <2>1, <2>2, <2>3, <2>4 DEF IInv
<1>3. CASE TakeMessage
  <2>1. TypeOK'
    BY <1>3, WorkersAssumption DEF TypeOK, TakeMessage
  <2>2. ReasonsInv'
    BY <1>3 DEF TypeOK, ReasonsInv, Running, HonestResult, OrderInv, RoomInv, TakeMessage
  <2>3. OrderInv'
    BY <1>3 DEF TypeOK, OrderInv, TakeMessage
  <2>4. RoomInv'
    BY <1>3 DEF TypeOK, RoomInv, Finished, TakeMessage
  <2> QED
    BY <2>1, <2>2, <2>3, <2>4 DEF IInv
<1>4. CASE PlayFrame
  <2>1. TypeOK'
    BY <1>4, WorkersAssumption DEF TypeOK, PlayFrame
  <2>2. ReasonsInv'
    BY <1>4 DEF TypeOK, ReasonsInv, Running, HonestResult, OrderInv, RoomInv, PlayFrame
  <2>3. OrderInv'
    BY <1>4 DEF TypeOK, OrderInv, PlayFrame
  <2>4. RoomInv'
    BY <1>4 DEF TypeOK, RoomInv, Finished, PlayFrame
  <2> QED
    BY <2>1, <2>2, <2>3, <2>4 DEF IInv
<1> QED
  BY <1>1, <1>2, <1>3, <1>4

\* The caller.
LEMMA CallerKeeps ==
  ASSUME IInv, Caller
  PROVE  IInv'
<1> USE DEF IInv, Workers, Causes, Errors, queues
<1>1. CASE Open
  <2>1. TypeOK'
    BY <1>1, WorkersAssumption DEF TypeOK, Open
  <2>2. ReasonsInv'
    BY <1>1 DEF TypeOK, ReasonsInv, Running, HonestResult, OrderInv, RoomInv, Open
  <2>3. OrderInv'
    BY <1>1 DEF TypeOK, OrderInv, Open
  <2>4. RoomInv'
    BY <1>1 DEF TypeOK, OrderInv, RoomInv, Finished, Open
  <2> QED
    BY <2>1, <2>2, <2>3, <2>4 DEF IInv
<1>2. CASE OpenFails
  <2>1. TypeOK'
    BY <1>2, WorkersAssumption DEF TypeOK, OpenFails
  <2>2. ReasonsInv'
    BY <1>2 DEF TypeOK, ReasonsInv, Running, HonestResult, OrderInv, RoomInv, OpenFails
  <2>3. OrderInv'
    BY <1>2 DEF TypeOK, OrderInv, OpenFails
  <2>4. RoomInv'
    BY <1>2 DEF TypeOK, RoomInv, Finished, OpenFails
  <2> QED
    BY <2>1, <2>2, <2>3, <2>4 DEF IInv
<1>3. CASE Select
  <2>1. TypeOK'
    <3>1. failures' \in Seq(Errors)
      BY <1>3 DEF TypeOK, Select
    <3>2. result' \in Errors \cup {"none"}
      <4>1. failures # <<>> => Head(failures) \in Errors
        BY HeadTailProperties DEF TypeOK
      <4> QED
        BY <1>3, <4>1 DEF TypeOK, Select
    <3> QED
      BY <1>3, <3>1, <3>2 DEF TypeOK, Select
  <2>2. ReasonsInv'
    BY <1>3 DEF TypeOK, ReasonsInv, Running, HonestResult, OrderInv, RoomInv, Select
  <2>3. OrderInv'
    BY <1>3 DEF TypeOK, OrderInv, Select
  <2>4. RoomInv'
    BY <1>3 DEF TypeOK, RoomInv, Finished, Select
  <2> QED
    BY <2>1, <2>2, <2>3, <2>4 DEF IInv
<1>4. CASE Cancel
  <2>1. TypeOK'
    BY <1>4, WorkersAssumption DEF TypeOK, Cancel
  <2>2. ReasonsInv'
    BY <1>4 DEF TypeOK, ReasonsInv, Running, HonestResult, OrderInv, RoomInv, Cancel
  <2>3. OrderInv'
    BY <1>4 DEF TypeOK, OrderInv, Cancel
  <2>4. RoomInv'
    BY <1>4 DEF TypeOK, RoomInv, Finished, Cancel
  <2> QED
    BY <2>1, <2>2, <2>3, <2>4 DEF IInv
<1>5. CASE SendBye
  <2>1. TypeOK'
    BY <1>5, WorkersAssumption DEF TypeOK, SendBye
  <2>2. ReasonsInv'
    BY <1>5 DEF TypeOK, ReasonsInv, Running, HonestResult, OrderInv, RoomInv, SendBye
  <2>3. OrderInv'
    BY <1>5 DEF TypeOK, OrderInv, SendBye
  <2>4. RoomInv'
    BY <1>5 DEF TypeOK, RoomInv, Finished, SendBye
  <2> QED
    BY <2>1, <2>2, <2>3, <2>4 DEF IInv
<1>6. CASE Close
  <2>1. TypeOK'
    BY <1>6, WorkersAssumption DEF TypeOK, Close
  <2>2. ReasonsInv'
    BY <1>6 DEF TypeOK, ReasonsInv, Running, HonestResult, OrderInv, RoomInv, Close
  <2>3. OrderInv'
    BY <1>6 DEF TypeOK, OrderInv, Close
  <2>4. RoomInv'
    BY <1>6 DEF TypeOK, RoomInv, Finished, Close
  <2> QED
    BY <2>1, <2>2, <2>3, <2>4 DEF IInv
<1>7. CASE Wait
  <2>1. TypeOK'
    BY <1>7, WorkersAssumption DEF TypeOK, Wait
  <2>2. ReasonsInv'
    BY <1>7 DEF TypeOK, ReasonsInv, Running, HonestResult, OrderInv, RoomInv, Wait
  <2>3. OrderInv'
    BY <1>7 DEF TypeOK, OrderInv, Wait
  <2>4. RoomInv'
    BY <1>7 DEF TypeOK, RoomInv, Finished, Wait
  <2> QED
    BY <2>1, <2>2, <2>3, <2>4 DEF IInv
<1>8. CASE StopAudio
  <2>1. TypeOK'
    BY <1>8, WorkersAssumption DEF TypeOK, StopAudio
  <2>2. ReasonsInv'
    BY <1>8 DEF TypeOK, ReasonsInv, Running, HonestResult, OrderInv, RoomInv, StopAudio
  <2>3. OrderInv'
    BY <1>8 DEF TypeOK, OrderInv, StopAudio
  <2>4. RoomInv'
    BY <1>8 DEF TypeOK, RoomInv, Finished, StopAudio
  <2> QED
    BY <2>1, <2>2, <2>3, <2>4 DEF IInv
<1>9. CASE Exit
  <2>1. TypeOK'
    BY <1>9, WorkersAssumption DEF TypeOK, Exit
  <2>2. ReasonsInv'
    BY <1>9 DEF TypeOK, ReasonsInv, Running, HonestResult, OrderInv, RoomInv, Exit
  <2>3. OrderInv'
    BY <1>9 DEF TypeOK, OrderInv, Exit
  <2>4. RoomInv'
    BY <1>9 DEF TypeOK, RoomInv, Finished, Exit
  <2> QED
    BY <2>1, <2>2, <2>3, <2>4 DEF IInv
<1> QED
  BY <1>1, <1>2, <1>3, <1>4, <1>5, <1>6, <1>7, <1>8, <1>9 DEF Caller

\* A worker that ends.
LEMMA EndKeeps ==
  ASSUME IInv, NEW w \in Workers, Report(w) \/ SelectDone(w)
  PROVE  IInv'
<1> USE DEF IInv, Workers, Causes, Errors, queues
<1>1. CASE Report(w)
  <2>1. TypeOK'
    <3>1. err[w] \in Errors
      BY <1>1 DEF TypeOK, RoomInv, Report
    <3>2. failures' \in Seq(Errors)
      BY <1>1, <3>1 DEF TypeOK, Report
    <3>3. at' \in [Workers -> {"idle", "check", "read", "answer", "deliver",
                              "select", "send", "report", "done"}]
      BY <1>1 DEF TypeOK, Report
    <3> QED
      BY <1>1, <3>2, <3>3 DEF TypeOK, Report
  <2>2. ReasonsInv'
    BY <1>1 DEF TypeOK, ReasonsInv, Running, HonestResult, OrderInv, RoomInv, Report, FailureCap
  <2>3. OrderInv'
    BY <1>1 DEF TypeOK, OrderInv, Report, FailureCap
  <2>4. RoomInv'
    BY <1>1 DEF TypeOK, RoomInv, Finished, Report, FailureCap
  <2> QED
    BY <2>1, <2>2, <2>3, <2>4 DEF IInv
<1>2. CASE SelectDone(w)
  <2>1. TypeOK'
    BY <1>2, WorkersAssumption DEF TypeOK, SelectDone, Return
  <2>2. ReasonsInv'
    BY <1>2 DEF TypeOK, ReasonsInv, Running, HonestResult, OrderInv, RoomInv, SelectDone, Return
  <2>3. OrderInv'
    BY <1>2 DEF TypeOK, OrderInv, SelectDone, Return
  <2>4. RoomInv'
    BY <1>2 DEF TypeOK, RoomInv, Finished, SelectDone, Return
  <2> QED
    BY <2>1, <2>2, <2>3, <2>4 DEF IInv
<1> QED
  BY <1>1, <1>2

\* Every step keeps the invariant.
LEMMA StepKeeps == IInv /\ [Next]_vars => IInv'
<1> SUFFICES ASSUME IInv, [Next]_vars PROVE IInv'
  OBVIOUS
<1>1. CASE UNCHANGED vars
  BY <1>1 DEF vars, queues, IInv, TypeOK, ReasonsInv, Running, HonestResult,
     OrderInv, RoomInv, Finished
<1>2. CASE Exited
  BY <1>1, <1>2 DEF Exited
<1> QED
  BY <1>1, <1>2, EnvironmentKeeps, ReceiverKeeps, OthersKeep, CallerKeeps, EndKeeps
  DEF Next

\* The three parts and the types hold in every state of every call.
THEOREM InvariantHolds == Spec => []IInv
  BY Initially, StepKeeps, PTL DEF Spec

\* No queue of runCall outgrows its channel, whatever its capacity.
THEOREM TypeCorrect == Spec => []TypeOK
<1>1. IInv => TypeOK
  BY DEF IInv
<1> QED
  BY <1>1, InvariantHolds, PTL

\* runCall never returns a reason it has caused itself: the first report it
\* takes was made before it cancelled anything or closed the socket.
THEOREM ResultIsHonest == Spec => []HonestResult
<1>1. IInv => HonestResult
  BY DEF IInv, ReasonsInv
<1> QED
  BY <1>1, InvariantHolds, PTL

\* The goodbye leaves before the socket is closed, on every path through
\* runCall and the deferred Close of run.
THEOREM PeerIsTold == Spec => []PeerTold
<1>1. IInv => PeerTold
  BY DEF IInv, OrderInv, PeerTold
<1> QED
  BY <1>1, InvariantHolds, PTL

\* When runCall has returned, none of its goroutines and no device is left.
THEOREM NothingIsLeft == Spec => []NothingLeft
<1>1. IInv => NothingLeft
  BY DEF IInv, OrderInv, NothingLeft
<1> QED
  BY <1>1, InvariantHolds, PTL

\* A worker can always report: failures holds at most the reports of the
\* workers that are done, and the one that reports is not.
THEOREM ReportsNeverBlock == Spec => []NeverBlocked
<1>1. ASSUME IInv PROVE NeverBlocked
  <2>1. ASSUME NEW w \in Workers, at[w] = "report"
        PROVE  Len(failures) < FailureCap
    <3>1. Len(failures) \in Nat
      BY <1>1, LenProperties DEF IInv, TypeOK
    <3> QED
      BY <1>1, <2>1, <3>1 DEF IInv, RoomInv, Finished, FailureCap, Workers
  <2> QED
    BY <2>1 DEF NeverBlocked
<1> QED
  BY <1>1, InvariantHolds, PTL
=============================================================================
