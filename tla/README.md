# A verification project for iLBC-Go

iLBC-Go is a port of the iLBC speech codec (RFC 3951) to Go, package `ilbc`
in `src/`, with `cmd/talk`, a two-party voice call over UDP built on it.
This directory holds TLA+ models of both, configurations that check them with
TLC on small instances, and proofs checked by TLAPS for every value of the
constants. `PROJECT.json` lists the runs, the source lines behind every
definition, the mutants that show each property can fail, the hazards and the
theorems.

    tlc -workers 2 -config MCJitterPlayout.cfg JitterPlayout   # a run
    tlapm JitterProofs.tla                                     # proofs

## 1. The system

```
  microphone                                               speaker
      | process (device thread)                               ^ process
      v                                                       |
  audio bridge --captured--> encode --UDP--> receive --incoming--> playout
                (4 frames)   worker           worker    (64)       worker
                               |                |                    |
                            Encoder         call setup         jitter buffer,
                                            and teardown       Decoder --playback(3)-->
```

| component | source | state | operations | interacts with |
|---|---|---|---|---|
| jitter buffer | `cmd/talk/protocol.go` | ring of 64 packets, `valid`, `next`, `started`, `wait` | `insert`, `take` | playout worker only |
| datagram format | `cmd/talk/protocol.go` | none | `marshal`, `parsePacket` | every send and receive |
| audio bridge | `cmd/talk/audio.go` | frame being filled, frame being played, two offsets, two channels, error channel | `process`, `fail` | device threads; encode and playout workers through channels |
| call setup and teardown | `cmd/talk/network.go`, `main.go` | peer address and session, time of the last audio | `handshake`, `receive`, `send` | the other program, by UDP |
| call goroutines | `cmd/talk/call.go` | three workers, contexts, `failures`, `incoming`, the socket | `runCall` | all of the above |
| audio backends | `cmd/talk/audio_*.go` | device handles, buffer rings, events | `openAudio` and its stop function | operating system, bridge |
| encoder / decoder API | `src/codec.go` | one history per stream | `Encode`, `Decode`, `Conceal`, `Reset` | encode and playout workers |
| frame layout | `src/packing.go`, `constants.go`, loops in `ilbc_encode.go`, `ilbc_decode.go` | cursor in the frame | `packsplit`, `dopack`, `unpack`, `packcombine` | encoder, decoder |
| residual coding | `src/ilbc_encode.go`, `ilbc_decode.go` | codebook memory, positions | `encodeFrame`, `decode` | codebook search, construction |
| codebook | `src/icbsearch.go`, `icbconstruct.go`, `getcbvec.go`, `createcb.go` | candidates, indices | search, index conversion, vector construction | residual coding |
| concealment | `src/docplc.go` | lag, gain, count of losses, previous residual | `doThePLC` | decoder |
| enhancer | `src/enhancer.go` | 640 samples of residual, 8 periods | `enhancerInterface`, `getsseq`, ... | decoder |
| start state | `src/frameclassify.go`, `statesearchw.go`, `stateconstructw.go` | place of the state, filter in use | classify, quantise, reconstruct | residual coding |
| linear prediction | `src/lpcencode.go`, `lpcdecode.go`, `helpfun.go`, `lsf.go` | analysis buffer, previous sets of LSF on both sides | analyse, quantise, interpolate | encoder, decoder |
| gains, filters | `src/gainquant.go` and the other files of `src/` | floating-point histories | numerics | encoder, decoder |

What is hard here, and hardly reachable by the repository's tests:

* **Concurrency.** Five threads of control share channels, a socket and a
  context, and stop each other; a device callback may not wait for anyone.
* **An unreliable network.** Datagrams are lost, repeated and reordered, and
  those of an earlier execution reach a later one at the same address.
* **Drivers.** The WinMM backend serves two rings of buffers and three events
  from one loop, and every call that opens a device or returns a buffer may
  fail with part of the work done; when a device is closed, the answers of the
  driver are not looked at.
* **Wrapping numbers.** The jitter buffer compares 32-bit numbers by signed
  difference, over a ring of 64.
* **History.** The decoder's next frame depends on lags, counters, filters and
  a delayed residual left by arbitrary earlier good and lost frames, in four
  configurations (two modes, with and without the enhancer).
* **Twin loops.** Encoder and decoder contain separate copies of the same
  order of steps (packing, codebook memories, indices) that must agree in
  every case, also in those that are rare in speech.
* **Index arithmetic.** Buffers are addressed by offsets computed from lags
  and indices, some of which a damaged frame chooses.

`PROJECT.json` lists these as hazards, each at its line.

## 2. Modules

| module | models | state and actions |
|---|---|---|
| `ReorderWindow` | abstract specification | an unbounded window of frame numbers: what a receiver promises, without ring or wraparound |
| `JitterBuffer` | `protocol.go` | the fields of `jitterBuffer`; `insert` in its branches (first packet, gap, in the window, late or duplicate), `take` |
| `JitterPlayout` | the playout worker in `call.go` | arrivals in any order, lost, or repeated, and ticks; the refinement to `ReorderWindow` |
| `AudioBridge` | `audio.go` | one action per iteration of each loop of `process`, and the goroutines at the other ends of the channels |
| `CallSetup` | `network.go`, `main.go` | phase, session, address and silence of each execution; datagrams on their way |
| `CallWorkers` | `call.go`, `receive` | the program counters of the caller and of the three workers, the lengths of the queues |
| `Decoder` | `codec.go`, `ilbc_decode.go`, `docplc.go`, `enhancer.go` | all of the decoder's history except sample values; `Decode`, `Conceal`, `Reset` |
| `FrameMode` | `initEncode`, `initDecode` | the mode of a codec and the sizes it sets; shared by the modules of the codec that follow |
| `FramePacking` | `packing.go`, the ULP tables, both loops | one iteration of `dopack` / `unpack` per step |
| `ResidualSchedule` | `encodeFrame`, `decode` | codebook memory and the place of every sample, on both sides |
| `CodebookSearch` | search, conversion, construction | which index may be chosen at every stage, and what it addresses |
| `StartState` | `frameclassify.go`, `absQuantW`, `stateConstructW` | the filter in use at each sample of the start state, and the codes in reverse |
| `FrameCoding` | `encodeFrame` to `decodeFrame` | composes `StartState`, `ResidualSchedule` and `FramePacking` in the order of the code |
| `LpcStream` | `lpcencode.go`, `lpcdecode.go`, `helpfun.go` | analysis buffer, the sets of LSF kept by either side, the filters of every subframe; `Encode`, `Decode`, `Conceal`, both resets |
| `EnhancerWalk` | `getsseq`, `refiner`, `nearestNeighbor`, `upsampleEnhancement` | the walk along the pitch periods, one segment per step |
| `WaveLoop` | `audio_windows.go` | handles, pinned memory, rings, flags and events; opening, serving, closing, stop |
| `VoicePath` | `audio.go`, `call.go`, `network.go` over `JitterPlayout` | channels and network around the playout, from microphone to speaker, in whole frames |
| `JitterProofs`, `BridgeProofs`, `CallSetupProofs`, `CallWorkersProofs`, `DecoderProofs`, `BufferProofs`, `AgreementProofs`, `WaveProofs` | | theorems |
| `MCCallSetup`, `MCDecoder`, `MCEnhancerWalk` | | values for constants |

How data are abstracted:

* An audio frame is its number; `JitterBuffer` keeps the unwrapped number as
  payload, so that a property can speak of the true order, while the code's
  decisions see the wrapped number only.
* A datagram is its kind, session, sender and destination. The session is
  named after the client execution that drew it: `handshake` draws 63 random
  bits, and two executions are taken to draw different ones.
* In the decoder a subframe of residual, or a set of filter coefficients, is a
  tag with the age and place of the frame it comes from. Lags are numbers,
  because they address buffers. What depends on sample values (the best lag,
  the outcome of a correlation) is a choice from its range.
* In `FramePacking` a byte is the set of its bits, each with a mark of the
  parameter and the bit it stands for, and the caller's buffer starts dirty.
* In `ResidualSchedule` a sample is named by the coded vector and its place
  in it; in `CodebookSearch` a vector is named by what it is made of.
* In `StartState` and `LpcStream` a filter is the subframe it belongs to, or
  the set of LSF (frame, analysis, codebook entries) and weights it is
  interpolated from. Time in the analysis buffer is counted in units of 20
  samples, which divide every length the code uses there.
* In `EnhancerWalk` positions are in quarter samples, so that the three
  roundings of `refiner` are integer divisions. Which place correlates best
  is a choice.
* In `WaveLoop` the driver is external: it returns buffers in the order it
  got them, sets the done flag first and the event afterwards, and neither
  unprepares a buffer it works on nor closes a device that has such buffers
  (WAVERR_STILLPLAYING). It may refuse any other call as well; `refused` keeps
  which calls of `waveDevice.close` it refused, because the code drops those
  errors. A handle counts as closed once `Close` was called. The model does
  not follow what the driver does with buffers of a device it did not close.
* In `CallWorkers` queues are lengths, and in `CallSetup` the workers of one
  call are one step.

Four details a reader may stumble over. `OutputUnderrun` in `AudioBridge`
ends the buffer because `process` clears it first and returns. `StopAudio` in
`CallWorkers` is one step and external: the stop functions of the backends
return when no callback runs any more. `EncodeFrame` there has no error
branch: `Encode` refuses only arrays of other sizes than the mode's. `Decoder` gives the correlation
windows of `xCorrCoef` over the downsampled signal the sizes of the arrays,
of which the last sample is never written and is zero.

## 3. Runs

| run | bounds | shows |
|---|---|---|
| `playout` | 12 sequence numbers, ring of 3, 15 frames, 15 ticks | frames are played in order and once; the ring holds only packets of the window; the ring implements `ReorderWindow` |
| `bridge` | frames of 3 samples, buffers of 2 and 5, 18 samples, 5 ticks | frame numbers tell the recording time although frames are dropped; frames are played whole; callbacks return |
| `voice` | ring of 2, channels of 1, 1 and 2, frames 0 to 4, 5 ticks | from one microphone to the other speaker, frames come in order, each from its own packet or concealed, and the buffer catches up after an overflow |
| `setup` | two executions of each program at one pair of addresses | a client enters only a call a server agreed to; a server's call ends as left by the peer only when its client has left, a client's only by the goodbye of a server that took it; a server keeps its peer |
| `endings` | two clients that compete for one server | nobody remains in a call with a peer that is gone; a lost accept is sent again |
| `workers` | queues of 2, 1 and 1 | the call ends, for a reason that happened; the peer is told; nothing is left |
| `wave` | none: 3 buffers per device, as in the code | buffers are served in turn, none is forgotten, every way out gives up what was opened; the driver works in unpinned memory only if it refused both Reset and Close |
| `decoder` | both modes, enhancer on and off, lags at the ends of their ranges, runs of losses up to 11 | every access is inside its buffer; the gain follows the run; residual and coefficients belong together; no output sample is skipped, repeated or altered after it was played |
| `walk` | histories of the periods 19, 38, 105 and 119 with one change | every access of the refinement is inside its buffer; its three roundings agree; the walk goes outward |
| `frame` | none: every mode, start state and place in it, every parameter | the start state meets its own filters, both sides use the same memory for every vector, every sample is rebuilt at its place, every bit is read back |
| `codebook` | none: every memory length, vector length, stage and index | the chosen index fits its field, denotes the same vector in the decoder and stays inside the buffers, as does any index a damaged frame carries |
| `lpc` | 3 frames, the first and the last entry of each codebook | each analysis sees the newest samples in a row; both sides have the same filters, also in the frame after a loss, from the subframe on that the interpolation allows |

Why the bounds suffice. In `playout`, 12 numbers over a ring of 3 are the
smallest space in which half of the space is a multiple of the ring and larger
than it, as in the code (2^31 over 64); 15 frames pass the wrap, and a packet
may be in the window, beyond it, late, and more than half the space away; the
theorems remove the bounds. In `bridge`, buffers of 2 and 5 samples put the
end of a buffer before, at and after the end of a frame of 3, and channels of 2
are full and empty in turn; sequence numbers wrap after 4. In `setup`, two
executions on each side are the fewest that leave datagrams behind for each
other; longer histories repeat the same two relations (own peer, someone
else). `SilenceLimit = 0` makes the clock one step, and how often it is reset
does not depend on its length. In `workers` a queue matters only when it is
empty or full. In `decoder`, 11 losses are two more than the counter's limit,
and the lags are the extremes of the searches together with those around the
doubling of a short lag; the theorems cover all of them. In `walk` the
periods are the shortest and longest the decoder stores and two that end
segments at either edge of the history; the theorems cover all periods. In
`lpc` a filter depends on two frames, and a third shows what a loss leaves.
In `voice` channels of 1 overflow at once; five frames over a ring of 2 pass
its end twice, and the wrap of numbers is left to `playout` and the theorems.

The runs `setup`, `endings`, `wave`, `walk` and `voice` do not check for
deadlock because executions, walks and the bounded stream end.
Audio is not among the kinds that may be repeated: a network that repeated one
datagram for ever would keep a dead call alive, which is no fault of the code.

Two things the code does not guarantee, which the properties therefore leave
out by name:

* *A late goodbye in the same session.* The client alone draws the session,
  and keeps it while it repeats its hello. A server takes the client and is
  interrupted, its goodbye is delayed; a second server at its address takes
  the client from a later hello; the first server's goodbye then passes
  `receive`'s check of address and session and ends the call with the second.
  `PeerHasLeft` speaks of a client that one server took. Said of every server
  that took the client, it fails in the instance of `setup` after ten steps.
* *A driver that gives nothing back.* `waveDevice.close` unpins whatever
  `Reset`, `UnprepareHeader` and `Close` answered. A driver that refused both
  `Reset` and `Close` goes on in memory that may move; `HeldIsPinned` names
  that exception, and those of the other two clauses. Without them it fails
  as soon as one device is given up after a refused `Reset`.

After a pause of the sender, packets may be late for good until one is 64
ahead (`take` advances on every tick). The repository promises nothing else,
so this is listed as a hazard without a property.

### Fairness

* `bridge`: only the callbacks themselves are fair. They return although the
  goroutines of the call and the device may stop for good.
* `endings`: each property has its fairness as a premise. For `NoOrphans`
  (`ClockFairness`) clocks run and the loops that look at them return to the
  look (reads have a deadline of 250 ms); no datagram need arrive. For
  `AcceptRecovered` (`RetryFairness`) a client repeats its hello, and of the
  datagrams sent again and again some arrive (strong fairness on receiving
  them). Without that no protocol recovers a lost datagram.
* `wave`: the goroutine runs, and the driver sets the events it owes for
  buffers it has marked done. It owes no buffer.
* `workers`: every goroutine is scheduled. For the cancelled context strong
  fairness: Go's select chooses among ready cases at random, and a busy queue
  may make the other case ready again and again.

## 4. Theorems

Assumptions on constants are the named `ASSUME`s of the modules; TLC evaluates
them in the runs.

**`JitterProofs`.** For every ring length, prebuffer, set of frames and
sequence space whose half is a multiple of the ring (2^31 is one of 64), the
invariant `TypeOK /\ WindowInv /\ PlayedInv` is inductive. `WindowInv` alone
would be too weak for the order of play: `PlayedInv` adds that what was played
lies before `position`, the unwrapped value of `next`. The heart is
arithmetic: two numbers closer than half the space are ordered as their signed
wrapped difference says, and two different numbers within one ring length never
share a slot. From it follow `TypeCorrect`, `WindowHolds`, `PlaysInOrderHolds`
and the refinement `RingImplementsWindow` (initial states map to initial
states, each step to a step or a stutter of `ReorderWindow`).

The second part is about the whole way of a frame, for channels of any
capacity. `VoicePath` extends the playout with recording, sending, network and
speaker, and `PathImplementsPlayout` shows that each of its steps is a step or
a stutter of the playout: all theorems about the ring hold in the composed
programs. Like the playout, the path lets a packet arrive only within half the
sequence space of the cursor (2^31 frames of 20 ms are more than a year), since
beyond it no receiver of 32-bit numbers can tell early from late.
`VoiceInOrder` needs more than the ring's invariant: `PathOrdered` says that
what waits for the speaker rises from what was heard to the cursor, with
silence anywhere between, and that the cursor is less than a ring behind the
newest packet. Proved: `VoiceInOrderHolds`.

**`DecoderProofs`.** For any lags in the ranges of the searches and runs of
losses of any length. The invariant joins `TypeOK` and `LossFlagsAgree` with
`BufferAligned`, which says that the tail of the enhancer's buffer holds the
last frame and that the stored coefficients are that frame's; without it
nothing is known about the delayed residual the next frame reads. The action
properties about the output as one stream rest on a second invariant,
`HistoryInv`: the end of the enhancer's buffer is all missing or all of the
last frame, whatever stands before it is older, and the last output is what
stands at the centre; it is the relation between one output and the next that
`OutputContinuous` leaves open. Proved: `TypeCorrect`, `AccessesHold`,
`AttenuationHolds`, `AlignmentHolds`, `LagHeldHolds`, `ContinuousHolds`,
`UntouchedHolds`.

**`CallWorkersProofs`.** For queues of any capacity. Three invariants beside
the types: `ReasonsInv` (as long as runCall has not chosen a reason, every
error in sight is a real one, since nobody but the user has cancelled and the
socket is open), `OrderInv` (what the caller has done at each of its last
steps) and `RoomInv` (`failures` holds at most one report per finished worker).
Proved: `TypeCorrect`, `ResultIsHonest`, `PeerIsTold`, `NothingIsLeft`,
`ReportsNeverBlock`.

**`BufferProofs`.** Computed offsets, in the enhancer and in the codebook.
For the enhancer, any periods from 19 to 119 of the eight blocks. The
invariant says on which side of the block the walk is, by how much at least
and at most, and that a segment is refined only when its search lies in the
history; without the bound on the place found, the next estimate could lie
anywhere. Proved: `WalkInvariant`, `SegmentsInPlace`, `WalkStaysInBounds`
(every read and write of `refiner` and `upsampleEnhancement`) and the action
property `WalkMovesOutward`.

For the codebook, `SearchInv` carries the index through a call: the first
search ends in `FirstBest`; the refined window is `Fitting`, clipped or wrapped
in one of five ways but always of 34 candidates inside the range of the stage;
what is sent is one of `Candidates`, and that set is the whole argument for
the 7-bit fields: the 128 indices the two stages concerned can end at (0 to 43,
108 to 171, 236 to 255) are those the conversion keeps apart. Proved:
`BuffersHold`, `SameVectorHolds`, `WindowCompleteHolds`.

**`BridgeProofs`.** For frames, device buffers, channels and sequence spaces
of any size. `CaptureInv` gives the frame being filled its period p: its
number is p modulo the sequence space and its samples so far are those of the
period, although nothing in the code counts periods. `SpeakerInv` orders the
frames that wait after the one being played and ties the last sample played to
`outputAt`. Proved: `TypeCorrect`, `FramesOnTimeHolds` and the action property
`WholeFramesHolds`.

**`CallSetupProofs`.** For any number of executions, any assignment of
addresses (a server may follow a client at one address) and repetition of all
kinds the model allows. The invariant says what each datagram under way tells
of its sender (`Good`): a hello comes from its session's client, which has
started; an accept from a call some server has agreed to; a goodbye from an
execution that has closed with that session. `AddressInv` and `SharedInv` are
needed for a server that takes a goodbye: a server at its own peer's address
could otherwise have sent it. `SomeServerLeft` is `PeerHasLeft` in the form
that a step keeps: of the servers that took a client that was told goodbye,
one has left. Proved: `CallAgreedHolds`, `PeerHasLeftHolds`
and the action property `OnePeerHolds`.

**`WaveProofs`.** For rings of any length. The invariant follows the loop
through its stages: while the buffers are prepared and queued it says how many
of them the driver has, in ring order; while they are served, that the
returned ones and the held ones together go once around the ring from the
next one to serve; and at every stage, that what the driver holds is pinned,
that the devices open are those that are still to be closed, and that what
the driver still has of a device given up are the things it refused (`Sound`).
The refusals are part of the model: no theorem here assumes that a call
succeeds, only that the driver does not close a device with buffers at work.
Proved:
`TypeCorrect`, `BuffersInTurn`, `DriverMemoryPinned`, `EndsClean`.

**`AgreementProofs`.** Encoder and decoder agree. Linear prediction, for any
number of frames: the analysis buffer keeps the end of the recording
(`BufferInv`), although its copies overlap; the encoder's two previous sets are
forms of one (`PreviousInv`); and the indices under way decode to the encoder's
sets and, if the decoder has the frame before or does not need it, to its
filters (`PacketInv`), which is what makes the agreement survive losses and
resets of either side. Proved: `WindowsHold`, `FiltersHold`.

The start state: `StateInv` places the border between the two filters
(`Border`, sample 17, 18 or 40) and says up to where targets have been
weighted, before and after the border is passed; that the border is where the
subframe changes is arithmetic (`OwnSubframe40`). Proved: `StateInPlaceHolds`.

The residual around it: `ResidualInv` gives the n-th vector of a frame one
memory, target and filter (`Vector`), which depend on n, the place of the
state and the memory of the vector before. The history of the encoder is made
of those, and the decoder's buffers are at each step what the encoder's were at
the same one, although the two treat `reverseDecresidual` differently.
`SampleInPlace` then finds, for each of five regions of the frame, the vector
that was searched for a sample. Proved: `ResidualInvHolds`, `MemoriesHold`,
`RebuiltHolds`. There is no constant to generalise here; the proof adds why
the loops agree, which the run does not show.

Only model-checked: all liveness (`CallbacksReturn`, `CallEnds`, `NoOrphans`,
`AcceptRecovered`, `BuffersReturn`), which is outside the prover's reach; and
`RoundTrip`, since where a bit of a frame lies is a sum over the entries of the
ULP tables before it, and sums over a table need an induction the provers
cannot do. Its run has no bound: TLC visits every state.

## 5. Not modelled

* Floating-point numerics: the filters, autocorrelation and Levinson-Durbin,
  `a2lsf` and `lsf2a`, the correction inside `checkLSF`, the scaling in
  `stateSearchW`, gain quantisation and the correction of the first gain, the
  enhancer's `smath`. A model checker cannot tell their values apart; the
  repository compares them with the RFC's reference vectors.
* The byte layout of datagrams and `parsePacket`'s length checks: sequential
  validation of fixed offsets, which the repository's tests cover.
* The AudioQueue and PulseAudio backends: calls into the system with no
  protocol of their own beyond opening and stopping.
* `span.go`: bounds-checked pointers, which the access properties are about.
* `parseOptions`, messages and exit codes.

## 6. State of the plan

Modelled and checked: jitter buffer, audio bridge, call setup, call goroutines,
WinMM loop, the way of a voice frame; decoder history, frame coding, codebook,
linear prediction, the enhancer's walk. Every invariant and action property of
the runs except `RoundTrip` is also a theorem. What could be added: the
PulseAudio and AudioQueue backends, if they grow a protocol of their own, and
the byte layout of datagrams.
