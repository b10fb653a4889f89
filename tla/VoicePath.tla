----------------------------- MODULE VoicePath -----------------------------
(***************************************************************************)
(* The way of a frame from the microphone of one program to the speaker of *)
(* the other: the channel captured, the encoder worker, the network, the   *)
(* receiver's channel incoming, the jitter buffer, the decoder and the     *)
(* channel playback (cmd/talk/audio.go, call.go, network.go, protocol.go). *)
(* Each stage drops frames when the next one is full, and runs at its own  *)
(* pace.  Steps are whole frames; AudioBridge shows that the bridge keeps  *)
(* frames whole, Decoder what a concealed frame consists of.               *)
(***************************************************************************)
EXTENDS JitterPlayout, Sequences

CONSTANTS CapturedCap, IncomingCap, PlaybackCap   \* capacities (4, 64, 3)

ASSUME PathAssumption ==
  {CapturedCap, IncomingCap, PlaybackCap} \subseteq Nat \ {0}

VARIABLES
  spoken,    \* frames recorded so far
  captured,  \* channel to the encoder worker
  network,   \* audio datagrams under way
  incoming,  \* channel to the playout worker
  playback,  \* channel to the speaker
  heard,     \* history: the last frame the speaker had, decoded or concealed
  newest     \* history: the newest frame that reached the jitter buffer

pathVars == <<spoken, captured, network, incoming, playback, heard, newest>>
voiceVars == <<vars, pathVars>>

VoiceInit ==
  /\ Init
  /\ spoken = 0 /\ captured = <<>> /\ network = {} /\ incoming = <<>>
  /\ playback = <<>> /\ heard = NoFrame /\ newest = NoFrame

\* select { case ch <- x: default: }
Offer(ch, x, cap) == IF Len(ch) < cap THEN Append(ch, x) ELSE ch

\* A frame is full: it has the next number, sent or not.
Record ==
  /\ spoken \in Frames   \* (bound)
  /\ spoken' = spoken + 1
  /\ captured' = Offer(captured, spoken, CapturedCap)
  /\ UNCHANGED <<vars, network, incoming, playback, heard, newest>>

SendAudio ==
  /\ captured # <<>>
  /\ captured' = Tail(captured)
  /\ network' = network \cup {Head(captured)}
  /\ UNCHANGED <<vars, spoken, incoming, playback, heard, newest>>

Lose(n) ==
  /\ n \in network
  /\ network' = network \ {n}
  /\ UNCHANGED <<vars, spoken, captured, incoming, playback, heard, newest>>

\* In any order, and again as long as the datagram is not lost.
Deliver(n) ==
  /\ n \in network
  /\ incoming' = Offer(incoming, n, IncomingCap)
  /\ UNCHANGED <<vars, spoken, captured, network, playback, heard, newest>>

TakeMessage ==
  /\ incoming # <<>>
  /\ incoming' = Tail(incoming)
  /\ Arrive(Head(incoming))
  /\ newest' = IF Head(incoming) > newest THEN Head(incoming) ELSE newest
  /\ UNCHANGED <<spoken, captured, network, playback, heard>>

\* What the playout worker makes of a tick: silence before the call is heard,
\* then a frame for every number, decoded or concealed.
Made == [frame |-> IF taken'.active THEN position ELSE NoFrame,
         source |-> IF taken'.received THEN taken'.packet.audio ELSE NoFrame]

\* Mutant: in a full channel the new frame replaces the oldest one.
QueuedFirst(f) == IF Len(playback) < PlaybackCap THEN Append(playback, f)
                  ELSE <<f>> \o Tail(playback)
Queued(f) == Offer(playback, f, PlaybackCap)

PlayoutTick ==
  /\ Tick
  /\ playback' = Queued(Made)
  /\ UNCHANGED <<spoken, captured, network, incoming, heard, newest>>

Play ==
  /\ playback # <<>>
  /\ playback' = Tail(playback)
  /\ heard' = IF Head(playback).frame = NoFrame THEN heard ELSE Head(playback).frame
  /\ UNCHANGED <<vars, spoken, captured, network, incoming, newest>>

VoiceNext ==
  \/ Record \/ SendAudio \/ TakeMessage \/ PlayoutTick \/ Play
  \/ \E n \in network : Lose(n) \/ Deliver(n)

VoiceSpec == VoiceInit /\ [][VoiceNext]_voiceVars
-----------------------------------------------------------------------------
\* From one end to the other: what the speaker has are frames of rising
\* numbers, each the decoded frame of that number or a concealed one in its
\* place, and what is made next lags less than a window behind the newest frame
\* that has arrived (protocol.go: "Bound latency after a pause or
\* sender queue overflow").
VoiceInOrder ==
  [][/\ heard' # heard => heard' > heard
     /\ \A i \in 1 .. Len(playback') :
          LET f == playback'[i]
          IN  f.source \in {NoFrame, f.frame}
     /\ started' => newest' - position' < SlotCount]_voiceVars
=============================================================================
