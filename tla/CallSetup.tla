----------------------------- MODULE CallSetup -----------------------------
(***************************************************************************)
(* How two programs enter and leave a call (cmd/talk/network.go, and what  *)
(* run and runCall make of it).  A datagram is lost when it is sent, or    *)
(* arrives at any later time, in any order; those of the kinds in Repeated *)
(* may arrive any number of times.  An endpoint is one execution of the    *)
(* program; several executions may follow each other at one address, so    *)
(* datagrams of an earlier one can reach a later one.  A session is named  *)
(* after the client execution that drew it at random: two executions do    *)
(* not draw the same one.  The workers of a call are one step here; module *)
(* CallWorkers takes them apart.                                           *)
(***************************************************************************)
EXTENDS Integers, FiniteSets

CONSTANTS
  Clients,     \* executions of talk --connect
  Servers,     \* executions of talk --serve
  Address,     \* Address[e]: the socket address of endpoint e
  SilenceLimit,\* time without audio a call survives (10 s in the code)
  Repeated     \* the kinds of datagram the network may deliver again

Endpoints == Clients \cup Servers
NoSession == "none"

ASSUME SetupAssumption ==
  /\ Clients \cap Servers = {}
  /\ NoSession \notin Clients
  /\ DOMAIN Address = Endpoints
  /\ SilenceLimit \in Nat
  /\ Repeated \subseteq {"hello", "accept", "bye"}

VARIABLES
  net,      \* datagrams on their way
  phase,    \* what each endpoint is doing
  session,  \* peer.session of each endpoint
  remote,   \* peer.address of each endpoint
  silent,   \* time since lastAudio, in the calls
  result    \* how each endpoint ended

vars == <<net, phase, session, remote, silent, result>>

Phases == {"off", "handshake", "opening", "call", "closed"}
ServerAddress == Address[CHOOSE v \in Servers : TRUE]

Datagram(kind, e, s, to) ==
  [kind |-> kind, session |-> s, from |-> Address[e], to |-> to]

\* The network with m in it, unless m is lost.
Posted(n, m) == {n, n \cup {m}}

\* p.send: a datagram of the endpoint's session to its peer.
Send(kind, e) == Datagram(kind, e, session[e], remote[e])

Init ==
  /\ net = {}
  /\ phase = [e \in Endpoints |-> "off"]
  /\ session = [e \in Endpoints |-> NoSession]
  /\ remote = [e \in Endpoints |-> ServerAddress]
  /\ silent = [e \in Endpoints |-> 0]
  /\ result = [e \in Endpoints |-> "none"]
-----------------------------------------------------------------------------
\* run: the socket is bound, so no other execution holds the address; a
\* client draws its session.
Start(e) ==
  /\ phase[e] = "off"
  /\ \A f \in Endpoints : Address[f] = Address[e] => phase[f] \in {"off", "closed"}
  /\ phase' = [phase EXCEPT ![e] = "handshake"]
  /\ session' = [session EXCEPT ![e] = IF e \in Clients THEN e ELSE NoSession]
  /\ UNCHANGED <<net, remote, silent, result>>

\* The client repeats its hello in every iteration of handshake.
SendHello(c) ==
  /\ phase[c] = "handshake"
  /\ net' \in Posted(net, Send("hello", c))
  /\ UNCHANGED <<phase, session, remote, silent, result>>

\* handshake or run ends with an error: nothing is sent.
Abandon(e, r) ==
  /\ phase' = [phase EXCEPT ![e] = "closed"]
  /\ result' = [result EXCEPT ![e] = r]
  /\ UNCHANGED <<net, session, remote, silent>>

\* The ten seconds of the client's handshake are over.
GiveUp(c) == phase[c] = "handshake" /\ Abandon(c, "timeout")

\* runCall's end: the peer is told and the socket is closed.
Leave(e, r) ==
  /\ phase' = [phase EXCEPT ![e] = "closed"]
  /\ result' = [result EXCEPT ![e] = r]
  /\ UNCHANGED <<session, remote, silent>>

\* Ctrl+C, or an error of the socket, at any time.
Interrupt(e) ==
  \/ /\ phase[e] = "handshake"
     /\ Abandon(e, "canceled")
  \/ /\ phase[e] \in {"opening", "call"}
     /\ Leave(e, "canceled")
     /\ net' \in Posted(net, Send("bye", e))

\* openAudio fails.
OpenFails(e) ==
  /\ phase[e] = "opening"
  /\ Leave(e, "failed")
  /\ net' \in Posted(net, Send("bye", e))

\* The devices are open and the workers start: lastAudio is now.
OpenAudio(e) ==
  /\ phase[e] = "opening"
  /\ phase' = [phase EXCEPT ![e] = "call"]
  /\ silent' = [silent EXCEPT ![e] = 0]
  /\ UNCHANGED <<net, session, remote, result>>

SendAudio(e) ==
  /\ phase[e] = "call"
  /\ net' \in Posted(net, Send("audio", e))
  /\ UNCHANGED <<phase, session, remote, silent, result>>

\* Mutant: reading without success counts as a sign of life.
PassForgets(e) ==
  /\ phase[e] = "call"
  /\ silent[e] <= SilenceLimit
  /\ silent' = [silent EXCEPT ![e] = 0]
  /\ UNCHANGED <<net, phase, session, remote, result>>

\* Time passes in a call.
Pass(e) ==
  /\ phase[e] = "call"
  /\ silent[e] <= SilenceLimit
  /\ silent' = [silent EXCEPT ![e] = @ + 1]
  /\ UNCHANGED <<net, phase, session, remote, result>>

\* receive finds that no audio came for too long.
TimeOut(e) ==
  /\ phase[e] = "call"
  /\ silent[e] > SilenceLimit
  /\ Leave(e, "timeout")
  /\ net' \in Posted(net, Send("bye", e))
-----------------------------------------------------------------------------
(* Receiving.  rest is what the network still holds.                       *)

Ignore(rest) ==
  /\ net' = rest
  /\ UNCHANGED <<phase, session, remote, silent, result>>

\* handshake in a server: the first hello makes the peer.
AcceptHello(v, m, rest) ==
  /\ session' = [session EXCEPT ![v] = m.session]
  /\ remote' = [remote EXCEPT ![v] = m.from]
  /\ phase' = [phase EXCEPT ![v] = "opening"]
  /\ net' \in Posted(rest, Datagram("accept", v, m.session, m.from))
  /\ UNCHANGED <<silent, result>>

\* Mutant: any accept ends the handshake.
AnyAccept(c, m) == m.kind = "accept" /\ m.from = remote[c]
IsAccept(c, m) ==
  m.kind = "accept" /\ m.from = remote[c] /\ m.session = session[c]

ReceiveInHandshake(e, m, rest) ==
  /\ phase[e] = "handshake"
  /\ \/ /\ e \in Servers /\ m.kind = "hello"
        /\ AcceptHello(e, m, rest)
     \/ /\ e \in Clients /\ IsAccept(e, m)
        /\ phase' = [phase EXCEPT ![e] = "opening"]
        /\ net' = rest
        /\ UNCHANGED <<session, remote, silent, result>>
     \/ /\ ~(e \in Servers /\ m.kind = "hello")
        /\ ~(e \in Clients /\ IsAccept(e, m))
        /\ Ignore(rest)

\* Mutant: the sender's address is all that is compared.
SameAddress(e, m) == m.from = remote[e]
FromPeer(e, m) == m.from = remote[e] /\ m.session = session[e]

\* Mutant: a hello in a call is not answered.
AnswerNothing(e, rest) == Ignore(rest)
AnswerHello(e, rest) ==
  /\ net' \in Posted(rest, Send("accept", e))
  /\ UNCHANGED <<phase, session, remote, silent, result>>

\* Mutant: a hello of anyone starts the call anew.
ReceiveAnyHello(e, m, rest) ==
  /\ phase[e] = "call"
  /\ IF m.kind = "hello" THEN AcceptHello(e, m, rest) ELSE Ignore(rest)

ReceiveInCall(e, m, rest) ==
  /\ phase[e] = "call"
  /\ \/ /\ FromPeer(e, m) /\ m.kind = "hello"
        /\ AnswerHello(e, rest)
     \/ /\ FromPeer(e, m) /\ m.kind = "bye"
        /\ Leave(e, "peerLeft")
        /\ net' \in Posted(rest, Send("bye", e))
     \/ /\ FromPeer(e, m) /\ m.kind = "audio"
        /\ silent' = [silent EXCEPT ![e] = 0]
        /\ net' = rest
        /\ UNCHANGED <<phase, session, remote, result>>
     \/ /\ ~FromPeer(e, m) \/ m.kind = "accept"
        /\ Ignore(rest)

Receive(e, m) ==
  LET rest == IF m.kind \in Repeated THEN net ELSE net \ {m}
  IN /\ m \in net
     /\ m.to = Address[e]
     /\ ReceiveInHandshake(e, m, rest) \/ ReceiveInCall(e, m, rest)

Next ==
  \/ \E e \in Endpoints :
       \/ Start(e) \/ Interrupt(e) \/ OpenFails(e) \/ OpenAudio(e)
       \/ SendAudio(e) \/ Pass(e) \/ TimeOut(e)
       \/ \E m \in net : Receive(e, m)
  \/ \E c \in Clients : SendHello(c) \/ GiveUp(c)

Spec == Init /\ [][Next]_vars

\* Clocks run and the loops look at them; the network owes nothing.
ClockFairness ==
  /\ \A e \in Endpoints :
       WF_vars(OpenAudio(e)) /\ WF_vars(Pass(e)) /\ WF_vars(TimeOut(e))
  /\ \A c \in Clients : WF_vars(GiveUp(c))

\* Programs keep trying, and of the datagrams sent again and again some
\* arrive.
RetryFairness ==
  /\ \A e \in Endpoints : WF_vars(OpenAudio(e))
  /\ \A c \in Clients :
       /\ WF_vars(SendHello(c) /\ Send("hello", c) \in net')
       /\ SF_vars(\E m \in net : m.kind = "accept" /\ Receive(c, m))
  /\ \A v \in Servers :
       SF_vars(\E m \in net : /\ m.kind = "hello"
                              /\ Receive(v, m)
                              /\ phase[v] = "call" => Send("accept", v) \in net')
-----------------------------------------------------------------------------
Connected(e) == phase[e] \in {"opening", "call"}
Accepted(c) == {v \in Servers : session[v] = c}

\* A client is in a call only when a server took it for its peer, whatever
\* datagrams of earlier executions were still under way (network.go,
\* handshake's check of address, session and kind).
CallAgreed == \A c \in Clients : Connected(c) => Accepted(c) # {}

\* A server's call ends because the peer left only when that client has left,
\* whatever earlier clients at its address still had under way.  A client's
\* call ends so only by the goodbye of a server that took this client; when
\* one server did, that one has left.  When two servers in turn took it, its
\* session does not tell them apart, and the late goodbye of the first ends
\* the call with the second: the code promises nothing there (network.go,
\* receive's check of address and session).
PeerHasLeft ==
  /\ \A v \in Servers : result[v] = "peerLeft" => phase[session[v]] = "closed"
  /\ \A c \in Clients : result[c] = "peerLeft" =>
       /\ Accepted(c) # {}
       /\ \A v \in Servers : Accepted(c) = {v} => phase[v] = "closed"

\* A server takes one peer for its lifetime (network.go: "Server accepts one
\* peer for the lifetime of the call").
OnePeer ==
  [][\A v \in Servers : session[v] # NoSession =>
       session'[v] = session[v] /\ remote'[v] = remote[v]]_vars

\* Nobody stays in a call with a peer that is gone, although its goodbye may
\* be lost, may overtake the accept, or may never have been sent (a client
\* that gave up before the server's accept arrived): clocks are enough.
NoOrphans ==
  ClockFairness =>
  /\ \A v \in Servers, c \in Clients :
       phase[v] = "call" /\ session[v] = c /\ phase[c] = "closed" ~> phase[v] = "closed"
  /\ \A c \in Clients :
       phase[c] = "call" /\ (\A v \in Servers : phase[v] = "closed") ~> phase[c] = "closed"

\* A client whose accept was lost gets another one in the call the server
\* has already begun (network.go: "Hello retries allow the client to recover
\* a lost accept datagram without starting another call").
AcceptRecovered ==
  RetryFairness => \A v \in Servers, c \in Clients :
    phase[v] = "call" /\ session[v] = c /\ phase[c] = "handshake"
      ~> phase[v] = "closed" \/ phase[c] # "handshake"
=============================================================================
