-------------------------- MODULE CallSetupProofs --------------------------
(***************************************************************************)
(* The entry into a call and its end for any number of executions, at any  *)
(* addresses, and for datagrams of all kinds being repeated: what          *)
(* CallAgreed, PeerHasLeft and OnePeer say of two executions of each       *)
(* program.                                                                *)
(***************************************************************************)
EXTENDS CallSetup, TLAPS

Addresses == {Address[e] : e \in Endpoints} \cup {ServerAddress}
Results == {"none", "timeout", "canceled", "failed", "peerLeft"}

TypeOK ==
  /\ phase \in [Endpoints -> Phases]
  /\ session \in [Endpoints -> Clients \cup {NoSession}]
  /\ remote \in [Endpoints -> Addresses]
  /\ result \in [Endpoints -> Results]

Active(e) == phase[e] \in {"handshake", "opening", "call"}

\* A client uses its own session from its start on.
ClientInv ==
  \A c \in Clients : session[c] = IF phase[c] = "off" THEN NoSession ELSE c

\* A server that has no peer has no session; its peer has started and is at
\* the address it answers to.
ServerInv ==
  \A v \in Servers :
    /\ phase[v] \in {"off", "handshake"} => session[v] = NoSession
    /\ Connected(v) => session[v] # NoSession
    /\ session[v] # NoSession =>
         remote[v] = Address[session[v]] /\ phase[session[v]] # "off"

\* Two executions do not run at one address.
AddressInv ==
  \A e, f \in Endpoints : e # f /\ Address[e] = Address[f] => ~(Active(e) /\ Active(f))

\* A server at its peer's own address: the peer has gone before it came.
SharedInv ==
  \A v \in Servers, c \in Clients :
    session[v] = c /\ Address[v] = Address[c] => phase[c] = "closed"

\* What a datagram under way says of its sender.
Good(m) ==
  /\ m.session \in Clients
  /\ m.kind = "hello" => m.from = Address[m.session] /\ phase[m.session] # "off"
  /\ m.kind = "accept" => \E v \in Servers : session[v] = m.session
  /\ m.kind = "bye" => \E e \in Endpoints :
       m.from = Address[e] /\ session[e] = m.session /\ phase[e] = "closed"

\* PeerHasLeft, for any number of servers that took a client.
SomeServerLeft ==
  \A e \in Endpoints : result[e] = "peerLeft" =>
    IF e \in Servers THEN phase[session[e]] = "closed"
    ELSE \E v \in Accepted(e) : phase[v] = "closed"

StateInv == TypeOK /\ ClientInv /\ ServerInv /\ AddressInv /\ SharedInv
EndInv   ==
  /\ CallAgreed /\ SomeServerLeft
  /\ \A v \in Servers : result[v] = "peerLeft" => session[v] # NoSession
NetInv   == \A m \in net : Good(m)
IInv     == StateInv /\ EndInv /\ NetInv

\* What no step undoes.
Later ==
  \A e \in Endpoints :
    /\ phase[e] # "off" => phase'[e] # "off"
    /\ phase[e] = "closed" => phase'[e] = "closed"
    /\ session[e] # NoSession => session'[e] = session[e]
-----------------------------------------------------------------------------
LEMMA InitIInv == Init => IInv
<1> SUFFICES ASSUME Init PROVE IInv
  OBVIOUS
<1>1. TypeOK
  BY DEF Init, TypeOK, Phases, Addresses, Results
<1>2. ClientInv /\ ServerInv /\ AddressInv /\ SharedInv
  BY SetupAssumption DEF Init, ClientInv, ServerInv, AddressInv, SharedInv, Active,
     Connected, Endpoints
<1>3. EndInv /\ NetInv
  BY DEF Init, EndInv, CallAgreed, SomeServerLeft, NetInv, Connected, Endpoints
<1> QED BY <1>1, <1>2, <1>3 DEF IInv, StateInv

\* What was true of a datagram when it was sent stays true.
LEMMA GoodStays ==
  ASSUME IInv, Later, NEW m, Good(m)
  PROVE  Good(m)'
<1>1. m.session \in Clients /\ m.session \in Endpoints /\ m.session # NoSession
  BY SetupAssumption DEF Good, Endpoints
<1>2. m.kind = "accept" => \E v \in Servers : session'[v] = m.session
  <2>1. SUFFICES ASSUME NEW v \in Servers, session[v] = m.session
                 PROVE  session'[v] = m.session
    BY DEF Good
  <2> QED BY <1>1, <2>1 DEF Later, Endpoints
<1>3. m.kind = "bye" => \E e \in Endpoints :
        m.from = Address[e] /\ session'[e] = m.session /\ phase'[e] = "closed"
  <2>1. SUFFICES ASSUME NEW e \in Endpoints, m.from = Address[e],
                        session[e] = m.session, phase[e] = "closed"
                 PROVE  session'[e] = m.session /\ phase'[e] = "closed"
    BY DEF Good
  <2> QED BY <1>1, <2>1 DEF Later
<1>4. m.kind = "hello" => m.from = Address[m.session] /\ phase'[m.session] # "off"
  BY <1>1 DEF Later, Good
<1> QED BY <1>1, <1>2, <1>3, <1>4 DEF Good

\* The datagrams after a step: older ones, and a good new one.
LEMMA NetGrows ==
  ASSUME IInv, Later, NEW b, net' \subseteq net \cup {b}, Good(b)'
  PROVE  NetInv'
<1> SUFFICES ASSUME NEW m \in net' PROVE Good(m)'
  BY DEF NetInv
<1>1. CASE m \in net
  BY <1>1, GoodStays DEF IInv, NetInv
<1>2. CASE m = b
  BY <1>2
<1> QED BY <1>1, <1>2

LEMMA NetShrinks ==
  ASSUME IInv, Later, net' \subseteq net
  PROVE  NetInv'
<1> SUFFICES ASSUME NEW m \in net' PROVE Good(m)'
  BY DEF NetInv
<1> QED BY GoodStays DEF IInv, NetInv

\* Steps that only send or drop datagrams.
LEMMA Sending ==
  ASSUME IInv, UNCHANGED <<phase, session, remote, result>>, NEW b,
         net' \subseteq net \/ (net' \subseteq net \cup {b} /\ Good(b))
  PROVE  IInv'
<1>1. StateInv'
  BY DEF IInv, StateInv, TypeOK, ClientInv, ServerInv, AddressInv, SharedInv, Active,
     Connected
<1>2. EndInv'
  BY DEF IInv, EndInv, CallAgreed, SomeServerLeft, Connected, Accepted
<1>3. Later
  BY DEF Later
<1>4. CASE net' \subseteq net
  BY <1>1, <1>2, <1>3, <1>4, NetShrinks DEF IInv
<1>5. CASE net' \subseteq net \cup {b} /\ Good(b)
  <2>1. Good(b)'
    BY <1>3, <1>5, GoodStays
  <2> QED BY <1>1, <1>2, <1>3, <1>5, <2>1, NetGrows DEF IInv
<1> QED BY <1>4, <1>5

\* An execution ends; it may say goodbye.
LEMMA Closing ==
  ASSUME IInv, NEW e \in Endpoints, NEW r \in Results, Active(e),
         phase' = [phase EXCEPT ![e] = "closed"],
         result' = [result EXCEPT ![e] = r],
         UNCHANGED <<session, remote>>,
         net' \subseteq net \cup {Send("bye", e)},
         net' \subseteq net \/ Connected(e),
         r = "peerLeft" =>
           IF e \in Servers THEN session[e] # NoSession /\ phase[session[e]] = "closed"
           ELSE \E v \in Accepted(e) : phase[v] = "closed"
  PROVE  IInv'
<1>1. /\ phase \in [Endpoints -> Phases] /\ result \in [Endpoints -> Results]
      /\ phase[e] # "off"
      /\ \A f \in Endpoints : phase'[f] = IF f = e THEN "closed" ELSE phase[f]
      /\ \A f \in Endpoints : result'[f] = IF f = e THEN r ELSE result[f]
  BY DEF IInv, StateInv, TypeOK, Active
<1>2. TypeOK'
  BY <1>1 DEF IInv, StateInv, TypeOK, Phases
<1>3. ClientInv' /\ AddressInv'
  BY <1>1 DEF IInv, StateInv, ClientInv, AddressInv, Active, Endpoints
<1>4. \A v \in Servers : session[v] \in Clients \cup {NoSession}
  BY DEF IInv, StateInv, TypeOK, Endpoints
<1>5. ServerInv'
  BY <1>1, <1>4 DEF IInv, StateInv, ServerInv, Connected, Endpoints
<1>6. SharedInv'
  BY <1>1 DEF IInv, StateInv, SharedInv, Endpoints
<1>7. CallAgreed'
  BY <1>1 DEF IInv, EndInv, CallAgreed, Connected, Accepted, Endpoints
<1>8. SomeServerLeft'
  <2>1. SUFFICES ASSUME NEW f \in Endpoints, result'[f] = "peerLeft"
                 PROVE  IF f \in Servers THEN phase'[session'[f]] = "closed"
                        ELSE \E v \in Accepted(f)' : phase'[v] = "closed"
    BY DEF SomeServerLeft
  <2>2. IF f \in Servers THEN session[f] # NoSession /\ phase[session[f]] = "closed"
        ELSE \E v \in Accepted(f) : phase[v] = "closed"
    BY <1>1, <2>1 DEF IInv, EndInv, SomeServerLeft
  <2>3. \A x \in Endpoints : phase[x] = "closed" => phase'[x] = "closed"
    BY <1>1
  <2>4. CASE f \in Servers
    BY <1>4, <2>2, <2>3, <2>4 DEF Endpoints
  <2>5. CASE f \notin Servers
    BY <2>2, <2>3, <2>5 DEF Accepted, Endpoints
  <2> QED BY <2>4, <2>5
<1>9. EndInv'
  BY <1>1, <1>7, <1>8 DEF IInv, EndInv, Endpoints
<1>10. Later
  BY <1>1 DEF Later
<1>11. NetInv'
  <2>1. CASE net' \subseteq net
    BY <1>10, <2>1, NetShrinks
  <2>2. CASE Connected(e)
    <3>1. session[e] \in Clients
      BY <2>2, <1>4, SetupAssumption DEF IInv, StateInv, ClientInv, ServerInv, Connected, Endpoints
    <3>2. PICK b : b = Send("bye", e)
      OBVIOUS
    <3>3. b.session = session[e] /\ b.kind = "bye" /\ b.from = Address[e]
      BY <3>2 DEF Send, Datagram
    <3>4. Good(b)'
      BY <1>1, <3>1, <3>3 DEF Good
    <3>5. net' \subseteq net \cup {b}
      BY <3>2
    <3> QED BY <1>10, <3>4, <3>5, NetGrows
  <2> QED BY <2>1, <2>2
<1> QED BY <1>2, <1>3, <1>5, <1>6, <1>9, <1>11 DEF IInv, StateInv

\* An execution goes on from one phase to the next, with the session it has.
LEMMA Advancing ==
  ASSUME IInv, NEW e \in Endpoints, NEW p \in {"opening", "call"}, Active(e),
         phase' = [phase EXCEPT ![e] = p],
         UNCHANGED <<session, remote, result>>,
         net' \subseteq net,
         Connected(e) \/ (e \in Clients /\ Accepted(e) # {})
  PROVE  IInv'
<1>1. /\ phase \in [Endpoints -> Phases]
      /\ \A f \in Endpoints : phase'[f] = IF f = e THEN p ELSE phase[f]
  BY DEF IInv, StateInv, TypeOK
<1>2. TypeOK'
  BY <1>1 DEF IInv, StateInv, TypeOK, Phases
<1>3. ClientInv' /\ AddressInv'
  BY <1>1 DEF IInv, StateInv, ClientInv, AddressInv, Active, Endpoints
<1>4. \A v \in Servers : session[v] \in Clients \cup {NoSession}
  BY DEF IInv, StateInv, TypeOK, Endpoints
<1>5. ServerInv'
  <2>1. e \in Servers => Connected(e)
    BY SetupAssumption
  <2> QED BY <1>1, <1>4, <2>1 DEF IInv, StateInv, ServerInv, Connected, Endpoints
<1>6. SharedInv'
  BY <1>1 DEF IInv, StateInv, SharedInv, Endpoints, Active
<1>7. CallAgreed'
  BY <1>1 DEF IInv, EndInv, CallAgreed, Connected, Accepted, Endpoints
<1>8. SomeServerLeft'
  <2>1. SUFFICES ASSUME NEW f \in Endpoints, result[f] = "peerLeft"
                 PROVE  IF f \in Servers THEN phase'[session[f]] = "closed"
                        ELSE \E v \in Accepted(f) : phase'[v] = "closed"
    BY DEF SomeServerLeft, Accepted
  <2>2. IF f \in Servers THEN session[f] # NoSession /\ phase[session[f]] = "closed"
        ELSE \E v \in Accepted(f) : phase[v] = "closed"
    BY <2>1 DEF IInv, EndInv, SomeServerLeft
  <2>3. \A x \in Endpoints : phase[x] = "closed" => phase'[x] = "closed"
    BY <1>1 DEF Active
  <2>4. CASE f \in Servers
    BY <1>4, <2>2, <2>3, <2>4 DEF Endpoints
  <2>5. CASE f \notin Servers
    BY <2>2, <2>3, <2>5 DEF Accepted, Endpoints
  <2> QED BY <2>4, <2>5
<1>9. EndInv'
  BY <1>7, <1>8 DEF IInv, EndInv
<1>10. Later
  BY <1>1 DEF Later, Active
<1>11. NetInv'
  BY <1>10, NetShrinks
<1> QED BY <1>2, <1>3, <1>5, <1>6, <1>9, <1>11 DEF IInv, StateInv

\* run: nobody else holds the address.
LEMMA Starting ==
  ASSUME IInv, NEW e \in Endpoints, Start(e)
  PROVE  IInv'
<1>1. /\ phase \in [Endpoints -> Phases] /\ phase[e] = "off"
      /\ session \in [Endpoints -> Clients \cup {NoSession}]
      /\ \A f \in Endpoints : phase'[f] = IF f = e THEN "handshake" ELSE phase[f]
      /\ \A f \in Endpoints : session'[f] =
           IF f = e THEN (IF e \in Clients THEN e ELSE NoSession) ELSE session[f]
      /\ \A f \in Endpoints : Address[f] = Address[e] => phase[f] \in {"off", "closed"}
      /\ UNCHANGED <<net, remote, result>>
  BY DEF IInv, StateInv, TypeOK, Start
<1>2. TypeOK'
  BY <1>1 DEF IInv, StateInv, TypeOK, Start, Phases
<1>3. session[e] = NoSession
  BY <1>1 DEF IInv, StateInv, ClientInv, ServerInv, Endpoints
<1>4. \A v \in Servers : v \in Endpoints /\ session'[v] = session[v]
  BY <1>1, <1>3, SetupAssumption DEF Endpoints
<1>5. ClientInv' /\ AddressInv'
  BY <1>1 DEF IInv, StateInv, ClientInv, AddressInv, Active, Endpoints
<1>6. ServerInv'
  BY <1>1, <1>4 DEF IInv, StateInv, ServerInv, Connected, Endpoints
<1>7. SharedInv'
  BY <1>1, <1>4 DEF IInv, StateInv, SharedInv, Endpoints
<1>8. CallAgreed'
  BY <1>1, <1>4 DEF IInv, EndInv, CallAgreed, Connected, Accepted, Endpoints
<1>9. SomeServerLeft'
  <2>1. SUFFICES ASSUME NEW f \in Endpoints, result[f] = "peerLeft"
                 PROVE  IF f \in Servers THEN phase'[session'[f]] = "closed"
                        ELSE \E v \in Accepted(f)' : phase'[v] = "closed"
    BY <1>1 DEF SomeServerLeft
  <2>2. IF f \in Servers THEN session[f] # NoSession /\ phase[session[f]] = "closed"
        ELSE \E v \in Accepted(f) : phase[v] = "closed"
    BY <2>1 DEF IInv, EndInv, SomeServerLeft
  <2>3. \A x \in Endpoints : phase[x] = "closed" => phase'[x] = "closed"
    BY <1>1
  <2>4. CASE f \in Servers
    <3>1. session[f] \in Endpoints
      BY <1>1, <2>2, <2>4 DEF Endpoints
    <3> QED BY <1>4, <2>2, <2>3, <2>4, <3>1
  <2>5. CASE f \notin Servers
    BY <1>4, <2>2, <2>3, <2>5 DEF Accepted
  <2> QED BY <2>4, <2>5
<1>10. EndInv'
  BY <1>1, <1>4, <1>8, <1>9 DEF IInv, EndInv
<1>11. Later
  BY <1>1, <1>3 DEF Later
<1>12. NetInv'
  BY <1>1, <1>11, NetShrinks
<1> QED BY <1>2, <1>5, <1>6, <1>7, <1>10, <1>12 DEF IInv, StateInv

\* The first hello makes the server's peer.
LEMMA Accepting ==
  ASSUME IInv, NEW v \in Servers, NEW m \in net, m.kind = "hello",
         phase[v] = "handshake", NEW rest, rest \subseteq net, AcceptHello(v, m, rest)
  PROVE  IInv'
<1>1. Good(m) /\ m.session \in Clients /\ m.from = Address[m.session]
      /\ phase[m.session] # "off"
  BY DEF IInv, NetInv, Good
<1>2. /\ phase \in [Endpoints -> Phases] /\ v \in Endpoints /\ m.session \in Endpoints
      /\ session \in [Endpoints -> Clients \cup {NoSession}]
      /\ remote \in [Endpoints -> Addresses]
      /\ \A f \in Endpoints : phase'[f] = IF f = v THEN "opening" ELSE phase[f]
      /\ \A f \in Endpoints : session'[f] = IF f = v THEN m.session ELSE session[f]
      /\ \A f \in Endpoints : remote'[f] = IF f = v THEN m.from ELSE remote[f]
      /\ UNCHANGED result
      /\ net' \subseteq rest \cup {Datagram("accept", v, m.session, m.from)}
  BY <1>1 DEF IInv, StateInv, TypeOK, AcceptHello, Endpoints, Posted
<1>3. v \notin Clients /\ m.session # v /\ m.session # NoSession
  BY <1>1, SetupAssumption
<1>4. session[v] = NoSession
  BY DEF IInv, StateInv, ServerInv
<1>5. TypeOK'
  BY <1>1, <1>2 DEF IInv, StateInv, TypeOK, AcceptHello, Phases, Addresses
<1>6. ClientInv' /\ AddressInv'
  BY <1>2, <1>3 DEF IInv, StateInv, ClientInv, AddressInv, Active, Endpoints
<1>7. ServerInv'
  BY <1>1, <1>2, <1>3 DEF IInv, StateInv, ServerInv, Connected, Endpoints
<1>8. SharedInv'
  <2>1. Address[v] = Address[m.session] => phase[m.session] = "closed"
    BY <1>1, <1>2, <1>3 DEF IInv, StateInv, AddressInv, Active, Phases
  <2> QED BY <1>2, <1>3, <2>1 DEF IInv, StateInv, SharedInv, Endpoints
<1>9. Later
  BY <1>2, <1>4 DEF Later
<1>10. \A c \in Clients, u \in Servers : u \in Accepted(c) => u \in Accepted(c)'
  BY <1>2, <1>4, SetupAssumption DEF Accepted, Endpoints
<1>11. CallAgreed'
  BY <1>2, <1>3, <1>10 DEF IInv, EndInv, CallAgreed, Connected, Accepted, Endpoints
<1>12. SomeServerLeft'
  <2>1. SUFFICES ASSUME NEW f \in Endpoints, result[f] = "peerLeft"
                 PROVE  IF f \in Servers THEN phase'[session'[f]] = "closed"
                        ELSE \E u \in Accepted(f)' : phase'[u] = "closed"
    BY <1>2 DEF SomeServerLeft
  <2>2. IF f \in Servers THEN session[f] # NoSession /\ phase[session[f]] = "closed"
        ELSE \E u \in Accepted(f) : phase[u] = "closed"
    BY <2>1 DEF IInv, EndInv, SomeServerLeft
  <2>3. \A x \in Endpoints : phase[x] = "closed" => phase'[x] = "closed"
    BY <1>9 DEF Later
  <2>4. CASE f \in Servers
    <3>1. session[f] \in Endpoints /\ session'[f] = session[f]
      BY <1>2, <1>4, <2>2, <2>4 DEF Endpoints
    <3> QED BY <2>2, <2>3, <2>4, <3>1
  <2>5. CASE f \notin Servers
    BY <1>10, <2>2, <2>3, <2>5 DEF Accepted, Endpoints
  <2> QED BY <2>4, <2>5
<1>13. EndInv'
  BY <1>2, <1>3, <1>11, <1>12 DEF IInv, EndInv, Endpoints
<1>14. NetInv'
  <2>1. PICK b : b = Datagram("accept", v, m.session, m.from)
    OBVIOUS
  <2>2. b.kind = "accept" /\ b.session = m.session
    BY <2>1 DEF Datagram
  <2>3. Good(b)'
    BY <1>1, <1>2, <2>2 DEF Good
  <2>4. net' \subseteq net \cup {b}
    BY <1>2, <2>1
  <2> QED BY <1>9, <2>3, <2>4, NetGrows
<1> QED BY <1>5, <1>6, <1>7, <1>8, <1>13, <1>14 DEF IInv, StateInv
-----------------------------------------------------------------------------
\* An execution that sends a datagram of its call tells the truth.
LEMMA GoodAccept ==
  ASSUME IInv, NEW e \in Endpoints, phase[e] = "call", NEW kind \in {"accept", "audio"},
         NEW b, b = Send(kind, e)
  PROVE  Good(b)
<1>1. b.kind = kind /\ b.session = session[e]
  BY DEF Send, Datagram
<1>2. CASE e \in Clients
  <2>1. session[e] = e /\ Accepted(e) # {}
    BY <1>2 DEF IInv, StateInv, EndInv, ClientInv, CallAgreed, Connected
  <2> QED BY <1>1, <1>2, <2>1 DEF Good, Accepted
<1>3. CASE e \in Servers
  <2>1. session[e] \in Clients
    BY <1>3 DEF IInv, StateInv, TypeOK, ServerInv, Connected
  <2> QED BY <1>1, <1>3, <2>1 DEF Good
<1> QED BY <1>2, <1>3 DEF Endpoints

\* A datagram of the peer that says goodbye: the peer has closed.
LEMMA GoodBye ==
  ASSUME IInv, NEW e \in Endpoints, phase[e] = "call", NEW m \in net,
         FromPeer(e, m), m.kind = "bye"
  PROVE  IF e \in Servers THEN session[e] # NoSession /\ phase[session[e]] = "closed"
         ELSE \E v \in Accepted(e) : phase[v] = "closed"
<1>1. /\ m.session \in Clients /\ m.session = session[e] /\ m.from = remote[e]
      /\ session[e] # NoSession
  BY SetupAssumption DEF IInv, NetInv, Good, FromPeer
<1>2. PICK f \in Endpoints :
        m.from = Address[f] /\ session[f] = m.session /\ phase[f] = "closed"
  BY DEF IInv, NetInv, Good
<1>3. CASE e \in Servers
  <2>1. CASE f \in Clients
    <3>1. session[f] = f
      BY <1>2, <2>1 DEF IInv, StateInv, ClientInv
    <3> QED BY <1>1, <1>2, <1>3, <3>1
  <2>2. CASE f \in Servers
    <3>1. remote[e] = Address[session[e]]
      BY <1>1, <1>3 DEF IInv, StateInv, ServerInv
    <3>2. phase[session[e]] = "closed"
      BY <1>1, <1>2, <2>2, <3>1 DEF IInv, StateInv, SharedInv
    <3> QED BY <1>1, <1>3, <3>2
  <2> QED BY <2>1, <2>2 DEF Endpoints
<1>4. CASE e \notin Servers
  <2>1. e \in Clients /\ session[e] = e
    BY <1>4 DEF IInv, StateInv, ClientInv, Endpoints
  <2>2. f \notin Clients
    BY <1>1, <1>2, <2>1 DEF IInv, StateInv, ClientInv
  <2>3. f \in Accepted(e)
    BY <1>1, <1>2, <2>1, <2>2 DEF Accepted, Endpoints
  <2> QED BY <1>2, <1>4, <2>3
<1> QED BY <1>3, <1>4

\* Receiving, in its branches.
LEMMA Receiving ==
  ASSUME IInv, NEW e \in Endpoints, NEW m \in net, Receive(e, m)
  PROVE  IInv'
<1> DEFINE left == IF m.kind \in Repeated THEN net ELSE net \ {m}
<1>1. PICK rest : rest = left
  OBVIOUS
<1>2. rest \subseteq net /\ (ReceiveInHandshake(e, m, rest) \/ ReceiveInCall(e, m, rest))
  BY <1>1 DEF Receive
<1> HIDE DEF left
<1>3. ASSUME Ignore(rest) PROVE IInv'
  BY <1>2, <1>3, Sending DEF Ignore
<1>4. CASE ReceiveInHandshake(e, m, rest)
  <2>1. CASE e \in Servers /\ m.kind = "hello" /\ AcceptHello(e, m, rest)
    BY <1>2, <1>4, <2>1, Accepting DEF ReceiveInHandshake
  <2>2. CASE /\ e \in Clients /\ IsAccept(e, m) /\ net' = rest
             /\ phase' = [phase EXCEPT ![e] = "opening"]
             /\ UNCHANGED <<session, remote, silent, result>>
    <3>1. Active(e) /\ session[e] = e
      BY <1>4, <2>2 DEF ReceiveInHandshake, Active, IInv, StateInv, ClientInv
    <3>2. Accepted(e) # {}
      BY <2>2, <3>1 DEF IInv, NetInv, Good, IsAccept, Accepted
    <3> QED BY <1>2, <2>2, <3>1, <3>2, Advancing
  <2> QED BY <1>3, <1>4, <2>1, <2>2 DEF ReceiveInHandshake
<1>5. CASE ReceiveInCall(e, m, rest)
  <2>1. phase[e] = "call" /\ Active(e) /\ Connected(e)
    BY <1>5 DEF ReceiveInCall, Active, Connected
  <2>2. CASE AnswerHello(e, rest)
    <3>1. PICK b : b = Send("accept", e)
      OBVIOUS
    <3>2. Good(b)
      BY <2>1, <3>1, GoodAccept
    <3>3. net' \subseteq net \cup {b}
      BY <1>2, <2>2, <3>1 DEF AnswerHello, Posted
    <3> QED BY <2>2, <3>2, <3>3, Sending DEF AnswerHello
  <2>3. CASE /\ FromPeer(e, m) /\ m.kind = "bye" /\ Leave(e, "peerLeft")
             /\ net' \in Posted(rest, Send("bye", e))
    <3>1. IF e \in Servers THEN session[e] # NoSession /\ phase[session[e]] = "closed"
          ELSE \E v \in Accepted(e) : phase[v] = "closed"
      BY <2>1, <2>3, GoodBye
    <3>2. net' \subseteq net \cup {Send("bye", e)} /\ "peerLeft" \in Results
      BY <1>2, <2>3 DEF Posted, Results
    <3> QED BY <2>1, <2>3, <3>1, <3>2, Closing DEF Leave
  <2>4. CASE /\ net' = rest /\ UNCHANGED <<phase, session, remote, result>>
    BY <1>2, <2>4, Sending
  <2> QED BY <1>3, <1>5, <2>2, <2>3, <2>4 DEF ReceiveInCall
<1> QED BY <1>2, <1>4, <1>5

\* Every step keeps the invariant.
LEMMA NextStep ==
  ASSUME IInv, [Next]_vars
  PROVE  IInv'
<1>1. ASSUME NEW e \in Endpoints, Start(e) PROVE IInv'
  BY <1>1, Starting
<1>2. ASSUME NEW e \in Endpoints, NEW r \in {"timeout", "canceled"},
             phase[e] = "handshake", Abandon(e, r)
      PROVE  IInv'
  <2>1. Active(e) /\ r \in Results /\ r # "peerLeft"
    BY <1>2 DEF Active, Results
  <2> QED BY <1>2, <2>1, Closing DEF Abandon
<1>3. ASSUME NEW e \in Endpoints, NEW r \in {"timeout", "canceled", "failed"},
             phase[e] \in {"opening", "call"}, Leave(e, r),
             net' \in Posted(net, Send("bye", e))
      PROVE  IInv'
  <2>1. Active(e) /\ Connected(e) /\ r \in Results /\ r # "peerLeft"
    BY <1>3 DEF Active, Connected, Results
  <2>2. net' \subseteq net \cup {Send("bye", e)}
    BY <1>3 DEF Posted
  <2> QED BY <1>3, <2>1, <2>2, Closing DEF Leave
<1>4. ASSUME NEW e \in Endpoints, OpenAudio(e) PROVE IInv'
  <2>1. Active(e) /\ Connected(e)
    BY <1>4 DEF OpenAudio, Active, Connected
  <2> QED BY <1>4, <2>1, Advancing DEF OpenAudio
<1>5. ASSUME NEW e \in Endpoints, SendAudio(e) PROVE IInv'
  <2>1. PICK b : b = Send("audio", e)
    OBVIOUS
  <2>2. Good(b)
    BY <1>5, <2>1, GoodAccept DEF SendAudio
  <2>3. net' \subseteq net \cup {b}
    BY <1>5, <2>1 DEF SendAudio, Posted
  <2> QED BY <1>5, <2>2, <2>3, Sending DEF SendAudio
<1>6. ASSUME NEW e \in Endpoints, Pass(e) PROVE IInv'
  BY <1>6, Sending DEF Pass
<1>7. ASSUME NEW c \in Clients, SendHello(c) PROVE IInv'
  <2>1. PICK b : b = Send("hello", c)
    OBVIOUS
  <2>2. b.kind = "hello" /\ b.session = c /\ b.from = Address[c] /\ phase[c] # "off"
    BY <1>7, <2>1 DEF SendHello, Send, Datagram, IInv, StateInv, ClientInv
  <2>3. Good(b)
    BY <2>2 DEF Good
  <2>4. net' \subseteq net \cup {b}
    BY <1>7, <2>1 DEF SendHello, Posted
  <2> QED BY <1>7, <2>3, <2>4, Sending DEF SendHello
<1>8. ASSUME NEW e \in Endpoints, NEW m \in net, Receive(e, m) PROVE IInv'
  BY <1>8, Receiving
<1>9. ASSUME NEW c \in Clients, GiveUp(c) PROVE IInv'
  BY <1>2, <1>9 DEF GiveUp, Endpoints
<1>10. ASSUME NEW e \in Endpoints, Interrupt(e) PROVE IInv'
  BY <1>2, <1>3, <1>10 DEF Interrupt
<1>11. ASSUME NEW e \in Endpoints, OpenFails(e) PROVE IInv'
  BY <1>3, <1>11 DEF OpenFails
<1>12. ASSUME NEW e \in Endpoints, TimeOut(e) PROVE IInv'
  BY <1>3, <1>12 DEF TimeOut
<1>13. CASE UNCHANGED vars
  BY <1>13, Sending DEF vars
<1> QED BY <1>1, <1>4, <1>5, <1>6, <1>7, <1>8, <1>9, <1>10, <1>11, <1>12, <1>13 DEF Next
-----------------------------------------------------------------------------
\* A client is only in a call that a server has accepted it for, whatever
\* earlier executions left in the network (handshake).
THEOREM CallAgreedHolds == Spec => []CallAgreed
<1>1. Init => IInv
  BY InitIInv
<1>2. IInv /\ [Next]_vars => IInv'
  BY NextStep
<1>3. IInv => CallAgreed
  BY DEF IInv, EndInv
<1> QED BY <1>1, <1>2, <1>3, PTL DEF Spec

\* A server's call ends as left by the peer only when its client has left; a
\* client's only by the goodbye of a server that took it, so that its one
\* server has left if there was one (receive).
THEOREM PeerHasLeftHolds == Spec => []PeerHasLeft
<1>1. Init => IInv
  BY InitIInv
<1>2. IInv /\ [Next]_vars => IInv'
  BY NextStep
<1>3. IInv => PeerHasLeft
  BY SetupAssumption DEF IInv, EndInv, SomeServerLeft, PeerHasLeft, Accepted, Endpoints
<1> QED BY <1>1, <1>2, <1>3, PTL DEF Spec

\* The peers a step may not change.
PeerKept ==
  \A v \in Servers : session[v] # NoSession =>
    session'[v] = session[v] /\ remote'[v] = remote[v]

LEMMA NextKeepsPeer ==
  ASSUME IInv, [Next]_vars
  PROVE  PeerKept
<1> DEFINE Same == UNCHANGED <<session, remote>>
<1>1. ASSUME Same PROVE PeerKept
  BY <1>1 DEF PeerKept
<1>2. ASSUME NEW e \in Endpoints, Start(e) PROVE PeerKept
  <2>1. e \in Servers => session[e] = NoSession
    BY <1>2 DEF Start, IInv, StateInv, ServerInv
  <2> QED BY <1>2, <2>1 DEF Start, PeerKept, IInv, StateInv, TypeOK, Endpoints
<1>3. ASSUME NEW e \in Endpoints, NEW m \in net, Receive(e, m) PROVE PeerKept
  <2> DEFINE left == IF m.kind \in Repeated THEN net ELSE net \ {m}
  <2>1. ReceiveInHandshake(e, m, left) \/ ReceiveInCall(e, m, left)
    BY <1>3 DEF Receive
  <2> HIDE DEF left
  <2>2. CASE e \in Servers /\ phase[e] = "handshake" /\ AcceptHello(e, m, left)
    <3>1. session[e] = NoSession
      BY <2>2 DEF IInv, StateInv, ServerInv
    <3> QED BY <2>2, <3>1 DEF AcceptHello, PeerKept, IInv, StateInv, TypeOK, Endpoints
  <2>3. CASE Same
    BY <1>1, <2>3
  <2> QED BY <2>1, <2>2, <2>3
        DEF ReceiveInHandshake, ReceiveInCall, Ignore, AnswerHello, Leave
<1>4. ASSUME NEW e \in Endpoints,
             \/ Interrupt(e) \/ OpenFails(e) \/ OpenAudio(e)
             \/ SendAudio(e) \/ Pass(e) \/ TimeOut(e)
      PROVE  PeerKept
  <2>1. Same
    BY <1>4 DEF Interrupt, OpenFails, OpenAudio, SendAudio, Pass, TimeOut, Abandon, Leave
  <2> QED BY <1>1, <2>1
<1>5. ASSUME NEW c \in Clients, SendHello(c) \/ GiveUp(c) PROVE PeerKept
  <2>1. Same
    BY <1>5 DEF SendHello, GiveUp, Abandon
  <2> QED BY <1>1, <2>1
<1>6. CASE UNCHANGED vars
  <2>1. Same
    BY <1>6 DEF vars
  <2> QED BY <1>1, <2>1
<1> HIDE DEF Same
<1> QED BY <1>2, <1>3, <1>4, <1>5, <1>6 DEF Next

\* A server keeps its first peer for its lifetime, whoever else sends hello
\* (handshake is not entered again; receive compares address and session).
THEOREM OnePeerHolds == Spec => OnePeer
<1>1. Init => IInv
  BY InitIInv
<1>2. IInv /\ [Next]_vars => IInv'
  BY NextStep
<1>3. IInv /\ [Next]_vars =>
        [\A v \in Servers : session[v] # NoSession =>
           session'[v] = session[v] /\ remote'[v] = remote[v]]_vars
  BY NextKeepsPeer DEF PeerKept
<1> QED BY <1>1, <1>2, <1>3, PTL DEF Spec, OnePeer
=============================================================================
