------------------------- MODULE EchoSocketsProofs -------------------------
(***************************************************************************)
(* Proof that EchoSockets implements UdpEcho, for any clients, ports and   *)
(* strings.  What the two programs keep in their sockets makes it work:    *)
(* SockInv, what a port guarantees, and WireInv, where a datagram can be.  *)
(* The theorems about UdpEcho then follow for the two programs.            *)
(***************************************************************************)
EXTENDS EchoSockets, TLAPS

LEMMA TypeInit == Init => TypeOK
  BY DEF Init, TypeOK

LEMMA PortFact ==
  /\ \A p \in Port : p \in Nat /\ p # 0
  /\ \A d \in Datagram : d.port \in Port /\ d.port # 0 /\ d.by \in Client /\ d # NoDatagram
<1>1. \A p \in Port : p \in Nat /\ p # 0
  BY PortsAssumption
<1>2. \A d \in Datagram : d.port \in Port /\ d.by \in Client
  BY DEF Datagram
<1>3. QED
  BY <1>1, <1>2 DEF NoDatagram

LEMMA TypeStep == TypeOK /\ [Next]_vars => TypeOK'
<1> SUFFICES ASSUME TypeOK, [Next]_vars PROVE TypeOK'
  OBVIOUS
<1> USE PortFact, TextsAssumption DEF TypeOK, client, serv
<1>1. ASSUME NEW c \in Client, Construct(c) PROVE TypeOK'
  BY <1>1 DEF Construct
<1>2. ASSUME NEW c \in Client, ClientSendTo(c) PROVE TypeOK'
  <2>1. PICK p \in Port : /\ sockPort' = [sockPort EXCEPT ![c] = p]
                          /\ toServer' = toServer \cup {[port |-> p, text |-> string[c], by |-> c]}
    BY <1>2 DEF ClientSendTo
  <2>2. [port |-> p, text |-> string[c], by |-> c] \in Datagram
    BY DEF Datagram
  <2>3. QED
    BY <1>2, <2>1, <2>2 DEF ClientSendTo
<1>3. ASSUME NEW c \in Client, ClientThrows(c) \/ RecvThrows(c) \/ Finish(c) \/ Kill(c) PROVE TypeOK'
  BY <1>3 DEF ClientThrows, RecvThrows, Finish, Kill, Ends
<1>4. ASSUME NEW c \in Client, Recv(c) PROVE TypeOK'
  BY <1>4 DEF Recv
<1>5. ASSUME NEW c \in Client, RecvFrom(c) PROVE TypeOK'
  BY <1>5 DEF RecvFrom
<1>6. ASSUME NEW c \in Client, ArriveRequest(c) \/ ArriveReply(c) PROVE TypeOK'
  BY <1>6 DEF ArriveRequest, ArriveReply, TakeOff
<1>7. CASE Bind \/ SendTo \/ ServerEnds \/ Lose
  BY <1>7 DEF Bind, SendTo, ServerEnds, Lose
<1>8. CASE UNCHANGED vars
  BY <1>8 DEF vars
<1>9. QED
  BY <1>1, <1>2, <1>3, <1>4, <1>5, <1>6, <1>7, <1>8 DEF Next, ClientStep

\* Every variable keeps its type.
THEOREM TypeCorrect == Spec => []TypeOK
  BY TypeInit, TypeStep, PTL DEF Spec
-----------------------------------------------------------------------------
(***************************************************************************)
(* A port belongs to one socket, and what is in a socket came to its port; *)
(* a client without a port has sent nothing and holds nothing.             *)
(***************************************************************************)
SockInv ==
  /\ \A c \in Client : at[c] \in {"start", "sendTo"} => sockPort[c] = 0
  /\ \A c \in Client : at[c] = "sendTo" => string[c].len <= ECHOMAX
  /\ \A c \in Client : \A d \in inbox[c] : d.port = sockPort[c]
  /\ \A b, c \in Client : sockPort[b] = sockPort[c] /\ sockPort[b] # 0 => b = c

Incoming == toServer \cup sinbox \cup Held \cup toClient
NotSent(c) == at[c] \in {"start", "sendTo"}

\* A datagram's client has sent it, and unless the network repeats it is in
\* one place only.
WireInv ==
  /\ \A d \in Incoming : ~NotSent(d.by)
  /\ \A c \in Client : \A d \in inbox[c] : ~NotSent(d.by)
  /\ ~net.repeats =>
       /\ toServer \cap sinbox = {} /\ toServer \cap toClient = {} /\ sinbox \cap toClient = {}
       /\ hand \notin toServer \cup sinbox \cup toClient
       /\ \A c \in Client : inbox[c] \cap (toServer \cup sinbox \cup toClient) = {}
       /\ \A c \in Client : hand \notin inbox[c]

Inv == TypeOK /\ SockInv /\ WireInv

LEMMA InvInit == Init => Inv
<1> SUFFICES ASSUME Init PROVE Inv
  OBVIOUS
<1>1. TypeOK
  BY TypeInit
<1>2. SockInv
  BY DEF Init, SockInv
<1>3. WireInv
  BY DEF Init, WireInv, Incoming, Held
<1>4. QED
  BY <1>1, <1>2, <1>3 DEF Inv

LEMMA SockStep == Inv /\ [Next]_vars => SockInv'
<1> SUFFICES ASSUME Inv, [Next]_vars PROVE SockInv'
  OBVIOUS
<1> USE PortFact, TextsAssumption DEF Inv, TypeOK, SockInv, client, serv
<1>1. ASSUME NEW c \in Client, Construct(c) PROVE SockInv'
  BY <1>1, EchomaxAssumption DEF Construct
<1>2. ASSUME NEW c \in Client, ClientSendTo(c) PROVE SockInv'
  <2>1. PICK p \in Port \ {sockPort[b] : b \in Client} :
          sockPort' = [sockPort EXCEPT ![c] = p]
    BY <1>2 DEF ClientSendTo
  <2>2. inbox[c] = {}
    BY <1>2 DEF ClientSendTo
  <2>3. QED
    BY <1>2, <2>1, <2>2 DEF ClientSendTo
<1>3. ASSUME NEW c \in Client, ClientThrows(c) \/ RecvThrows(c) \/ Finish(c) \/ Kill(c) PROVE SockInv'
  <2>1. PICK how \in {"failed", "aborted", "received", "unable", "killed"} : Ends(c, how)
    BY <1>3 DEF ClientThrows, RecvThrows, Finish, Kill
  <2>2. /\ at'[c] = how /\ sockPort'[c] = 0 /\ inbox'[c] = {} /\ string' = string
        /\ \A b \in Client : b # c =>
             at'[b] = at[b] /\ sockPort'[b] = sockPort[b] /\ inbox'[b] = inbox[b]
    BY <1>3, <2>1 DEF ClientThrows, RecvThrows, Finish, Kill, Ends
  <2>3. QED
    BY <2>2
<1>4. ASSUME NEW c \in Client, Recv(c) PROVE SockInv'
  BY <1>4 DEF Recv
<1>5. ASSUME NEW c \in Client, RecvFrom(c) \/ ArriveRequest(c) PROVE SockInv'
  BY <1>5 DEF RecvFrom, ArriveRequest
<1>6. ASSUME NEW c \in Client, ArriveReply(c) PROVE SockInv'
  BY <1>6 DEF ArriveReply
<1>7. CASE Bind \/ SendTo \/ ServerEnds \/ Lose \/ UNCHANGED vars
  BY <1>7 DEF Bind, SendTo, ServerEnds, Lose, vars
<1>8. QED
  BY <1>1, <1>2, <1>3, <1>4, <1>5, <1>6, <1>7 DEF Next, ClientStep

LEMMA WireStep == Inv /\ [Next]_vars => WireInv'
<1> SUFFICES ASSUME Inv, [Next]_vars PROVE WireInv'
  OBVIOUS
<1> USE PortFact DEF Inv, TypeOK, WireInv, Incoming, Held, NotSent, client, serv
<1>1. ASSUME NEW c \in Client, Construct(c) PROVE WireInv'
  BY <1>1 DEF Construct
<1>2. ASSUME NEW c \in Client, ClientSendTo(c) PROVE WireInv'
  <2>1. \E d \in Datagram : d.by = c /\ toServer' = toServer \cup {d}
    <3>1. PICK p \in Port : toServer' = toServer \cup {[port |-> p, text |-> string[c], by |-> c]}
      BY <1>2 DEF ClientSendTo
    <3> DEFINE d == [port |-> p, text |-> string[c], by |-> c]
    <3>2. d \in Datagram /\ d.by = c
      BY TextsAssumption DEF Datagram
    <3>3. QED
      BY <3>1, <3>2
  <2>2. PICK d \in Datagram : d.by = c /\ toServer' = toServer \cup {d}
    BY <2>1
  <2>3. d \notin Incoming /\ \A b \in Client : d \notin inbox[b]
    BY <1>2, <2>2 DEF ClientSendTo
  <2>4. QED
    BY <1>2, <2>2, <2>3 DEF ClientSendTo
<1>3. ASSUME NEW c \in Client, ClientThrows(c) \/ RecvThrows(c) \/ Finish(c) \/ Kill(c) PROVE WireInv'
  BY <1>3 DEF ClientThrows, RecvThrows, Finish, Kill, Ends
<1>4. ASSUME NEW c \in Client, Recv(c) PROVE WireInv'
  BY <1>4 DEF Recv
<1>5. ASSUME NEW c \in Client, RecvFrom(c) PROVE WireInv'
  BY <1>5 DEF RecvFrom
<1>6. ASSUME NEW c \in Client, ArriveRequest(c) PROVE WireInv'
  BY <1>6 DEF ArriveRequest, TakeOff
<1>7. ASSUME NEW c \in Client, ArriveReply(c) PROVE WireInv'
  BY <1>7 DEF ArriveReply, TakeOff
<1>8. CASE Bind \/ SendTo \/ ServerEnds
  BY <1>8 DEF Bind, SendTo, ServerEnds
<1>9. CASE Lose \/ UNCHANGED vars
  BY <1>9 DEF Lose, vars
<1>10. QED
  BY <1>1, <1>2, <1>3, <1>4, <1>5, <1>6, <1>7, <1>8, <1>9 DEF Next, ClientStep

LEMMA InvStep == Inv /\ [Next]_vars => Inv'
  BY TypeStep, SockStep, WireStep DEF Inv
-----------------------------------------------------------------------------
(* The steps, seen through the mapping *)

\* A client goes from one call to another, and the others stay where they are.
LEMMA MapOne ==
  ASSUME TypeOK, NEW c \in Client,
         \A b \in Client : b # c => at'[b] = at[b] /\ sockPort'[b] = sockPort[b]
  PROVE  /\ EchoState' = [EchoState EXCEPT ![c] = EchoState'[c]]
         /\ EchoPort' = [EchoPort EXCEPT ![c] = EchoPort'[c]]
<1>1. \A b \in Client : b # c => EchoState'[b] = EchoState[b] /\ EchoPort'[b] = EchoPort[b]
  BY DEF EchoState, EchoPort
<1>2. EchoState' = [b \in Client |-> EchoState'[b]] /\ EchoPort' = [b \in Client |-> EchoPort'[b]]
  BY DEF EchoState, EchoPort
<1>3. EchoState = [b \in Client |-> EchoState[b]] /\ EchoPort = [b \in Client |-> EchoPort[b]]
  BY DEF EchoState, EchoPort
<1>4. QED
  BY <1>1, <1>2, <1>3

LEMMA MapConstruct ==
  ASSUME Inv, NEW c \in Client, Construct(c)
  PROVE  Echo!Start(c) \/ UNCHANGED Echo!vars
<1> USE DEF Inv, TypeOK, client, serv
<1>1. /\ \A b \in Client : b # c => at'[b] = at[b] /\ sockPort'[b] = sockPort[b]
      /\ at[c] = "start"
      /\ at'[c] \in IF string[c].len > ECHOMAX THEN {"rejected"} ELSE {"sendTo", "failed"}
      /\ UNCHANGED <<string, sockPort, inbox, buffer, serv, toServer, toClient, net>>
  BY DEF Construct
<1>2. /\ EchoState' = [EchoState EXCEPT ![c] = EchoState'[c]]
      /\ EchoPort' = EchoPort /\ EchoState[c] = "idle"
  BY <1>1, MapOne DEF EchoState, EchoPort
<1>3. UNCHANGED <<string, buffer, EchoServer, Requests, Replies, net>>
  BY <1>1 DEF EchoServer, Requests, Replies, Held, InSockets
<1>4. CASE at'[c] = "sendTo"
  <2>1. EchoState'[c] = "idle"
    BY <1>4 DEF EchoState
  <2>2. EchoState' = EchoState
    BY <1>2, <2>1 DEF EchoState
  <2>3. QED
    BY <1>2, <1>3, <2>2 DEF Echo!vars
<1>5. CASE at'[c] # "sendTo"
  <2>1. EchoState'[c] = IF string[c].len > ECHOMAX THEN "rejected" ELSE "failed"
    BY <1>1, <1>5 DEF EchoState
  <2>2. QED
    BY <1>2, <1>3, <2>1 DEF Echo!Start
<1>6. QED
  BY <1>4, <1>5

LEMMA MapClientSendTo ==
  ASSUME Inv, NEW c \in Client, ClientSendTo(c)
  PROVE  Echo!Start(c)
<1> USE DEF Inv, TypeOK, client, serv
<1>1. PICK p \in Port \ {sockPort[b] : b \in Client} :
        /\ sockPort' = [sockPort EXCEPT ![c] = p]
        /\ toServer' = toServer \cup {[port |-> p, text |-> string[c], by |-> c]}
  BY DEF ClientSendTo
<1>2. /\ at[c] = "sendTo" /\ at' = [at EXCEPT ![c] = "recv"]
      /\ UNCHANGED <<string, inbox, buffer, serv, toClient, net>>
  BY DEF ClientSendTo
<1>3. /\ EchoState' = [EchoState EXCEPT ![c] = "waiting"]
      /\ EchoPort' = [EchoPort EXCEPT ![c] = p]
      /\ EchoState[c] = "idle"
  BY <1>1, <1>2, MapOne DEF EchoState, EchoPort
<1>4. p \in Port \ Echo!Open
  BY <1>1, PortFact DEF Echo!Open, EchoPort
<1>5. Requests' = Requests \cup {Echo!Request(c, p)}
  BY <1>1, <1>2 DEF Requests, Held, Echo!Request
<1>6. string[c].len <= ECHOMAX
  BY <1>2 DEF SockInv
<1>7. UNCHANGED <<string, buffer, EchoServer, Replies, net>>
  BY <1>2 DEF EchoServer, Replies, InSockets
<1>8. QED
  BY <1>3, <1>4, <1>5, <1>6, <1>7 DEF Echo!Start

LEMMA MapClientThrows ==
  ASSUME Inv, NEW c \in Client, ClientThrows(c)
  PROVE  Echo!Start(c)
<1> USE DEF Inv, TypeOK, client, serv
<1>1. /\ at[c] = "sendTo" /\ Ends(c, "failed")
      /\ UNCHANGED <<string, buffer, serv, toServer, toClient, net>>
  BY DEF ClientThrows
<1>2. /\ EchoState' = [EchoState EXCEPT ![c] = "failed"]
      /\ EchoPort' = EchoPort /\ EchoState[c] = "idle"
  BY <1>1, MapOne DEF EchoState, EchoPort, Ends
<1>3. inbox[c] = {} /\ ~(string[c].len > ECHOMAX)
  BY <1>1, PortFact, TextsAssumption, EchomaxAssumption DEF SockInv
<1>4. inbox' = inbox
  BY <1>1, <1>3 DEF Ends
<1>5. UNCHANGED <<string, buffer, EchoServer, Requests, Replies, net>>
  BY <1>1, <1>4 DEF EchoServer, Requests, Held, Replies, InSockets
<1>6. QED
  BY <1>2, <1>3, <1>5 DEF Echo!Start

LEMMA MapRecv ==
  ASSUME Inv, NEW c \in Client, Recv(c)
  PROVE  Echo!Receive(c)
<1> USE DEF Inv, TypeOK, client, serv
<1>1. PICK d \in inbox[c] :
        /\ inbox' = [inbox EXCEPT ![c] = @ \ {d}]
        /\ buffer' = [buffer EXCEPT ![c] = d]
        /\ at' = [at EXCEPT ![c] = IF d.text.len = string[c].len THEN "print" ELSE "complain"]
  BY DEF Recv
<1>2. at[c] = "recv" /\ UNCHANGED <<string, sockPort, serv, toServer, toClient, net>>
  BY DEF Recv
<1>3. /\ EchoState' = [EchoState EXCEPT ![c] =
             IF d.text.len = string[c].len THEN "received" ELSE "unable"]
      /\ EchoPort' = [EchoPort EXCEPT ![c] = 0]
      /\ EchoState[c] = "waiting" /\ EchoPort[c] = sockPort[c]
  BY <1>1, <1>2, MapOne DEF EchoState, EchoPort
<1>4. d \in Replies /\ d.port = EchoPort[c]
  BY <1>3 DEF Replies, InSockets, SockInv
<1>5. \A b \in Client : b # c => d \notin inbox[b]
  BY PortFact DEF SockInv
<1>6. ~net.repeats => d \notin toClient
  BY DEF WireInv
<1>7. InSockets' = InSockets \ {d}
  BY <1>1, <1>5 DEF InSockets
<1>8. Echo!TakeOut(d, Replies, Replies')
  <2>1. CASE d \in toClient
    BY <1>2, <1>4, <1>6, <1>7, <2>1 DEF Replies, Echo!TakeOut
  <2>2. CASE d \notin toClient
    BY <1>2, <1>7, <2>2 DEF Replies, Echo!TakeOut
  <2>3. QED
    BY <2>1, <2>2
<1>9. UNCHANGED <<string, EchoServer, Requests, net>>
  BY <1>2 DEF EchoServer, Requests, Held
<1>10. QED
  BY <1>1, <1>3, <1>4, <1>8, <1>9 DEF Echo!Receive, Echo!Take

\* What the closed socket held, and nothing else, may be gone.
LEMMA MapEnds ==
  ASSUME Inv, NEW c \in Client, NEW how, Ends(c, how), toClient' = toClient
  PROVE  \E S \in SUBSET inbox[c] : Replies' = Replies \ S
<1>1. inbox'[c] = {} /\ \A b \in Client : b # c => inbox'[b] = inbox[b]
  BY DEF Ends, Inv, TypeOK
<1> DEFINE S == {d \in inbox[c] : d \notin toClient /\ \A b \in Client : b # c => d \notin inbox[b]}
<1>2. InSockets' = UNION {inbox[b] : b \in Client \ {c}}
  BY <1>1 DEF InSockets
<1>3. Replies' = Replies \ S
  BY <1>2 DEF Replies, InSockets
<1>4. QED
  BY <1>3

LEMMA MapFinish ==
  ASSUME Inv, NEW c \in Client, Finish(c)
  PROVE  Echo!Discard
<1> USE DEF Inv, TypeOK, client, serv
<1>1. PICK how \in {"received", "unable"} :
        Ends(c, how) /\ at[c] = IF how = "received" THEN "print" ELSE "complain"
  BY DEF Finish
<1>2. UNCHANGED <<string, buffer, serv, toServer, toClient, net>>
  BY DEF Finish
<1>3. EchoState' = [EchoState EXCEPT ![c] = EchoState'[c]] /\ EchoPort' = EchoPort
  BY <1>1, MapOne DEF EchoState, EchoPort, Ends
<1>4. EchoState'[c] = EchoState[c]
  BY <1>1 DEF EchoState, Ends
<1>5. EchoState' = EchoState
  BY <1>3, <1>4 DEF EchoState
<1>6. PICK S \in SUBSET inbox[c] : Replies' = Replies \ S
  BY <1>1, <1>2, MapEnds
<1>7. \A d \in inbox[c] : d \in Replies /\ d.port \notin Echo!Open
  <2>1. \A b \in Client : EchoPort[b] # 0 => EchoPort[b] # sockPort[c]
    BY <1>1 DEF EchoPort, SockInv
  <2>2. QED
    BY <2>1 DEF Echo!Open, Replies, InSockets, SockInv
<1>8. UNCHANGED <<string, buffer, EchoServer, Requests, net>>
  BY <1>2 DEF EchoServer, Requests, Held
<1>9. QED
  BY <1>3, <1>5, <1>6, <1>7, <1>8 DEF Echo!Discard

\* Out of recv, or before it, with no answer.
LEMMA MapLeave ==
  ASSUME Inv, NEW c \in Client, NEW how \in {"aborted", "killed"},
         at[c] \in {"start", "sendTo", "recv"}, Ends(c, how),
         UNCHANGED <<string, buffer, serv, toServer, toClient, net>>
  PROVE  Echo!Leave(c, how)
<1> USE DEF Inv, TypeOK, client, serv
<1>1. /\ at[c] \in {"start", "sendTo", "recv"} /\ Ends(c, how)
      /\ UNCHANGED <<string, buffer, serv, toServer, toClient, net>>
  OBVIOUS
<1>2. /\ EchoState' = [EchoState EXCEPT ![c] = how]
      /\ EchoPort' = [EchoPort EXCEPT ![c] = 0]
  <2>1. /\ EchoState' = [EchoState EXCEPT ![c] = EchoState'[c]]
        /\ EchoPort' = [EchoPort EXCEPT ![c] = EchoPort'[c]]
    BY <1>1, MapOne DEF Ends
  <2>2. at'[c] = how
    BY <1>1 DEF Ends
  <2>3. EchoState'[c] = how /\ EchoPort'[c] = 0
    BY <2>2 DEF EchoState, EchoPort
  <2>4. QED
    BY <2>1, <2>3
<1>3. PICK S \in SUBSET inbox[c] : Replies' = Replies \ S
  BY <1>1, MapEnds
<1>4. \A d \in inbox[c] : d \in Replies /\ d.port = EchoPort[c]
  BY <1>1, PortFact DEF EchoPort, Replies, InSockets, SockInv
<1>5. UNCHANGED <<string, buffer, EchoServer, Requests, net>>
  BY <1>1 DEF EchoServer, Requests, Held
<1>6. QED
  BY <1>2, <1>3, <1>4, <1>5 DEF Echo!Leave

LEMMA MapRecvThrows ==
  ASSUME Inv, NEW c \in Client, RecvThrows(c)
  PROVE  Echo!ReceiveThrows(c)
<1>1. EchoState[c] = "waiting"
  BY DEF RecvThrows, EchoState
<1>2. Echo!Leave(c, "aborted")
  BY MapLeave DEF RecvThrows
<1>3. QED
  BY <1>1, <1>2 DEF Echo!ReceiveThrows

LEMMA MapKill ==
  ASSUME Inv, NEW c \in Client, Kill(c)
  PROVE  Echo!Interrupt(c)
<1>1. EchoState[c] \in {"idle", "waiting"}
  BY DEF Kill, EchoState
<1>2. Echo!Leave(c, "killed")
  BY MapLeave DEF Kill
<1>3. QED
  BY <1>1, <1>2 DEF Echo!Interrupt

LEMMA MapBind ==
  ASSUME Inv, Bind
  PROVE  Echo!Bind
<1>1. /\ EchoServer = "off" /\ EchoServer' \in {"up", "down"}
      /\ UNCHANGED <<string, EchoState, EchoPort, buffer, Requests, Replies>>
  BY DEF Bind, client, EchoServer, EchoState, EchoPort, Requests, Held, Replies, InSockets
<1>2. QED
  BY <1>1 DEF Bind, Echo!Bind

\* The datagram in the server's hand is still a request.
LEMMA MapRecvFrom ==
  ASSUME Inv, NEW c \in Client, RecvFrom(c)
  PROVE  UNCHANGED Echo!vars
<1> USE DEF Inv, TypeOK, client
<1>1. PICK d \in sinbox : hand' = d /\ sinbox' = sinbox \ {d}
  BY DEF RecvFrom
<1>2. /\ hand = NoDatagram /\ d # NoDatagram
      /\ srv = "recvFrom" /\ srv' = "sendTo"
      /\ UNCHANGED <<string, client, toServer, toClient, net>>
  BY PortFact DEF RecvFrom
<1>3. Requests' = Requests
  BY <1>1, <1>2 DEF Requests, Held
<1>4. UNCHANGED <<EchoState, EchoPort, EchoServer, Replies>>
  BY <1>2 DEF EchoState, EchoPort, EchoServer, Replies, InSockets
<1>5. QED
  BY <1>2, <1>3, <1>4 DEF Echo!vars

LEMMA MapSendTo ==
  ASSUME Inv, SendTo
  PROVE  \E c \in Client : Echo!Serve(c)
<1> USE DEF Inv, TypeOK, client
<1>1. /\ srv = "sendTo" /\ srv' = "recvFrom" /\ hand' = NoDatagram
      /\ toClient' = toClient \cup {hand}
      /\ UNCHANGED <<string, client, sinbox, toServer, net>>
  BY DEF SendTo
<1>2. hand \in Datagram /\ hand # NoDatagram /\ hand.by \in Client
  BY <1>1, PortFact
<1>3. hand \in Requests /\ Requests' = toServer \cup sinbox
  BY <1>1, <1>2 DEF Requests, Held
<1>4. Echo!TakeOut(hand, Requests, Requests')
  <2>1. Requests = Requests' \cup {hand}
    BY <1>2, <1>3 DEF Requests, Held
  <2>2. ~net.repeats => hand \notin Requests'
    BY <1>3 DEF WireInv
  <2>3. QED
    BY <2>1, <2>2 DEF Echo!TakeOut
<1>5. Replies' = Replies \cup {hand}
  BY <1>1 DEF Replies, InSockets
<1>6. /\ EchoServer = "up" /\ EchoServer' = "up"
      /\ UNCHANGED <<string, EchoState, EchoPort, buffer, net>>
  BY <1>1 DEF EchoServer, EchoState, EchoPort
<1>7. Echo!Serve(hand.by)
  BY <1>3, <1>4, <1>5, <1>6 DEF Echo!Serve
<1>8. QED
  BY <1>2, <1>7

LEMMA MapServerEnds ==
  ASSUME Inv, ServerEnds
  PROVE  Echo!Stop
<1>1. /\ EchoServer = "up" /\ EchoServer' = "down" /\ Requests' \subseteq Requests
      /\ UNCHANGED <<EchoState, EchoPort, buffer, Replies>>
  BY DEF ServerEnds, client, EchoServer, EchoState, EchoPort, Requests, Held, Replies, InSockets
<1>2. QED
  BY <1>1 DEF ServerEnds, Echo!Stop

\* From the wire into the server's socket, or, without a server, to nowhere.
LEMMA MapArriveRequest ==
  ASSUME Inv, NEW c \in Client, ArriveRequest(c)
  PROVE  Echo!Discard \/ UNCHANGED Echo!vars
<1> USE DEF Inv, TypeOK, client
<1>1. PICK d \in toServer :
        /\ TakeOff(d, toServer, toServer')
        /\ sinbox' = IF srv \in {"recvFrom", "sendTo"} THEN sinbox \cup {d} ELSE sinbox
  BY DEF ArriveRequest
<1>2. UNCHANGED <<string, client, srv, hand, toClient, net>>
  BY DEF ArriveRequest
<1>3. UNCHANGED <<EchoState, EchoPort, EchoServer, Replies>>
  BY <1>2 DEF EchoState, EchoPort, EchoServer, Replies, InSockets
<1>4. CASE srv \in {"recvFrom", "sendTo"}
  <2>1. Requests' = Requests
    BY <1>1, <1>2, <1>4 DEF Requests, Held, TakeOff
  <2>2. QED
    BY <1>2, <1>3, <2>1 DEF Echo!vars
<1>5. CASE srv \notin {"recvFrom", "sendTo"}
  <2>1. Requests' \subseteq Requests
    BY <1>1, <1>2, <1>5 DEF Requests, Held, TakeOff
  <2>2. EchoServer # "up"
    BY <1>5 DEF EchoServer
  <2>3. QED
    BY <1>2, <1>3, <2>1, <2>2 DEF Echo!Discard
<1>6. QED
  BY <1>4, <1>5

\* From the wire into the socket with that port, or to nowhere.
LEMMA MapArriveReply ==
  ASSUME Inv, NEW c \in Client, ArriveReply(c)
  PROVE  Echo!Discard \/ UNCHANGED Echo!vars
<1> USE DEF Inv, TypeOK, serv
<1>1. PICK d \in toClient :
        /\ TakeOff(d, toClient, toClient')
        /\ inbox' = [b \in Client |-> IF sockPort[b] = d.port THEN inbox[b] \cup {d} ELSE inbox[b]]
  BY DEF ArriveReply
<1>2. UNCHANGED <<string, at, sockPort, buffer, serv, toServer, net>>
  BY DEF ArriveReply
<1>3. UNCHANGED <<EchoState, EchoPort, EchoServer, Requests>>
  BY <1>2 DEF EchoState, EchoPort, EchoServer, Requests, Held
<1>4. CASE \E b \in Client : sockPort[b] = d.port
  <2>1. InSockets' = InSockets \cup {d}
    BY <1>1, <1>4 DEF InSockets
  <2>2. Replies' = Replies
    BY <1>1, <2>1 DEF Replies, TakeOff
  <2>3. QED
    BY <1>2, <1>3, <2>2 DEF Echo!vars
<1>5. CASE ~\E b \in Client : sockPort[b] = d.port
  <2>1. inbox' = inbox
    BY <1>1, <1>5
  <2>2. \E S \in SUBSET {d} : Replies' = Replies \ S
    <3>1. \A b \in Client : d \notin inbox[b]
      BY <1>5, PortFact DEF SockInv
    <3>2. InSockets' = InSockets /\ d \notin InSockets
      BY <2>1, <3>1 DEF InSockets
    <3>3. Replies' = Replies \ {d} \/ Replies' = Replies \ {}
      BY <1>1, <3>2 DEF Replies, TakeOff
    <3>4. QED
      BY <3>3
  <2>3. d \in Replies /\ d.port \notin Echo!Open
    BY <1>5, PortFact DEF Replies, Echo!Open, EchoPort
  <2>4. QED
    BY <1>2, <1>3, <2>2, <2>3 DEF Echo!Discard
<1>6. QED
  BY <1>4, <1>5

LEMMA MapLose ==
  ASSUME Inv, Lose
  PROVE  Echo!Lose \/ UNCHANGED Echo!vars
<1> USE DEF Inv, TypeOK, client, serv
<1>1. net.loses /\ UNCHANGED <<string, client, serv, net>>
  BY DEF Lose
<1>2. UNCHANGED <<EchoState, EchoPort, EchoServer>>
  BY <1>1 DEF EchoState, EchoPort, EchoServer
<1>3. ASSUME NEW d \in toServer, toServer' = toServer \ {d}, toClient' = toClient
      PROVE  Echo!Lose \/ UNCHANGED Echo!vars
  <2>1. Replies' = Replies /\ (Requests' = Requests \/ Requests' = Requests \ {d})
    BY <1>1, <1>3 DEF Requests, Held, Replies, InSockets
  <2>2. d \in Requests
    BY DEF Requests
  <2>3. QED
    BY <1>1, <1>2, <2>1, <2>2 DEF Echo!Lose, Echo!vars
<1>4. ASSUME NEW d \in toClient, toClient' = toClient \ {d}, toServer' = toServer
      PROVE  Echo!Lose \/ UNCHANGED Echo!vars
  <2>1. Requests' = Requests /\ (Replies' = Replies \/ Replies' = Replies \ {d})
    BY <1>1, <1>4 DEF Requests, Held, Replies, InSockets
  <2>2. d \in Replies
    BY DEF Replies
  <2>3. QED
    BY <1>1, <1>2, <2>1, <2>2 DEF Echo!Lose, Echo!vars
<1>5. QED
  BY <1>3, <1>4 DEF Lose
-----------------------------------------------------------------------------
LEMMA MapInit == Init => Echo!Init
  BY DEF Init, Echo!Init, Echo!NoDatagram, NoDatagram, EchoState, EchoPort, EchoServer,
         Requests, Held, Replies, InSockets

LEMMA MapNext == Inv /\ [Next]_vars => [Echo!Next]_Echo!vars
<1> SUFFICES ASSUME Inv, [Next]_vars PROVE Echo!Next \/ UNCHANGED Echo!vars
  OBVIOUS
<1>1. ASSUME NEW c \in Client, ClientStep(c) PROVE Echo!Next \/ UNCHANGED Echo!vars
  BY <1>1, MapConstruct, MapClientSendTo, MapClientThrows, MapRecv, MapRecvThrows,
     MapFinish, MapKill
     DEF ClientStep, Echo!Next
<1>2. ASSUME NEW c \in Client, RecvFrom(c) \/ ArriveRequest(c) \/ ArriveReply(c)
      PROVE  Echo!Next \/ UNCHANGED Echo!vars
  BY <1>2, MapRecvFrom, MapArriveRequest, MapArriveReply DEF Echo!Next
<1>3. CASE Bind \/ SendTo \/ ServerEnds \/ Lose
  BY <1>3, MapBind, MapSendTo, MapServerEnds, MapLose DEF Echo!Next
<1>4. CASE UNCHANGED vars
  BY <1>4 DEF vars, client, serv, Echo!vars, EchoState, EchoPort, EchoServer, Requests,
              Held, Replies, InSockets
<1>5. QED
  BY <1>1, <1>2, <1>3, <1>4 DEF Next

\* The two programs, call by call, do nothing that UdpEcho does not allow: what
\* is proved of UdpEcho is true of them.
THEOREM ImplementsUdpEcho == Spec => Implements
  BY InvInit, InvStep, MapInit, MapNext, PTL DEF Spec, Implements, Echo!Spec
-----------------------------------------------------------------------------
(***************************************************************************)
(* What the refinement is for: the theorems about UdpEcho, read through    *)
(* the mapping, are theorems about the two programs and their sockets.     *)
(***************************************************************************)
Abstract == INSTANCE UdpEchoProofs WITH
  state <- EchoState, port <- EchoPort, answer <- buffer,
  server <- EchoServer, requests <- Requests, replies <- Replies

LEMMA SameInit == Echo!Init => Abstract!Init
BY DEF Echo!Init, Abstract!Init, Echo!NoDatagram, Abstract!NoDatagram

LEMMA SameNext == [Echo!Next]_Echo!vars => [Abstract!Next]_Abstract!vars
<1>1. ASSUME NEW c \in Client
      PROVE  /\ Echo!Start(c) => Abstract!Start(c)
             /\ Echo!Receive(c) => Abstract!Receive(c)
             /\ Echo!ReceiveThrows(c) => Abstract!ReceiveThrows(c)
             /\ Echo!Interrupt(c) => Abstract!Interrupt(c)
             /\ Echo!Serve(c) => Abstract!Serve(c)
  <2>1. Echo!Start(c) => Abstract!Start(c)
    BY DEF Echo!Start, Abstract!Start, Echo!Open, Abstract!Open, Echo!Request, Abstract!Request
  <2>2. Echo!Receive(c) => Abstract!Receive(c)
    BY DEF Echo!Receive, Abstract!Receive, Echo!Take, Abstract!Take, Echo!TakeOut, Abstract!TakeOut
  <2>3. /\ Echo!ReceiveThrows(c) => Abstract!ReceiveThrows(c)
        /\ Echo!Interrupt(c) => Abstract!Interrupt(c)
    BY DEF Echo!ReceiveThrows, Abstract!ReceiveThrows, Echo!Interrupt, Abstract!Interrupt,
           Echo!Leave, Abstract!Leave
  <2>4. Echo!Serve(c) => Abstract!Serve(c)
    BY DEF Echo!Serve, Abstract!Serve, Echo!TakeOut, Abstract!TakeOut
  <2>5. QED
    BY <2>1, <2>2, <2>3, <2>4
<1>2. (Echo!Bind => Abstract!Bind) /\ (Echo!Stop => Abstract!Stop)
  BY DEF Echo!Bind, Abstract!Bind, Echo!Stop, Abstract!Stop
<1>3. (Echo!Lose => Abstract!Lose) /\ (Echo!Discard => Abstract!Discard)
  BY DEF Echo!Lose, Abstract!Lose, Echo!Discard, Abstract!Discard, Echo!Open, Abstract!Open
<1>4. Echo!Next => Abstract!Next
  BY <1>1, <1>2, <1>3 DEF Echo!Next, Abstract!Next
<1>5. UNCHANGED Echo!vars => UNCHANGED Abstract!vars
  BY DEF Echo!vars, Abstract!vars
<1>6. QED
  BY <1>4, <1>5

LEMMA Mapped == Spec => Abstract!Spec
BY ImplementsUdpEcho, SameInit, SameNext, PTL DEF Implements, Echo!Spec, Abstract!Spec

\* udpechoclient: what its recv returned is the echo of its own string, and it
\* goes on to print it, while nothing is repeated and no client is killed or
\* thrown out of its recv.
OwnEcho ==
  ~net.repeats /\ (\A c \in Client : at[c] \notin {"killed", "aborted"}) =>
    \A c \in Client :
      buffer[c] # NoDatagram => buffer[c].by = c /\ at[c] \in {"print", "received"}

\* udpechoclient and udpechoserver: no echo is returned by the recv of two
\* clients unless the network repeats it, whoever leaves without his and
\* whoever gets his port.
EchoTakenOnce ==
  ~net.repeats =>
    \A b, c \in Client :
      buffer[b] # NoDatagram /\ buffer[c] # NoDatagram /\ buffer[b].by = buffer[c].by => b = c

\* The lines of udpechoclient after its recv: call by call, with sockets and a
\* wire between the programs, a client that is answered prints its own string.
THEOREM OwnEchoAlways == Spec => []OwnEcho
<1>1. Spec => []Abstract!OwnEcho
  BY Mapped, Abstract!OwnEchoAlways, PortsAssumption, TextsAssumption, EchomaxAssumption
<1>2. TypeOK /\ Abstract!OwnEcho => OwnEcho
  <2> SUFFICES ASSUME TypeOK, Abstract!OwnEcho, ~net.repeats,
                      \A c \in Client : at[c] \notin {"killed", "aborted"},
                      NEW c \in Client, buffer[c] # NoDatagram
               PROVE  buffer[c].by = c /\ at[c] \in {"print", "received"}
    BY DEF OwnEcho
  <2>1. \A b \in Client : EchoState[b] \notin {"killed", "aborted"}
    BY DEF EchoState, TypeOK
  <2>2. buffer[c].by = c /\ EchoState[c] = "received"
    BY <2>1 DEF Abstract!OwnEcho, Abstract!Left, Abstract!NoDatagram, NoDatagram
  <2>3. at[c] \in {"print", "received"}
    BY <2>2 DEF EchoState, TypeOK
  <2>4. QED
    BY <2>2, <2>3
<1>3. QED
  BY <1>1, <1>2, TypeCorrect, PTL

\* The same for who takes an echo: at most one client, on a network that does
\* not repeat, even when ports change hands.
THEOREM EchoTakenOnceAlways == Spec => []EchoTakenOnce
<1>1. Spec => []Abstract!EchoTakenOnce
  BY Mapped, Abstract!EchoTakenOnceAlways, PortsAssumption, TextsAssumption, EchomaxAssumption
<1>2. Abstract!EchoTakenOnce => EchoTakenOnce
  BY DEF Abstract!EchoTakenOnce, EchoTakenOnce, Abstract!NoDatagram, NoDatagram
<1>3. QED
  BY <1>1, <1>2, PTL
=============================================================================
