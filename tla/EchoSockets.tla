---------------------------- MODULE EchoSockets ----------------------------
(***************************************************************************)
(* udpechoclient and udpechoserver call by call, each with its UDPSocket   *)
(* of PracticalSocket and what the system keeps in that socket: the local  *)
(* port that the first sendTo binds, the datagrams that have arrived, and  *)
(* the buffer the server holds between recvFrom and sendTo.  UdpEcho takes *)
(* the client's and the server's turns in single steps; Implements says    *)
(* that it may.                                                            *)
(*                                                                         *)
(* A socket's datagrams are a set: the network has no order to keep.  A    *)
(* receive buffer that is full is a network that loses.                    *)
(***************************************************************************)
EXTENDS Naturals

CONSTANTS
  Client, Port, Text, Given, ECHOMAX   \* see UdpEcho

ASSUME PortsAssumption == Port \subseteq Nat \ {0}
ASSUME TextsAssumption ==
  (\A t \in Text : t.len \in Nat) /\ Given \subseteq [Client -> Text]
ASSUME EchomaxAssumption == ECHOMAX \in Nat

VARIABLES
  string,    \* of each client: the echo string it was started with
  at,        \* its next call, or how it ended
  sockPort,  \* the local port of its socket, 0 while there is none
  inbox,     \* the datagrams in its socket
  buffer,    \* what its recv returned
  srv,       \* the server's next call: "bind", "recvFrom", "sendTo"; or "down"
  sinbox,    \* the datagrams in the server's socket
  hand,      \* the datagram between recvFrom and sendTo, with its source port
  toServer,  \* datagrams on the wire
  toClient,
  net        \* the network of this behaviour: may it lose, may it repeat?

client == <<at, sockPort, inbox, buffer>>
serv == <<srv, sinbox, hand>>
vars == <<string, client, serv, toServer, toClient, net>>

Datagram == [port : Port, text : Text, by : Client]
NoDatagram == [port |-> 0]

Init ==
  /\ string \in Given
  /\ at = [c \in Client |-> "start"]
  /\ sockPort = [c \in Client |-> 0]
  /\ inbox = [c \in Client |-> {}]
  /\ buffer = [c \in Client |-> NoDatagram]
  /\ srv = "bind" /\ sinbox = {} /\ hand = NoDatagram
  /\ toServer = {} /\ toClient = {}
  /\ net \in [loses : BOOLEAN, repeats : BOOLEAN]
-----------------------------------------------------------------------------
(* The client *)

\* A closed socket gives up its port and what it holds.
Ends(c, how) ==
  /\ at' = [at EXCEPT ![c] = how]
  /\ sockPort' = [sockPort EXCEPT ![c] = 0]
  /\ inbox' = [inbox EXCEPT ![c] = {}]

\* The length check, then UDPSocket::UDPSocket, which throws or not.
Construct(c) ==
  /\ at[c] = "start"
  /\ \E next \in IF string[c].len > ECHOMAX THEN {"rejected"} ELSE {"sendTo", "failed"} :
       at' = [at EXCEPT ![c] = next]
  /\ UNCHANGED <<string, sockPort, inbox, buffer, serv, toServer, toClient, net>>

\* sendTo on a socket without a port binds it to one that no socket has.
ClientSendTo(c) ==
  /\ at[c] = "sendTo"
  /\ \E p \in Port \ {sockPort[b] : b \in Client} :
       /\ sockPort' = [sockPort EXCEPT ![c] = p]
       /\ toServer' = toServer \cup {[port |-> p, text |-> string[c], by |-> c]}
  /\ at' = [at EXCEPT ![c] = "recv"]
  /\ UNCHANGED <<string, inbox, buffer, serv, toClient, net>>

\* fillAddr does not find the host, or sendto fails.
ClientThrows(c) ==
  /\ at[c] = "sendTo"
  /\ Ends(c, "failed")
  /\ UNCHANGED <<string, buffer, serv, toServer, toClient, net>>

\* Mutant: the datagram is looked at, but stays in the socket.
Recv_Peeks(c) ==
  /\ at[c] = "recv"
  /\ \E d \in inbox[c] :
       /\ buffer' = [buffer EXCEPT ![c] = d]
       /\ at' = [at EXCEPT ![c] = IF d.text.len = string[c].len THEN "print" ELSE "complain"]
  /\ UNCHANGED <<string, sockPort, inbox, serv, toServer, toClient, net>>

\* recv, and the comparison of the lengths.
Recv(c) ==
  /\ at[c] = "recv"
  /\ \E d \in inbox[c] :
       /\ inbox' = [inbox EXCEPT ![c] = @ \ {d}]
       /\ buffer' = [buffer EXCEPT ![c] = d]
       /\ at' = [at EXCEPT ![c] = IF d.text.len = string[c].len THEN "print" ELSE "complain"]
  /\ UNCHANGED <<string, sockPort, serv, toServer, toClient, net>>

\* recv fails and throws: the catch reports it and the client exits.
RecvThrows(c) ==
  /\ at[c] = "recv"
  /\ Ends(c, "aborted")
  /\ UNCHANGED <<string, buffer, serv, toServer, toClient, net>>

\* "Received" and the destructor, or "Unable to receive" and exit.
Finish(c) ==
  /\ \/ at[c] = "print" /\ Ends(c, "received")
     \/ at[c] = "complain" /\ Ends(c, "unable")
  /\ UNCHANGED <<string, buffer, serv, toServer, toClient, net>>

\* The user kills a client that has not got its answer.
Kill(c) ==
  /\ at[c] \in {"start", "sendTo", "recv"}
  /\ Ends(c, "killed")
  /\ UNCHANGED <<string, buffer, serv, toServer, toClient, net>>
-----------------------------------------------------------------------------
(* The server *)

Bind ==
  /\ srv = "bind"
  /\ srv' \in {"recvFrom", "down"}
  /\ UNCHANGED <<string, client, sinbox, hand, toServer, toClient, net>>

\* Of the datagrams in the socket, one that client c has sent.
RecvFrom(c) ==
  /\ srv = "recvFrom"
  /\ \E d \in sinbox : d.by = c /\ hand' = d /\ sinbox' = sinbox \ {d}
  /\ srv' = "sendTo"
  /\ UNCHANGED <<string, client, toServer, toClient, net>>

\* Mutant: the echo goes to no port.
SendTo_Nowhere ==
  /\ srv = "sendTo"
  /\ srv' = "recvFrom" /\ hand' = NoDatagram
  /\ UNCHANGED <<string, client, sinbox, toServer, toClient, net>>

SendTo ==
  /\ srv = "sendTo"
  /\ toClient' = toClient \cup {hand}
  /\ srv' = "recvFrom" /\ hand' = NoDatagram
  /\ UNCHANGED <<string, client, sinbox, toServer, net>>

\* recvFrom or sendTo throws, or a signal: the loop, the socket and the buffer are gone.
ServerEnds ==
  /\ srv \in {"recvFrom", "sendTo"}
  /\ srv' = "down" /\ sinbox' = {} /\ hand' = NoDatagram
  /\ UNCHANGED <<string, client, toServer, toClient, net>>
-----------------------------------------------------------------------------
(* The network *)

TakeOff(d, wire, wire1) == wire1 = wire \ {d} \/ (net.repeats /\ wire1 = wire)

\* A datagram that client c has sent reaches the server's host.
ArriveRequest(c) ==
  /\ \E d \in toServer :
       /\ d.by = c
       /\ TakeOff(d, toServer, toServer')
       /\ sinbox' = IF srv \in {"recvFrom", "sendTo"} THEN sinbox \cup {d} ELSE sinbox
  /\ UNCHANGED <<string, client, srv, hand, toClient, net>>

\* The echo of client c's string reaches the socket that has its port.
ArriveReply(c) ==
  /\ \E d \in toClient :
       /\ d.by = c
       /\ TakeOff(d, toClient, toClient')
       /\ inbox' = [b \in Client |->
            IF sockPort[b] = d.port THEN inbox[b] \cup {d} ELSE inbox[b]]
  /\ UNCHANGED <<string, at, sockPort, buffer, serv, toServer, net>>

Lose ==
  /\ net.loses
  /\ \/ \E d \in toServer : toServer' = toServer \ {d} /\ UNCHANGED toClient
     \/ \E d \in toClient : toClient' = toClient \ {d} /\ UNCHANGED toServer
  /\ UNCHANGED <<string, client, serv, net>>

ClientStep(c) ==
  \/ Construct(c) \/ ClientSendTo(c) \/ ClientThrows(c)
  \/ Recv(c) \/ RecvThrows(c) \/ Finish(c) \/ Kill(c)

Next ==
  \/ \E c \in Client :
       ClientStep(c) \/ RecvFrom(c) \/ ArriveRequest(c) \/ ArriveReply(c)
  \/ Bind \/ SendTo \/ ServerEnds \/ Lose

Spec == Init /\ [][Next]_vars

\* What is on the wire arrives, a socket passes no datagram over for ever, and
\* both programs go on when they can.
FairSpec ==
  /\ Spec
  /\ WF_vars(SendTo)
  /\ \A c \in Client :
       /\ WF_vars(ArriveRequest(c)) /\ WF_vars(ArriveReply(c))
       /\ SF_vars(RecvFrom(c)) /\ WF_vars(Recv(c))
-----------------------------------------------------------------------------
\* Type invariant.
TypeOK ==
  /\ string \in Given
  /\ at \in [Client -> {"start", "sendTo", "recv", "print", "complain", "received",
                        "unable", "rejected", "failed", "aborted", "killed"}]
  /\ sockPort \in [Client -> Port \cup {0}]
  /\ inbox \in [Client -> SUBSET Datagram]
  /\ buffer \in [Client -> Datagram \cup {NoDatagram}]
  /\ srv \in {"bind", "recvFrom", "sendTo", "down"}
  /\ sinbox \subseteq Datagram
  /\ hand \in IF srv = "sendTo" THEN Datagram ELSE {NoDatagram}
  /\ toServer \subseteq Datagram /\ toClient \subseteq Datagram
  /\ net \in [loses : BOOLEAN, repeats : BOOLEAN]

Held == {hand} \ {NoDatagram}
InSockets == UNION {inbox[c] : c \in Client}

\* What UdpEcho sees: a port counts while its client is in recv.
EchoState == [c \in Client |->
  CASE at[c] \in {"start", "sendTo"} -> "idle"
    [] at[c] = "recv" -> "waiting"
    [] at[c] = "print" -> "received"
    [] at[c] = "complain" -> "unable"
    [] OTHER -> at[c]]
EchoPort == [c \in Client |-> IF at[c] = "recv" THEN sockPort[c] ELSE 0]
EchoServer == CASE srv = "bind" -> "off" [] srv = "down" -> "down" [] OTHER -> "up"
Requests == toServer \cup sinbox \cup Held
Replies == toClient \cup InSockets

Echo == INSTANCE UdpEcho WITH
  state <- EchoState, port <- EchoPort, answer <- buffer,
  server <- EchoServer, requests <- Requests, replies <- Replies

\* Call by call, with two sockets and a wire between them, nothing happens that
\* UdpEcho does not allow: a datagram in the server's hand is still a request, a
\* client has its answer when recv returns, and what a closed socket held is
\* discarded.
Implements == Echo!Spec

\* A client whose request is on the wire or in the server's socket while the
\* server runs gets out of recv, unless the server stops or the network loses.
GetsEcho ==
  \A c \in Client :
    (/\ ~net.loses /\ at[c] = "recv" /\ srv \in {"recvFrom", "sendTo"}
     /\ \E d \in Requests : d.by = c)
      ~> (at[c] # "recv" \/ srv = "down")
=============================================================================
