------------------------------ MODULE UdpEcho ------------------------------
(***************************************************************************)
(* cxx/udpecho: clients that send one string to the echo server and print  *)
(* what comes back, and the server that returns every datagram to the port *)
(* it came from.  The client has no timeout, no retry and no look at who   *)
(* answers; it compares lengths only.  EchoSockets is the same system, one *)
(* call at a time.                                                         *)
(*                                                                         *)
(* The network is external: it delivers datagrams in any order, and may    *)
(* lose and repeat them.  A datagram for a port nobody has open, or still  *)
(* in a socket that is closed, is discarded.                               *)
(***************************************************************************)
EXTENDS Naturals

CONSTANTS
  Client,   \* runs of udpechoclient
  Port,     \* the ephemeral ports the system hands out, numbers above 0
  Text,     \* echo strings: records [id, len]
  Given,    \* what the users give their clients, functions from Client to Text
  ECHOMAX   \* 255 in the code

ASSUME PortAssumption == Port \subseteq Nat \ {0}
ASSUME TextAssumption ==
  (\A t \in Text : t.len \in Nat) /\ Given \subseteq [Client -> Text]
ASSUME EchoAssumption == ECHOMAX \in Nat

VARIABLES
  string,    \* of each client: the echo string it was started with
  state,     \* "idle", "waiting" (in recv), "received", "unable",
             \* "rejected" (string too long), "failed" (exception before its
             \* request was sent), "aborted" (exception in recv), "killed"
  port,      \* the port of its socket, 0 when it has none
  answer,    \* history: the datagram it took for its echo
  server,    \* "off", "up", or "down" after an exception or a signal
  requests,  \* datagrams on their way to the server
  replies,   \* datagrams on their way to the clients
  net        \* the network of this behaviour: may it lose, may it repeat?

vars == <<string, state, port, answer, server, requests, replies, net>>

\* by is the client that sent the string, kept to tell datagrams apart.
Datagram == [port : Port, text : Text, by : Client]
NoDatagram == [port |-> 0]

Init ==
  /\ string \in Given
  /\ state = [c \in Client |-> "idle"]
  /\ port = [c \in Client |-> 0]
  /\ answer = [c \in Client |-> NoDatagram]
  /\ server = "off"
  /\ requests = {} /\ replies = {}
  /\ net \in [loses : BOOLEAN, repeats : BOOLEAN]

Open == {port[c] : c \in Client} \ {0}
Request(c, p) == [port |-> p, text |-> string[c], by |-> c]
-----------------------------------------------------------------------------
(* The client *)

\* Mutant: the port may be one that is in use.
Start_SharedPort(c) ==
  /\ state[c] = "idle"
  /\ \E p \in Port :
       /\ state' = [state EXCEPT ![c] = "waiting"]
       /\ port' = [port EXCEPT ![c] = p]
       /\ requests' = requests \cup {Request(c, p)}
  /\ UNCHANGED <<string, answer, server, replies, net>>

\* The length check, the socket, sendTo.  The socket is bound to a free port
\* by its first send; a name that does not resolve or a failed sendto throws,
\* and the client reports that and exits.
Start(c) ==
  /\ state[c] = "idle"
  /\ \/ /\ state' = [state EXCEPT ![c] =
             IF string[c].len > ECHOMAX THEN "rejected" ELSE "failed"]
        /\ UNCHANGED <<port, requests>>
     \/ /\ string[c].len <= ECHOMAX
        /\ state' = [state EXCEPT ![c] = "waiting"]
        /\ \E p \in Port \ Open :
             /\ port' = [port EXCEPT ![c] = p]
             /\ requests' = requests \cup {Request(c, p)}
  /\ UNCHANGED <<string, answer, server, replies, net>>

\* d leaves the set it travels in, or a copy of it stays behind.
TakeOut(d, set, set1) == set1 = set \ {d} \/ (net.repeats /\ set1 = set)

Take(c, d) ==
  /\ answer' = [answer EXCEPT ![c] = d]
  /\ state' = [state EXCEPT ![c] =
       IF d.text.len = string[c].len THEN "received" ELSE "unable"]
  /\ port' = [port EXCEPT ![c] = 0]

\* Mutant: the datagram is looked at, but stays in the socket.
Receive_Peeks(c) ==
  /\ state[c] = "waiting"
  /\ \E d \in replies : d.port = port[c] /\ Take(c, d)
  /\ UNCHANGED <<string, server, requests, replies, net>>

\* recv, the comparison of the lengths, and the exit that closes the socket.
Receive(c) ==
  /\ state[c] = "waiting"
  /\ \E d \in replies : /\ d.port = port[c]
                        /\ Take(c, d)
                        /\ TakeOut(d, replies, replies')
  /\ UNCHANGED <<string, server, requests, net>>

\* The process ends without an answer: its port is free, and what its socket
\* holds is gone.
Leave(c, how) ==
  /\ state' = [state EXCEPT ![c] = how]
  /\ port' = [port EXCEPT ![c] = 0]
  /\ \E S \in SUBSET {d \in replies : d.port = port[c]} : replies' = replies \ S
  /\ UNCHANGED <<string, answer, server, requests, net>>

\* recv fails and throws; the client reports that and exits.
ReceiveThrows(c) ==
  /\ state[c] = "waiting"
  /\ Leave(c, "aborted")

\* The user kills a client that does not come back.
Interrupt(c) ==
  /\ state[c] \in {"idle", "waiting"}
  /\ Leave(c, "killed")
-----------------------------------------------------------------------------
(* The server *)

\* The constructor of the server's socket, which throws if the port is taken.
Bind ==
  /\ server = "off"
  /\ server' \in {"up", "down"}
  /\ UNCHANGED <<string, state, port, answer, requests, replies, net>>

\* Mutant: the server receives but does not answer.
Serve_Silent(c) ==
  /\ server = "up"
  /\ \E d \in requests : d.by = c /\ TakeOut(d, requests, requests')
  /\ UNCHANGED <<string, state, port, answer, server, replies, net>>

\* One turn of the loop, recvFrom and sendTo, for a datagram of client c.
Serve(c) ==
  /\ server = "up"
  /\ \E d \in requests : /\ d.by = c
                         /\ TakeOut(d, requests, requests')
                         /\ replies' = replies \cup {d}
  /\ UNCHANGED <<string, state, port, answer, server, net>>

\* recvFrom or sendTo throws, and the catch around the loop ends the server; or
\* it is killed.
Stop ==
  /\ server = "up"
  /\ server' = "down"
  /\ requests' \in SUBSET requests
  /\ UNCHANGED <<string, state, port, answer, replies, net>>
-----------------------------------------------------------------------------
(* The network *)

Lose ==
  /\ net.loses
  /\ \/ \E d \in requests : requests' = requests \ {d} /\ UNCHANGED replies
     \/ \E d \in replies : replies' = replies \ {d} /\ UNCHANGED requests
  /\ UNCHANGED <<string, state, port, answer, server, net>>

Discard ==
  /\ \/ /\ server # "up"
        /\ requests' \in SUBSET requests /\ UNCHANGED replies
     \/ /\ \E S \in SUBSET {d \in replies : d.port \notin Open} : replies' = replies \ S
        /\ UNCHANGED requests
  /\ UNCHANGED <<string, state, port, answer, server, net>>

Next ==
  \/ \E c \in Client : Start(c) \/ Receive(c) \/ ReceiveThrows(c) \/ Interrupt(c) \/ Serve(c)
  \/ Bind \/ Stop \/ Lose \/ Discard

Spec == Init /\ [][Next]_vars

\* The server serves what has arrived, in the order of its socket, so that no
\* client is passed over for ever; and a client that has an answer in its
\* socket takes it.
FairSpec == Spec /\ \A c \in Client : WF_vars(Serve(c)) /\ WF_vars(Receive(c))
-----------------------------------------------------------------------------
\* Type invariant.
TypeOK ==
  /\ string \in Given
  /\ state \in [Client -> {"idle", "waiting", "received", "unable", "rejected", "failed",
                      "aborted", "killed"}]
  /\ port \in [Client -> Port \cup {0}]
  /\ answer \in [Client -> Datagram \cup {NoDatagram}]
  /\ server \in {"off", "up", "down"}
  /\ requests \subseteq Datagram /\ replies \subseteq Datagram
  /\ net \in [loses : BOOLEAN, repeats : BOOLEAN]

\* Has a client left that may have had its request under way?
Left == \E c \in Client : state[c] \in {"killed", "aborted"}

\* While nothing is repeated and no client is killed or thrown out of its recv,
\* the answer a client takes is the echo of its own string, so none ends "Unable
\* to receive": one request, one reply, and the port is not given away before
\* the reply is in.
OwnEcho ==
  ~net.repeats /\ ~Left =>
    \A c \in Client : answer[c] # NoDatagram => answer[c].by = c /\ state[c] = "received"

\* Once a client has left with its request under way, another may take an echo
\* meant for its port's last owner, and leave its own to the next owner.  Even
\* then no echo is taken by two clients unless the network repeats it.
EchoTakenOnce ==
  ~net.repeats =>
    \A b, c \in Client :
      answer[b] # NoDatagram /\ answer[c] # NoDatagram /\ answer[b].by = answer[c].by => b = c

\* A client whose datagram is on its way between it and a running server ends,
\* unless the server stops or the network loses: there is no timeout to end it
\* otherwise, and a request from before the server was up is gone.
Underway(c) == \E d \in requests \cup replies : d.by = c
ClientEnds ==
  \A c \in Client :
    (~net.loses /\ state[c] = "waiting" /\ server = "up" /\ Underway(c))
      ~> (state[c] # "waiting" \/ server = "down")
=============================================================================
