--------------------------- MODULE UdpEchoProofs ---------------------------
(***************************************************************************)
(* Proofs about module UdpEcho, for every number of clients, ports and     *)
(* strings.                                                                *)
(***************************************************************************)
EXTENDS UdpEcho, TLAPS

LEMMA TypeInit == Init => TypeOK
  BY DEF Init, TypeOK

LEMMA TypeStep == TypeOK /\ [Next]_vars => TypeOK'
<1> SUFFICES ASSUME TypeOK, [Next]_vars PROVE TypeOK'
  OBVIOUS
<1> USE PortAssumption, TextAssumption DEF TypeOK
<1>1. ASSUME NEW c \in Client, Start(c) PROVE TypeOK'
  <2>1. /\ UNCHANGED <<string, answer, server, replies, net>>
        /\ \E next \in {"rejected", "failed", "waiting"} : state' = [state EXCEPT ![c] = next]
    BY <1>1 DEF Start
  <2>2. CASE UNCHANGED <<port, requests>>
    BY <2>1, <2>2
  <2>3. ASSUME NEW p \in Port, port' = [port EXCEPT ![c] = p],
               requests' = requests \cup {Request(c, p)}
        PROVE  TypeOK'
    <3>1. Request(c, p) \in Datagram
      BY DEF Request, Datagram
    <3>2. QED
      BY <2>1, <2>3, <3>1
  <2>4. QED
    BY <1>1, <2>2, <2>3 DEF Start
<1>2. ASSUME NEW c \in Client, Receive(c) PROVE TypeOK'
  BY <1>2 DEF Receive, Take, TakeOut
<1>3. ASSUME NEW c \in Client, ReceiveThrows(c) \/ Interrupt(c) PROVE TypeOK'
  <2>1. PICK how \in {"aborted", "killed"} : Leave(c, how)
    BY <1>3 DEF ReceiveThrows, Interrupt
  <2>2. replies' \subseteq replies
    BY <2>1 DEF Leave
  <2>3. QED
    BY <2>1, <2>2 DEF Leave
<1>4. ASSUME NEW c \in Client, Serve(c) PROVE TypeOK'
  BY <1>4 DEF Serve, TakeOut
<1>5. CASE Bind
  BY <1>5 DEF Bind
<1>6. CASE Stop
  BY <1>6 DEF Stop
<1>7. CASE Lose
  BY <1>7 DEF Lose
<1>8. CASE Discard
  BY <1>8 DEF Discard
<1>9. CASE UNCHANGED vars
  BY <1>9 DEF vars
<1>10. QED
  BY <1>1, <1>2, <1>3, <1>4, <1>5, <1>6, <1>7, <1>8, <1>9 DEF Next

\* Every variable keeps its type.
THEOREM TypeCorrect == Spec => []TypeOK
  BY TypeInit, TypeStep, PTL DEF Spec
-----------------------------------------------------------------------------
(***************************************************************************)
(* On a network that does not repeat, each client's datagram is in at most *)
(* one place: a request, a reply, or the answer some client took.          *)
(***************************************************************************)

\* Where the datagram of client b is: at most one d, in at most one place.
Sent == requests \cup replies
Answered(c) == answer[c] # NoDatagram

SingleInv ==
  /\ \A d \in Sent : state[d.by] # "idle" /\ d.text = string[d.by]
  /\ \A d, e \in Sent : d.by = e.by => d = e
  /\ requests \cap replies = {}
  /\ \A c \in Client : Answered(c) =>
       /\ state[c] \in {"received", "unable"}
       /\ state[answer[c].by] # "idle"
       /\ \A d \in Sent : d.by # answer[c].by
  /\ \A b, c \in Client :
       Answered(b) /\ Answered(c) /\ answer[b].by = answer[c].by => b = c

OnceInv == TypeOK /\ (net.repeats \/ SingleInv)

LEMMA OnceInit == Init => OnceInv
  BY TypeInit DEF Init, OnceInv, SingleInv, Sent, Answered

LEMMA SingleStart ==
  ASSUME TypeOK, SingleInv, NEW c \in Client, Start(c) PROVE SingleInv'
<1> USE DEF TypeOK, SingleInv, Sent, Answered
<1>1. \A d \in Sent : d.by \in Client
  BY DEF Datagram
<1>2. \A b \in Client : Answered(b) => b # c /\ answer[b].by \in Client
  BY DEF Start, Datagram
<1>3. CASE requests' = requests
  BY <1>1, <1>2, <1>3 DEF Start
<1>4. ASSUME NEW p \in Port, requests' = requests \cup {Request(c, p)}, state'[c] = "waiting"
      PROVE  SingleInv'
  BY <1>1, <1>2, <1>4 DEF Start, Request
<1>5. QED
  BY <1>3, <1>4 DEF Start

LEMMA SingleReceive ==
  ASSUME TypeOK, SingleInv, ~net.repeats, NEW c \in Client, Receive(c) PROVE SingleInv'
<1> USE DEF TypeOK, SingleInv, Sent, Answered
<1>1. PICK d \in replies : Take(c, d) /\ replies' = replies \ {d}
  BY DEF Receive, TakeOut
<1>2. d \in Datagram /\ d # NoDatagram /\ d.by \in Client
  BY PortAssumption DEF Datagram, NoDatagram
<1>3. /\ answer'[c] = d /\ \A b \in Client : b # c => answer'[b] = answer[b]
      /\ state'[c] \in {"received", "unable"}
      /\ \A b \in Client : b # c => state'[b] = state[b]
      /\ ~Answered(c)
  BY <1>1 DEF Take, Receive
<1>4. \A e \in Sent' : e \in Sent /\ e # d
  BY <1>1 DEF Receive
<1>5. \A e \in Sent : e.by \in Client
  BY DEF Datagram
<1>6. \A b \in Client : Answered(b) => answer[b].by \in Client /\ answer[b].by # d.by
  BY DEF Datagram
<1>7. requests' = requests /\ string' = string
  BY DEF Receive
<1>8. \A b \in Client : state'[b] = "idle" => state[b] = "idle"
  BY <1>3 DEF Receive
<1>9. QED
  BY <1>1, <1>2, <1>3, <1>4, <1>5, <1>6, <1>7, <1>8

LEMMA SingleServe ==
  ASSUME TypeOK, SingleInv, ~net.repeats, NEW c \in Client, Serve(c) PROVE SingleInv'
<1>1. PICK d \in requests : requests' = requests \ {d} /\ replies' = replies \cup {d}
  BY DEF Serve, TakeOut
<1>2. Sent' = Sent
  BY <1>1 DEF Sent
<1>3. QED
  BY <1>1, <1>2 DEF Serve, SingleInv, Sent, Answered

\* Datagrams only go, and nobody gets an answer.
LEMMA SingleLess ==
  ASSUME TypeOK, SingleInv, requests' \subseteq requests, replies' \subseteq replies,
         UNCHANGED <<string, answer>>,
         \A c \in Client : state'[c] = state[c] \/ (state[c] \in {"idle", "waiting"} /\ state'[c] \in {"aborted", "killed"})
  PROVE  SingleInv'
<1> USE DEF TypeOK, SingleInv, Sent, Answered
<1>1. \A d \in Sent : d.by \in Client
  BY DEF Datagram
<1>2. \A b \in Client : Answered(b) => answer[b].by \in Client /\ state'[b] = state[b]
  BY DEF Datagram
<1>3. QED
  BY <1>1, <1>2

LEMMA OnceStep == OnceInv /\ [Next]_vars => OnceInv'
<1> SUFFICES ASSUME OnceInv, [Next]_vars PROVE OnceInv'
  OBVIOUS
<1>1. TypeOK' /\ net' = net
  BY TypeStep DEF OnceInv, Next, vars, Start, Receive, ReceiveThrows, Interrupt, Leave, Serve,
                  Bind, Stop, Lose, Discard
<1> SUFFICES ASSUME ~net.repeats, SingleInv, TypeOK PROVE SingleInv'
  BY <1>1 DEF OnceInv
<1>2. ASSUME NEW c \in Client, Start(c) \/ Receive(c) \/ Serve(c) PROVE SingleInv'
  BY <1>2, SingleStart, SingleReceive, SingleServe
<1>3. ASSUME NEW c \in Client, ReceiveThrows(c) \/ Interrupt(c) PROVE SingleInv'
  BY <1>3, SingleLess DEF ReceiveThrows, Interrupt, Leave, TypeOK
<1>4. CASE Bind \/ Stop \/ Lose \/ Discard \/ UNCHANGED vars
  BY <1>4, SingleLess DEF Bind, Stop, Lose, Discard, vars
<1>5. QED
  BY <1>2, <1>3, <1>4 DEF Next

\* Unless the network repeats, no echo is taken by two clients, whoever leaves
\* without his and whichever ports are handed on.
THEOREM EchoTakenOnceAlways == Spec => []EchoTakenOnce
<1>1. OnceInv => EchoTakenOnce
  BY DEF OnceInv, SingleInv, Answered, EchoTakenOnce
<1>2. QED
  BY OnceInit, OnceStep, <1>1, PTL DEF Spec
-----------------------------------------------------------------------------
(***************************************************************************)
(* While nobody is killed or thrown out of recv either, a client holds its *)
(* port as long as its datagram is on its way, so that nobody else can     *)
(* take the echo.                                                          *)
(***************************************************************************)

OwnerInv ==
  /\ \A d \in Sent : port[d.by] = d.port
  /\ \A c \in Client : port[c] # 0 => state[c] = "waiting"
  /\ \A b, c \in Client : port[b] = port[c] /\ port[b] # 0 => b = c
  /\ \A c \in Client : Answered(c) => answer[c].by = c /\ state[c] = "received"

OwnInv == OnceInv /\ (net.repeats \/ Left \/ OwnerInv)

LEMMA OwnInit == Init => OwnInv
  BY OnceInit DEF Init, OwnInv, OwnerInv, Sent, Answered

LEMMA OwnerStart ==
  ASSUME TypeOK, SingleInv, OwnerInv, NEW c \in Client, Start(c) PROVE OwnerInv'
<1> USE DEF TypeOK, OwnerInv, SingleInv, Sent, Answered
<1>1. \A d \in Sent : d.by \in Client /\ d.by # c
  BY DEF Datagram, Start
<1>2. CASE requests' = requests /\ port' = port
  BY <1>1, <1>2 DEF Start
<1>3. ASSUME NEW p \in Port \ Open, requests' = requests \cup {Request(c, p)},
             port' = [port EXCEPT ![c] = p], state'[c] = "waiting"
      PROVE  OwnerInv'
  BY <1>1, <1>3, PortAssumption DEF Start, Request, Open
<1>4. QED
  BY <1>2, <1>3 DEF Start

LEMMA OwnerReceive ==
  ASSUME TypeOK, SingleInv, OwnerInv, ~net.repeats, NEW c \in Client, Receive(c)
  PROVE  OwnerInv'
<1> USE DEF TypeOK, OwnerInv, SingleInv, Sent, Answered
<1>1. PICK d \in replies : d.port = port[c] /\ Take(c, d) /\ replies' = replies \ {d}
  BY DEF Receive, TakeOut
<1>2. d \in Datagram /\ d.port # 0 /\ d.by \in Client
  BY PortAssumption DEF Datagram
<1>3. d.by = c /\ d.text = string[c]
  BY <1>1, <1>2
<1>4. /\ answer'[c] = d /\ state'[c] = "received" /\ port'[c] = 0
      /\ \A b \in Client : b # c =>
           answer'[b] = answer[b] /\ state'[b] = state[b] /\ port'[b] = port[b]
  BY <1>1, <1>3 DEF Take
<1>5. \A e \in Sent' : e \in Sent /\ e.by \in Client /\ e.by # c
  BY <1>1, <1>3 DEF Receive, Datagram
<1>6. QED
  BY <1>3, <1>4, <1>5

LEMMA OwnStep == OwnInv /\ [Next]_vars => OwnInv'
<1> SUFFICES ASSUME OwnInv, [Next]_vars PROVE OwnInv'
  OBVIOUS
<1>1. OnceInv' /\ net' = net
  BY OnceStep DEF OwnInv, Next, vars, Start, Receive, ReceiveThrows, Interrupt, Leave, Serve,
                  Bind, Stop, Lose, Discard
<1>2. Left => Left'
  BY DEF OwnInv, OnceInv, TypeOK, Left, Next, vars, Start, Receive, Take,
         ReceiveThrows, Interrupt, Leave, Serve, Bind, Stop, Lose, Discard
<1> SUFFICES ASSUME ~net.repeats, ~Left', SingleInv, TypeOK, OwnerInv PROVE OwnerInv'
  BY <1>1, <1>2 DEF OwnInv, OnceInv
<1>3. ASSUME NEW c \in Client, Start(c) \/ Receive(c) PROVE OwnerInv'
  BY <1>3, OwnerStart, OwnerReceive
<1>4. ASSUME NEW c \in Client, ReceiveThrows(c) \/ Interrupt(c) PROVE OwnerInv'
  BY <1>4 DEF ReceiveThrows, Interrupt, Leave, TypeOK, Left
<1>5. ASSUME NEW c \in Client, Serve(c) PROVE OwnerInv'
  <2>1. Sent' \subseteq Sent
    BY <1>5 DEF Serve, TakeOut, Sent
  <2>2. QED
    BY <1>5, <2>1 DEF Serve, OwnerInv, Sent, Answered
<1>6. CASE Bind \/ Stop \/ Lose \/ Discard \/ UNCHANGED vars
  <2>1. Sent' \subseteq Sent /\ UNCHANGED <<state, port, answer>>
    BY <1>6 DEF Bind, Stop, Lose, Discard, vars, Sent
  <2>2. QED
    BY <2>1 DEF OwnerInv, Answered
<1>7. QED
  BY <1>3, <1>4, <1>5, <1>6 DEF Next

\* On a network that does not repeat, and while no client is killed or thrown
\* out of its recv, every client takes the echo of its own string and prints it.
THEOREM OwnEchoAlways == Spec => []OwnEcho
<1>1. OwnInv => OwnEcho
  BY DEF OwnInv, OwnerInv, Left, Answered, OwnEcho
<1>2. QED
  BY OwnInit, OwnStep, <1>1, PTL DEF Spec
=============================================================================
