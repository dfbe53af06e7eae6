-------------------------- MODULE PracticalSocket --------------------------
(***************************************************************************)
(* cxx/udpecho/PracticalSocket: socket objects and the descriptors they    *)
(* own, in one process whose threads each use objects of their own.  A     *)
(* constructor is several system calls; if one fails, the exception        *)
(* unwinds what has been built, and the base class closes the descriptor.  *)
(*                                                                         *)
(* The operating system is external: it hands out the lowest free          *)
(* descriptor, keeps a queue of connections nobody has accepted, carries   *)
(* bytes in order, and lets any call fail.  UDP traffic is in UdpEcho.     *)
(***************************************************************************)
EXTENDS Integers, Sequences, FiniteSets

CONSTANTS
  Object,      \* the variables of the program that may hold a socket
  Class,       \* the class each of them is declared with
  Descriptor,  \* the descriptors the process may have open
  Port,        \* ports, numbers above 0
  Connection,  \* bound: connections at a time, numbers above 0
  Call,        \* the constructor calls the program makes
  QueueLen,    \* queueLen of every TCPServerSocket
  MaxBytes,    \* bound: bytes a side hands to send
  ShortWrites  \* may ::send take less than the whole buffer?

ASSUME DescriptorAssumption == Descriptor \subseteq Nat
ASSUME NumberAssumption ==
  /\ Port \subseteq Nat \ {0} /\ Connection \subseteq Nat \ {0}
  /\ QueueLen \in Nat /\ MaxBytes \in Nat /\ ShortWrites \in BOOLEAN

Side == {"client", "server"}
Other(s) == IF s = "client" THEN "server" ELSE "client"

\* The constructors; port 0 stands for a missing argument.
Constructor ==
  [class : {"TCPSocket", "UDPSocket"}, port : Port \cup {0}]
    \cup [class : {"TCPServerSocket"}, port : Port]
NoConstructor == [class |-> "none", port |-> 0]
ASSUME CallAssumption == Call \subseteq Constructor
ASSUME ClassAssumption == Class \in [Object -> {"TCPSocket", "TCPServerSocket", "UDPSocket"}]

Closed == [type |-> "closed", port |-> 0, listening |-> FALSE, queue |-> <<>>,
           conn |-> 0, side |-> "none"]
NoDesc == -1

\* What the system knows of one side of a connection: its state ("unused",
\* "queued", "open", "closed"), the bytes on their way to it, and whether it
\* has seen a reset.  History: how many bytes it has handed to send, and the
\* bytes its recv has returned.
NoEnd == [state |-> "unused", data |-> <<>>, rst |-> FALSE, given |-> 0, got |-> <<>>]

VARIABLES
  step,    \* of each object: "none", the constructor's next call, "live" or "unwind"
  made,    \* how it was constructed
  sockDesc,
  heard,   \* what the last send or recv made of it: "nothing", "data", "eof", "thrown"
  os,      \* the descriptor table
  tcp,     \* of each connection and side, see NoEnd
  killed   \* has SIGPIPE ended the process?

vars == <<step, made, sockDesc, heard, os, tcp, killed>>

Init ==
  /\ step = [o \in Object |-> "none"]
  /\ made = [o \in Object |-> NoConstructor]
  /\ sockDesc = [o \in Object |-> NoDesc]
  /\ heard = [o \in Object |-> "nothing"]
  /\ os = [d \in Descriptor |-> Closed]
  /\ tcp = [k \in Connection |-> [s \in Side |-> NoEnd]]
  /\ killed = FALSE
-----------------------------------------------------------------------------
Lowest(S) == {n \in S : \A i \in S : n <= i}
Free == {d \in Descriptor : os[d].type = "closed"}
Unused == {k \in Connection : \A s \in Side : tcp[k][s] = NoEnd}
Fd(o) == os[sockDesc[o]]

At(o, label) == ~killed /\ step[o] = label
Goto(o, label) == step' = [step EXCEPT ![o] = label]

\* The first call of a constructor's body, when there is one.
First(c) ==
  CASE c.class = "TCPServerSocket" -> "bind"
    [] c.class = "TCPSocket" -> IF c.port = 0 THEN "live" ELSE "connect"
    [] c.class = "UDPSocket" -> IF c.port = 0 THEN "broadcast" ELSE "bind"

\* Socket::Socket.  If socket() fails, as it does when every descriptor is in
\* use, there is no object to unwind.
New(o, c) ==
  /\ At(o, "none") /\ Class[o] = c.class
  /\ \E d \in Lowest(Free) :
       /\ sockDesc' = [sockDesc EXCEPT ![o] = d]
       /\ os' = [os EXCEPT ![d].type = IF c.class = "UDPSocket" THEN "dgram" ELSE "stream"]
  /\ made' = [made EXCEPT ![o] = c]
  /\ Goto(o, First(c))
  /\ UNCHANGED <<heard, tcp, killed>>

\* Mutant: the constructor closes the descriptor itself before it throws.
Throw_ClosesToo(o) ==
  /\ ~killed /\ step[o] \in {"bind", "listen", "connect"}
  /\ Goto(o, "unwind")
  /\ os' = [os EXCEPT ![sockDesc[o]] = Closed]
  /\ UNCHANGED <<made, sockDesc, heard, tcp, killed>>

\* A call of a constructor's body fails and throws.
Throw(o) ==
  /\ ~killed /\ step[o] \in {"bind", "listen", "connect"}
  /\ Goto(o, "unwind")
  /\ UNCHANGED <<made, sockDesc, heard, os, tcp, killed>>

SetLocalPort(o) ==
  /\ At(o, "bind")
  /\ ~ \E d \in Descriptor : os[d].type = Fd(o).type /\ os[d].port = made[o].port
  /\ os' = [os EXCEPT ![sockDesc[o]].port = made[o].port]
  /\ Goto(o, IF made[o].class = "UDPSocket" THEN "broadcast" ELSE "listen")
  /\ UNCHANGED <<made, sockDesc, heard, tcp, killed>>

SetListen(o) ==
  /\ At(o, "listen")
  /\ os' = [os EXCEPT ![sockDesc[o]].listening = TRUE]
  /\ Goto(o, "live")
  /\ UNCHANGED <<made, sockDesc, heard, tcp, killed>>

\* Whether setsockopt works is not looked at.
SetBroadcast(o) ==
  /\ At(o, "broadcast")
  /\ Goto(o, "live")
  /\ UNCHANGED <<made, sockDesc, heard, os, tcp, killed>>

\* fillAddr and ::connect, in the constructor or on its own.  The system
\* completes a connection before it is accepted, QueueLen + 1 of them.  A
\* connect on its own that fails leaves the object as it is.
Connect(o, p) ==
  /\ \/ At(o, "connect") /\ p = made[o].port
     \/ At(o, "live") /\ made[o].class = "TCPSocket" /\ Fd(o).conn = 0
  /\ \E l \in Descriptor, k \in Lowest(Unused) :
       /\ os[l].listening /\ os[l].port = p /\ Len(os[l].queue) <= QueueLen
       /\ os' = [os EXCEPT ![l].queue = Append(@, k),
                           ![sockDesc[o]].conn = k, ![sockDesc[o]].side = "client"]
       /\ tcp' = [tcp EXCEPT ![k]["client"].state = "open", ![k]["server"].state = "queued"]
  /\ Goto(o, "live")
  /\ UNCHANGED <<made, sockDesc, heard, killed>>

\* ::accept, and the new TCPSocket that n points to.  An accept that fails, as
\* it does when every descriptor is in use, throws and leaves the queue alone.
Accept(o, n) ==
  /\ At(o, "live") /\ At(n, "none") /\ Class[n] = "TCPSocket"
  /\ Fd(o).queue # <<>>
  /\ \E d \in Lowest(Free) :
       LET k == Head(Fd(o).queue) IN
       /\ os' = [os EXCEPT ![sockDesc[o]].queue = Tail(@),
            ![d] = [Closed EXCEPT !.type = "stream", !.conn = k, !.side = "server"]]
       /\ tcp' = [tcp EXCEPT ![k]["server"].state = "open"]
       /\ sockDesc' = [sockDesc EXCEPT ![n] = d]
  /\ made' = [made EXCEPT ![n] = [class |-> "TCPSocket", port |-> 0]]
  /\ Goto(n, "live")
  /\ UNCHANGED <<heard, killed>>
-----------------------------------------------------------------------------
Connected(o) == At(o, "live") /\ Fd(o).conn # 0
Mine(o) == tcp[Fd(o).conn][Fd(o).side]
Theirs(o) == tcp[Fd(o).conn][Other(Fd(o).side)]

\* o hands len bytes to ::send, which takes the sequence taken.
Transmit(o, len, taken) ==
  tcp' = [tcp EXCEPT
    ![Fd(o).conn][Fd(o).side].given = @ + len,
    ![Fd(o).conn][Other(Fd(o).side)].data = @ \o taken]
Bytes(o, n) == [i \in 1..n |-> Mine(o).given + i]
MayTransmit(o, len) ==
  ~Mine(o).rst /\ Theirs(o).state # "closed" /\ Mine(o).given + len <= MaxBytes

\* Mutant: after a short count the whole buffer is sent again.
Send_Again(o, len) ==
  /\ Connected(o)
  /\ MayTransmit(o, len)
  /\ \E n \in 0..len - 1 : Transmit(o, len, Bytes(o, n) \o Bytes(o, len))
  /\ UNCHANGED <<step, made, sockDesc, heard, os, killed>>

\* CommunicatingSocket::send of len bytes; what ::send did not take is not
\* sent again.  A connection the other side has closed takes the bytes once
\* more and answers with a reset; after that ::send fails, or raises SIGPIPE.
Send(o, len) ==
  /\ Connected(o)
  /\ \/ /\ MayTransmit(o, len)
        /\ \E n \in IF ShortWrites THEN 1..len ELSE {len} : Transmit(o, len, Bytes(o, n))
        /\ UNCHANGED <<heard, killed>>
     \/ /\ ~Mine(o).rst /\ Theirs(o).state = "closed"
        /\ tcp' = [tcp EXCEPT ![Fd(o).conn][Fd(o).side].rst = TRUE]
        /\ UNCHANGED <<heard, killed>>
     \/ /\ Mine(o).rst
        /\ heard' = [heard EXCEPT ![o] = "thrown"]
        /\ UNCHANGED <<tcp, killed>>
     \/ /\ Mine(o).rst
        /\ killed' = TRUE
        /\ UNCHANGED <<heard, tcp>>
  /\ UNCHANGED <<step, made, sockDesc, os>>

\* The side of o once recv has returned the first n bytes, and left of the rest.
Received(o, n, left) ==
  [Mine(o) EXCEPT !.got = @ \o SubSeq(Mine(o).data, 1, n), !.data = left]

\* CommunicatingSocket::recv: up to bufferLen bytes, 0 at the end, or throws.
Recv(o) ==
  /\ Connected(o)
  /\ \/ /\ \E n \in DOMAIN Mine(o).data :
             LET left == SubSeq(Mine(o).data, n + 1, Len(Mine(o).data)) IN
               tcp' = [tcp EXCEPT ![Fd(o).conn][Fd(o).side] = Received(o, n, left)]
        /\ heard' = [heard EXCEPT ![o] = "data"]
     \/ /\ Mine(o).data = <<>> /\ (Mine(o).rst \/ Theirs(o).state = "closed")
        /\ heard' = [heard EXCEPT ![o] = IF Mine(o).rst THEN "thrown" ELSE "eof"]
        /\ UNCHANGED tcp
  /\ UNCHANGED <<step, made, sockDesc, os, killed>>

\* Mutant: the destructor forgets the descriptor and does not close it.
Destroy_NoClose(o) ==
  /\ At(o, "live") \/ At(o, "unwind")
  /\ sockDesc' = [sockDesc EXCEPT ![o] = NoDesc]
  /\ made' = [made EXCEPT ![o] = NoConstructor]
  /\ heard' = [heard EXCEPT ![o] = "nothing"]
  /\ Goto(o, "none")
  /\ UNCHANGED <<os, tcp, killed>>

\* Socket::~Socket, at the end of an object's life or of its construction.
\* The system resets the connections nobody has accepted, and the connection
\* if there was something left to read.  It forgets a connection that both
\* sides have closed.
Destroy(o) ==
  /\ At(o, "live") \/ At(o, "unwind")
  /\ os' = [os EXCEPT ![sockDesc[o]] = Closed]
  /\ LET closes(k, s) ==
           \/ k = Fd(o).conn /\ s = Fd(o).side
           \/ s = "server" /\ \E i \in DOMAIN Fd(o).queue : Fd(o).queue[i] = k
         resets(k, s) == closes(k, s) /\ (Fd(o).listening \/ tcp[k][s].data # <<>>)
         over(k) == \A s \in Side : closes(k, s) \/ tcp[k][s].state = "closed" IN
       tcp' = [k \in Connection |-> [s \in Side |->
         IF over(k) THEN NoEnd
         ELSE IF closes(k, s) THEN [tcp[k][s] EXCEPT !.state = "closed", !.data = <<>>]
         ELSE [tcp[k][s] EXCEPT !.rst = @ \/ resets(k, Other(s))]]]
  /\ sockDesc' = [sockDesc EXCEPT ![o] = NoDesc]
  /\ made' = [made EXCEPT ![o] = NoConstructor]
  /\ heard' = [heard EXCEPT ![o] = "nothing"]
  /\ Goto(o, "none")
  /\ UNCHANGED killed

Next ==
  \E o \in Object :
    \/ \E c \in Call : New(o, c)
    \/ Throw(o) \/ SetLocalPort(o) \/ SetListen(o) \/ SetBroadcast(o)
    \/ \E p \in Port : Connect(o, p)
    \/ \E n \in Object : Accept(o, n)
    \/ \E len \in 1..MaxBytes : Send(o, len)
    \/ Recv(o) \/ Destroy(o)

Spec == Init /\ [][Next]_vars

\* A thread that is in recv gets what has arrived.
FairSpec == Spec /\ \A o \in Object : WF_vars(Recv(o))
-----------------------------------------------------------------------------
Built(o) == step[o] # "none"

\* Type invariant.
TypeOK ==
  /\ step \in [Object ->
       {"none", "bind", "listen", "connect", "broadcast", "live", "unwind"}]
  /\ made \in [Object -> Constructor \cup {NoConstructor}]
  /\ sockDesc \in [Object -> Descriptor \cup {NoDesc}]
  /\ \A o \in Object : Built(o) <=> sockDesc[o] # NoDesc
  /\ heard \in [Object -> {"nothing", "data", "eof", "thrown"}]
  /\ os \in [Descriptor ->
       [ type : {"closed", "stream", "dgram"}, port : Port \cup {0}, listening : BOOLEAN,
         queue : Seq(Connection), conn : Connection \cup {0}, side : Side \cup {"none"} ]]
  /\ tcp \in [Connection -> [Side ->
       [ state : {"unused", "queued", "open", "closed"}, data : Seq(Nat), rst : BOOLEAN,
         given : 0..MaxBytes, got : Seq(Nat) ]]]
  /\ killed \in BOOLEAN

\* Whatever fails in whichever constructor, every open descriptor belongs to
\* exactly one object, finished or half built: none leaks, and none is closed
\* under an object that still uses it.
OneOwner ==
  /\ \A d \in Descriptor :
       os[d].type # "closed" <=> \E o \in Object : Built(o) /\ sockDesc[o] = d
  /\ \A o, n \in Object : Built(o) /\ Built(n) /\ sockDesc[o] = sockDesc[n] => o = n

\* Nothing is received twice or out of order, and nothing that was not sent.
InOrder ==
  \A k \in Connection, s \in Side :
    LET g == tcp[k][s].got IN
      \A i \in DOMAIN g :
        /\ g[i] <= tcp[k][Other(s)].given
        /\ \A j \in 1..i - 1 : g[j] < g[i]

\* "Write the given buffer to this socket" (PracticalSocket.h:151): what recv
\* has returned is the beginning of what was handed to send.
WholeBuffer ==
  \A k \in Connection, s \in Side :
    \A i \in DOMAIN tcp[k][s].got : tcp[k][s].got[i] = i

\* Nobody holds side s of connection k any more, or will accept it.
Abandoned(k, s) ==
  ~ \E o \in Object :
      /\ Built(o)
      /\ \/ Fd(o).conn = k /\ Fd(o).side = s
         \/ s = "server" /\ \E i \in DOMAIN Fd(o).queue : Fd(o).queue[i] = k

\* o is connected, and nobody will ever speak to it again.
Forsaken(o) == Connected(o) /\ Abandoned(Fd(o).conn, Other(Fd(o).side))

\* A thread that reads to the end learns that the other object is gone, also
\* when the server ends before it accepts: destructors are all it takes.
HearsTheEnd ==
  \A o \in Object :
    Forsaken(o) ~> (killed \/ heard[o] \in {"eof", "thrown"} \/ ~Connected(o))
=============================================================================
