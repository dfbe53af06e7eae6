----------------------- MODULE PracticalSocketProofs -----------------------
(***************************************************************************)
(* Whatever fails, every open descriptor has exactly one owner; and bytes  *)
(* are received in order, each once.                                       *)
(*                                                                         *)
(* Owners.  The inductive invariant is the type invariant, SidesOK and     *)
(* OneOwner.  New, Accept and Destroy open or close a descriptor; the      *)
(* other steps change fields of one that stays open, or bytes on a         *)
(* connection (SameOwners, BytesOnly).  The lemmas on Fields and EndFields *)
(* change one field at a time.                                             *)
(*                                                                         *)
(* Bytes.  EndsOK says where each end of a connection is; with it, every   *)
(* step is one of five Moves for each direction of each connection, and    *)
(* what the moves keep is a matter of sequences (FlowMoves, WholeMoves).   *)
(***************************************************************************)
EXTENDS PracticalSocket, SequenceTheorems, TLAPS

USE DescriptorAssumption, NumberAssumption, CallAssumption

Fields == [ type : {"closed", "stream", "dgram"}, port : Port \cup {0},
            listening : BOOLEAN, queue : Seq(Connection),
            conn : Connection \cup {0}, side : Side \cup {"none"} ]
EndFields == [ state : {"unused", "queued", "open", "closed"}, data : Seq(Nat),
               rst : BOOLEAN, given : 0..MaxBytes, got : Seq(Nat) ]
ObjectsOK ==
  /\ step \in [Object ->
       {"none", "bind", "listen", "connect", "broadcast", "live", "unwind"}]
  /\ made \in [Object -> Constructor \cup {NoConstructor}]
  /\ sockDesc \in [Object -> Descriptor \cup {NoDesc}]
  /\ \A o \in Object : Built(o) <=> sockDesc[o] # NoDesc
  /\ heard \in [Object -> {"nothing", "data", "eof", "thrown"}]
  /\ killed \in BOOLEAN
TableOK == os \in [Descriptor -> Fields]
TcpOK == tcp \in [Connection -> [Side -> EndFields]]

\* A connected descriptor knows its side.
SidesOK == \A d \in Descriptor : os[d].conn # 0 => os[d].side # "none"

OwnerInv == ObjectsOK /\ TableOK /\ SidesOK /\ TcpOK /\ OneOwner

LEMMA TypeParts == TypeOK <=> ObjectsOK /\ TableOK /\ TcpOK
BY DEF TypeOK, ObjectsOK, TableOK, TcpOK, Fields, EndFields

LEMMA NoDescIsNone == NoDesc \notin Descriptor
BY DEF NoDesc

LEMMA ClosedIsTyped == Closed \in Fields /\ NoEnd \in EndFields
BY DEF Closed, NoEnd, Fields, EndFields

LEMMA TypeFieldOK ==
  ASSUME NEW d \in Descriptor, NEW f \in Fields, NEW t \in {"closed", "stream", "dgram"}
  PROVE  [f EXCEPT !.type = t] \in Fields
BY DEF Fields

LEMMA FieldsOK ==
  ASSUME NEW f \in Fields
  PROVE  /\ \A p \in Port \cup {0} : [f EXCEPT !.port = p] \in Fields
         /\ [f EXCEPT !.listening = TRUE] \in Fields
         /\ \A q \in Seq(Connection) : [f EXCEPT !.queue = q] \in Fields
         /\ \A k \in Connection, s \in Side : [f EXCEPT !.conn = k, !.side = s] \in Fields
BY DEF Fields

LEMMA OnlyField ==
  ASSUME NEW f \in Fields, NEW v
  PROVE  /\ \A g \in {[f EXCEPT !.port = v], [f EXCEPT !.listening = v], [f EXCEPT !.queue = v]} :
              g.type = f.type /\ g.conn = f.conn /\ g.side = f.side
BY DEF Fields

LEMMA InitOwner == Init => OwnerInv
<1> SUFFICES ASSUME Init PROVE OwnerInv
  OBVIOUS
<1> USE DEF Init
<1>1. ObjectsOK
  BY DEF ObjectsOK, Built
<1>2. TableOK /\ SidesOK /\ TcpOK
  BY ClosedIsTyped DEF TableOK, SidesOK, TcpOK, Closed
<1>3. OneOwner
  BY DEF OneOwner, Built, Closed
<1> QED BY <1>1, <1>2, <1>3 DEF OwnerInv

\* A step that opens a descriptor for an object that had none.
LEMMA OneMore ==
  ASSUME OwnerInv, NEW o \in Object, NEW d \in Descriptor, os[d].type = "closed",
         ~Built(o), Built(o)', sockDesc' = [sockDesc EXCEPT ![o] = d],
         \A n \in Object \ {o} : Built(n)' = Built(n),
         \A e \in Descriptor : os'[e].type # "closed" <=> os[e].type # "closed" \/ e = d
  PROVE  OneOwner'
<1>1. sockDesc'[o] = d /\ \A n \in Object \ {o} : sockDesc'[n] = sockDesc[n]
  BY DEF OwnerInv, ObjectsOK
<1>2. \A n \in Object : Built(n) => sockDesc[n] # d
  BY DEF OwnerInv, OneOwner
<1> QED BY <1>1, <1>2 DEF OwnerInv, OneOwner

LEMMA NewKeepsOwner ==
  ASSUME OwnerInv, NEW o \in Object, NEW c \in Call, New(o, c)
  PROVE  OwnerInv'
<1> USE DEF New, OwnerInv, At, Goto
<1>1. PICK d \in Lowest(Free) :
        /\ sockDesc' = [sockDesc EXCEPT ![o] = d]
        /\ os' = [os EXCEPT ![d].type = IF c.class = "UDPSocket" THEN "dgram" ELSE "stream"]
  OBVIOUS
<1>2. d \in Descriptor /\ os[d].type = "closed" /\ d # NoDesc
  BY NoDescIsNone DEF Lowest, Free
<1>3. c \in Constructor /\ First(c) \in {"live", "bind", "connect", "broadcast"}
  BY DEF First, Constructor
<1>4. ObjectsOK'
  BY <1>1, <1>2, <1>3 DEF ObjectsOK, Built
<1>5. TableOK'
  BY <1>1, <1>2, TypeFieldOK DEF TableOK
<1>6. TcpOK' /\ SidesOK'
  BY <1>1, <1>2 DEF TcpOK, TableOK, SidesOK, Fields
<1>7. OneOwner'
  <2>1. \A e \in Descriptor : os'[e].type # "closed" <=> os[e].type # "closed" \/ e = d
    BY <1>1, <1>2 DEF TableOK, Fields
  <2>2. ~Built(o) /\ Built(o)' /\ \A n \in Object \ {o} : Built(n)' = Built(n)
    BY <1>3 DEF ObjectsOK, Built
  <2> QED BY <1>1, <1>2, <2>1, <2>2, OneMore
<1> QED BY <1>4, <1>5, <1>6, <1>7

\* The steps that open and close nothing.
LEMMA SameOwners ==
  ASSUME OneOwner, sockDesc' = sockDesc,
         \A o \in Object : Built(o)' = Built(o),
         \A d \in Descriptor : os'[d].type = os[d].type
  PROVE  OneOwner'
BY DEF OneOwner

LEMMA OwnDescriptor ==
  ASSUME OwnerInv, NEW o \in Object, step[o] # "none"
  PROVE  sockDesc[o] \in Descriptor /\ Fd(o) \in Fields
BY DEF OwnerInv, ObjectsOK, TableOK, Built, Fd

LEMMA CallsKeepOwner ==
  ASSUME OwnerInv, NEW o \in Object,
         Throw(o) \/ SetLocalPort(o) \/ SetListen(o) \/ SetBroadcast(o)
  PROVE  OwnerInv'
<1> USE DEF Throw, SetLocalPort, SetListen, SetBroadcast, OwnerInv, At, Goto
<1>0. step[o] # "none"
  OBVIOUS
<1>1. ObjectsOK'
  BY DEF ObjectsOK, Built
<1>2. made[o].port \in Port \cup {0}
  BY DEF ObjectsOK, Constructor, NoConstructor
<1>3. TableOK' /\ SidesOK' /\ \A d \in Descriptor : os'[d].type = os[d].type
  <2>1. CASE os' = os
    BY <2>1 DEF TableOK, SidesOK
  <2>2. CASE SetLocalPort(o)
    <3>1. os' = [os EXCEPT ![sockDesc[o]] = [Fd(o) EXCEPT !.port = made[o].port]]
      BY <2>2 DEF Fd
    <3>2. [Fd(o) EXCEPT !.port = made[o].port] \in Fields
      BY <1>0, <1>2, OwnDescriptor, FieldsOK
    <3> QED BY <1>0, <3>1, <3>2, OwnDescriptor, OnlyField DEF TableOK, SidesOK, Fd
  <2>3. CASE SetListen(o)
    <3>1. os' = [os EXCEPT ![sockDesc[o]] = [Fd(o) EXCEPT !.listening = TRUE]]
      BY <2>3 DEF Fd
    <3>2. [Fd(o) EXCEPT !.listening = TRUE] \in Fields
      BY <1>0, OwnDescriptor, FieldsOK
    <3> QED BY <1>0, <3>1, <3>2, OwnDescriptor, OnlyField DEF TableOK, SidesOK, Fd
  <2> QED BY <2>1, <2>2, <2>3
<1>4. TcpOK'
  BY DEF TcpOK
<1>5. \A n \in Object : Built(n)' = Built(n)
  BY DEF ObjectsOK, Built
<1> QED BY <1>1, <1>3, <1>4, <1>5, SameOwners

LEMMA EndFieldsOK ==
  ASSUME NEW f \in EndFields
  PROVE  /\ \A t \in {"unused", "queued", "open", "closed"} : [f EXCEPT !.state = t] \in EndFields
         /\ \A r \in BOOLEAN : [f EXCEPT !.rst = r] \in EndFields
         /\ \A n \in 0..MaxBytes : [f EXCEPT !.given = n] \in EndFields
         /\ \A q \in Seq(Nat) : [f EXCEPT !.data = q] \in EndFields
         /\ \A q \in Seq(Nat) : [f EXCEPT !.got = q] \in EndFields
BY DEF EndFields

\* Changing one side of one connection.
LEMMA OneEnd ==
  ASSUME TcpOK, NEW k \in Connection, NEW s \in Side, NEW f \in EndFields
  PROVE  [tcp EXCEPT ![k][s] = f] \in [Connection -> [Side -> EndFields]]
BY DEF TcpOK

LEMMA ConnectKeepsOwner ==
  ASSUME OwnerInv, NEW o \in Object, NEW p \in Port, Connect(o, p)
  PROVE  OwnerInv'
<1> USE DEF OwnerInv, At, Goto
<1>0. step[o] # "none" /\ step' = [step EXCEPT ![o] = "live"]
  BY DEF Connect
<1>1. PICK l \in Descriptor, k \in Lowest(Unused) :
        /\ os' = [os EXCEPT ![l].queue = Append(@, k),
                            ![sockDesc[o]].conn = k, ![sockDesc[o]].side = "client"]
        /\ tcp' = [tcp EXCEPT ![k]["client"].state = "open", ![k]["server"].state = "queued"]
  BY DEF Connect
<1>2. k \in Connection
  BY DEF Lowest, Unused
<1>3. ObjectsOK'
  BY <1>0 DEF Connect, ObjectsOK, Built
<1>4. TableOK' /\ SidesOK' /\ \A d \in Descriptor : os'[d].type = os[d].type
  <2> DEFINE q == [os[l] EXCEPT !.queue = Append(@, k)]
             os1 == [os EXCEPT ![l] = q]
             f == [os1[sockDesc[o]] EXCEPT !.conn = k, !.side = "client"]
  <2>1. sockDesc[o] \in Descriptor
    BY <1>0, OwnDescriptor
  <2>2. os' = [os1 EXCEPT ![sockDesc[o]] = f]
    BY <1>1
  <2>3. os[l] \in Fields /\ Append(os[l].queue, k) \in Seq(Connection)
    BY <1>2 DEF TableOK, Fields
  <2>4. q \in Fields /\ q.type = os[l].type /\ q.conn = os[l].conn /\ q.side = os[l].side
    BY <2>3, FieldsOK, OnlyField
  <2>5. os1 \in [Descriptor -> Fields]
    BY <2>4 DEF TableOK
  <2>6. f \in Fields
    BY <1>2, <2>1, <2>5, FieldsOK DEF Side
  <2>7. f.type = os1[sockDesc[o]].type /\ f.side = "client"
    BY <2>1, <2>5 DEF Fields
  <2>8. \A d \in Descriptor : /\ os1[d].type = os[d].type
                              /\ os1[d].conn = os[d].conn /\ os1[d].side = os[d].side
    BY <2>4 DEF TableOK
  <2> HIDE DEF q, os1, f
  <2>9. TableOK' /\ SidesOK'
    BY <2>1, <2>2, <2>5, <2>6, <2>7, <2>8 DEF TableOK, SidesOK
  <2> QED BY <2>1, <2>2, <2>5, <2>7, <2>8, <2>9
<1>5. TcpOK'
  <2> DEFINE c == [tcp[k]["client"] EXCEPT !.state = "open"]
             s == [tcp[k]["server"] EXCEPT !.state = "queued"]
  <2>1. c \in EndFields /\ s \in EndFields
    BY <1>2, EndFieldsOK DEF TcpOK, Side
  <2>2. tcp' = [tcp EXCEPT ![k]["client"] = c, ![k]["server"] = s]
    BY <1>1, <1>2 DEF TcpOK, Side
  <2> QED BY <1>2, <2>1, <2>2 DEF TcpOK, Side
<1>6. \A n \in Object : Built(n)' = Built(n)
  BY <1>0 DEF Built, ObjectsOK
<1>7. sockDesc' = sockDesc
  BY DEF Connect
<1> QED BY <1>3, <1>4, <1>5, <1>6, <1>7, SameOwners

LEMMA StreamOK ==
  ASSUME NEW k \in Connection
  PROVE  LET f == [Closed EXCEPT !.type = "stream", !.conn = k, !.side = "server"] IN
           f \in Fields /\ f.type = "stream" /\ f.side = "server"
<1> DEFINE g == [Closed EXCEPT !.type = "stream"]
           f == [g EXCEPT !.conn = k, !.side = "server"]
<1>1. g \in Fields /\ g.type = "stream"
  BY ClosedIsTyped DEF Fields
<1> HIDE DEF g
<1>2. f \in Fields /\ f.type = "stream" /\ f.side = "server"
  BY <1>1 DEF Fields, Side
<1> QED BY <1>2 DEF g

LEMMA AcceptKeepsOwner ==
  ASSUME OwnerInv, NEW o \in Object, NEW n \in Object, Accept(o, n)
  PROVE  OwnerInv'
<1> USE DEF OwnerInv, At, Goto
<1> DEFINE k == Head(Fd(o).queue)
           q == [Fd(o) EXCEPT !.queue = Tail(@)]
           f == [Closed EXCEPT !.type = "stream", !.conn = k, !.side = "server"]
<1>0. /\ step[o] # "none" /\ step[n] = "none" /\ step' = [step EXCEPT ![n] = "live"]
      /\ made' = [made EXCEPT ![n] = [class |-> "TCPSocket", port |-> 0]]
      /\ heard' = heard /\ killed' = killed
  BY DEF Accept
<1>1. PICK d \in Lowest(Free) :
        /\ os' = [os EXCEPT ![sockDesc[o]] = q, ![d] = f]
        /\ tcp' = [tcp EXCEPT ![k]["server"].state = "open"]
        /\ sockDesc' = [sockDesc EXCEPT ![n] = d]
  BY DEF Accept, Fd
<1>2. d \in Descriptor /\ os[d].type = "closed" /\ d # NoDesc
  BY NoDescIsNone DEF Lowest, Free
<1>3. sockDesc[o] \in Descriptor /\ Fd(o) \in Fields
  BY <1>0, OwnDescriptor
<1>4. Fd(o).queue \in Seq(Connection) /\ Fd(o).queue # <<>>
  BY <1>3 DEF Accept, Fields
<1>5. k \in Connection /\ Tail(Fd(o).queue) \in Seq(Connection)
  BY <1>4
<1>6. q \in Fields /\ q.type = Fd(o).type /\ q.conn = Fd(o).conn /\ q.side = Fd(o).side
  BY <1>3, <1>5, FieldsOK, OnlyField
<1>7. f \in Fields /\ f.type = "stream" /\ f.side = "server"
  BY <1>5, StreamOK
<1>8. tcp[k]["server"] \in EndFields
  BY <1>5 DEF TcpOK, Side
<1>9. TcpOK'
  BY <1>1, <1>5, <1>8, EndFieldsOK, OneEnd DEF TcpOK, Side
<1> HIDE DEF k, q, f
<1>10. ObjectsOK'
  BY <1>0, <1>1, <1>2 DEF ObjectsOK, Built, Constructor
<1>11. TableOK'
  BY <1>1, <1>2, <1>3, <1>6, <1>7 DEF TableOK
<1>12. SidesOK'
  BY <1>1, <1>2, <1>3, <1>6, <1>7 DEF TableOK, SidesOK, Fd
<1>13. OneOwner'
  <2>1. \A e \in Descriptor : os'[e].type # "closed" <=> os[e].type # "closed" \/ e = d
    BY <1>1, <1>2, <1>3, <1>6, <1>7 DEF TableOK, Fd
  <2>2. ~Built(n) /\ Built(n)' /\ \A m \in Object \ {n} : Built(m)' = Built(m)
    BY <1>0 DEF ObjectsOK, Built
  <2> QED BY <1>1, <1>2, <2>1, <2>2, OneMore
<1> QED BY <1>9, <1>10, <1>11, <1>12, <1>13

\* The side of a connected object, and the other one.
LEMMA MyEnds ==
  ASSUME OwnerInv, NEW o \in Object, Connected(o)
  PROVE  /\ Fd(o).conn \in Connection /\ Fd(o).side \in Side /\ Other(Fd(o).side) \in Side
         /\ Fd(o).side # Other(Fd(o).side)
         /\ Mine(o) \in EndFields /\ Theirs(o) \in EndFields
<1>1. Fd(o) \in Fields /\ Fd(o).conn # 0 /\ Fd(o).side # "none"
  BY OwnDescriptor DEF Connected, At, OwnerInv, SidesOK, Fd
<1>2. /\ Fd(o).conn \in Connection /\ Fd(o).side \in Side /\ Other(Fd(o).side) \in Side
      /\ Fd(o).side # Other(Fd(o).side)
  BY <1>1 DEF Fields, Side, Other
<1> QED BY <1>2 DEF Mine, Theirs, OwnerInv, TcpOK

\* The steps that only move bytes.
LEMMA BytesOnly ==
  ASSUME OwnerInv, NEW o \in Object, TcpOK', UNCHANGED <<step, made, sockDesc, os>>,
         heard' \in [Object -> {"nothing", "data", "eof", "thrown"}], killed' \in BOOLEAN
  PROVE  OwnerInv'
<1>1. \A n \in Object : Built(n)' = Built(n)
  BY DEF Built
<1>2. ObjectsOK' /\ TableOK' /\ SidesOK'
  BY DEF OwnerInv, ObjectsOK, TableOK, SidesOK, Built
<1> QED BY <1>1, <1>2, SameOwners DEF OwnerInv

LEMMA Counting ==
  ASSUME NEW n \in Nat, NEW k \in Nat
  PROVE  [i \in 1..k |-> n + i] \in Seq(Nat)
OBVIOUS

LEMMA SendKeepsOwner ==
  ASSUME OwnerInv, NEW o \in Object, NEW len \in 1..MaxBytes, Send(o, len)
  PROVE  OwnerInv'
<1> USE DEF Send
<1> DEFINE c == Fd(o).conn
           s == Fd(o).side
           t == Other(Fd(o).side)
<1>1. /\ c \in Connection /\ s \in Side /\ t \in Side /\ s # t
      /\ tcp[c][s] \in EndFields /\ tcp[c][t] \in EndFields
  BY MyEnds DEF Mine, Theirs
<1>2. TcpOK'
  <2>1. CASE MayTransmit(o, len) /\ \E n \in 1..len : Transmit(o, len, Bytes(o, n))
    <3>1. PICK n \in 1..len : Transmit(o, len, Bytes(o, n))
      BY <2>1
    <3>2. tcp[c][s].given \in Nat /\ tcp[c][s].given + len \in 0..MaxBytes
      <4>1. tcp[c][s].given \in 0..MaxBytes
        BY <1>1 DEF EndFields
      <4>2. tcp[c][s].given + len <= MaxBytes
        BY <2>1 DEF MayTransmit, Mine
      <4> HIDE DEF c, s
      <4> QED BY <4>1, <4>2
    <3>3. Bytes(o, n) \in Seq(Nat)
      <4> DEFINE x == tcp[c][s].given
      <4>1. Bytes(o, n) = [i \in 1..n |-> x + i] /\ x \in Nat /\ n \in Nat
        BY <3>2 DEF Bytes, Mine
      <4> HIDE DEF x
      <4> QED BY <4>1, Counting
    <3>4. tcp[c][t].data \o Bytes(o, n) \in Seq(Nat)
      BY <1>1, <3>3 DEF EndFields
    <3> DEFINE f == [tcp[c][s] EXCEPT !.given = @ + len]
               g == [tcp[c][t] EXCEPT !.data = @ \o Bytes(o, n)]
    <3>5. f \in EndFields /\ g \in EndFields
      BY <1>1, <3>2, <3>4, EndFieldsOK
    <3>6. tcp' = [tcp EXCEPT ![c][s] = f, ![c][t] = g]
      BY <1>1, <3>1 DEF Transmit, OwnerInv, TcpOK
    <3> HIDE DEF f, g
    <3> QED BY <1>1, <3>5, <3>6 DEF TcpOK, OwnerInv
  <2>2. CASE tcp' = [tcp EXCEPT ![c][s].rst = TRUE]
    <3>1. [tcp[c][s] EXCEPT !.rst = TRUE] \in EndFields
      BY <1>1, EndFieldsOK
    <3> QED BY <1>1, <2>2, <3>1, OneEnd DEF TcpOK, OwnerInv
  <2>3. CASE tcp' = tcp
    BY <2>3 DEF TcpOK, OwnerInv
  <2>4. \A n : n \in (IF ShortWrites THEN 1..len ELSE {len}) => n \in 1..len
    OBVIOUS
  <2> QED BY <2>1, <2>2, <2>3, <2>4
<1>3. heard' \in [Object -> {"nothing", "data", "eof", "thrown"}] /\ killed' \in BOOLEAN
  BY DEF OwnerInv, ObjectsOK
<1> QED BY <1>2, <1>3, BytesOnly

LEMMA SplitSequence ==
  ASSUME NEW q \in Seq(Nat), NEW g \in Seq(Nat), NEW n \in DOMAIN q
  PROVE  g \o SubSeq(q, 1, n) \in Seq(Nat) /\ SubSeq(q, n + 1, Len(q)) \in Seq(Nat)
<1>1. n \in 1..Len(q) /\ \A i \in 1..Len(q) : q[i] \in Nat
  OBVIOUS
<1>2. SubSeq(q, 1, n) \in Seq(Nat)
  BY <1>1, SubSeqProperties
<1>3. SubSeq(q, n + 1, Len(q)) \in Seq(Nat)
  BY <1>1, SubSeqProperties
<1> QED BY <1>2, <1>3, ConcatProperties

LEMMA ReceivedOK ==
  ASSUME NEW o, Mine(o) \in EndFields, NEW n \in DOMAIN Mine(o).data
  PROVE  Received(o, n, SubSeq(Mine(o).data, n + 1, Len(Mine(o).data))) \in EndFields
<1> DEFINE e == Mine(o)
           got == e.got \o SubSeq(e.data, 1, n)
           left == SubSeq(e.data, n + 1, Len(e.data))
           f == [e EXCEPT !.got = got]
           g == [f EXCEPT !.data = left]
<1>1. e.data \in Seq(Nat) /\ e.got \in Seq(Nat)
  BY DEF EndFields
<1>2. Received(o, n, left) = g
  BY DEF Received
<1>3. got \in Seq(Nat) /\ left \in Seq(Nat)
  BY <1>1, SplitSequence
<1> HIDE DEF got, left
<1>4. f \in EndFields
  BY <1>3, EndFieldsOK
<1> HIDE DEF f
<1>5. g \in EndFields
  BY <1>3, <1>4, EndFieldsOK
<1> QED BY <1>2, <1>5 DEF left

LEMMA RecvKeepsOwner ==
  ASSUME OwnerInv, NEW o \in Object, Recv(o)
  PROVE  OwnerInv'
<1>1. /\ Fd(o).conn \in Connection /\ Fd(o).side \in Side /\ Mine(o) \in EndFields
  BY MyEnds DEF Recv
<1>2. TcpOK'
  <2>1. CASE tcp' = tcp
    BY <2>1 DEF TcpOK, OwnerInv
  <2>2. ASSUME NEW n \in DOMAIN Mine(o).data,
               tcp' = [tcp EXCEPT ![Fd(o).conn][Fd(o).side] =
                 Received(o, n, SubSeq(Mine(o).data, n + 1, Len(Mine(o).data)))]
        PROVE  TcpOK'
    BY <1>1, <2>2, ReceivedOK, OneEnd DEF OwnerInv, TcpOK
  <2> QED BY <2>1, <2>2 DEF Recv
<1>3. heard' \in [Object -> {"nothing", "data", "eof", "thrown"}] /\ killed' \in BOOLEAN
  BY DEF OwnerInv, ObjectsOK, Recv
<1> QED BY <1>2, <1>3, BytesOnly DEF Recv

LEMMA DestroyKeepsOwner ==
  ASSUME OwnerInv, NEW o \in Object, Destroy(o)
  PROVE  OwnerInv'
<1> USE DEF OwnerInv, At, Goto
<1>0. /\ step[o] # "none" /\ step' = [step EXCEPT ![o] = "none"]
      /\ os' = [os EXCEPT ![sockDesc[o]] = Closed]
      /\ sockDesc' = [sockDesc EXCEPT ![o] = NoDesc]
      /\ made' = [made EXCEPT ![o] = NoConstructor]
      /\ heard' = [heard EXCEPT ![o] = "nothing"] /\ killed' = killed
  BY DEF Destroy
<1>1. sockDesc[o] \in Descriptor
  BY <1>0, OwnDescriptor
<1>2. ObjectsOK'
  BY <1>0 DEF ObjectsOK, Built
<1>3. TableOK' /\ SidesOK'
  BY <1>0, <1>1, ClosedIsTyped DEF TableOK, SidesOK, Closed
<1>4. TcpOK'
  <2> DEFINE closes(k, s) ==
               \/ k = Fd(o).conn /\ s = Fd(o).side
               \/ s = "server" /\ \E i \in DOMAIN Fd(o).queue : Fd(o).queue[i] = k
             resets(k, s) == closes(k, s) /\ (Fd(o).listening \/ tcp[k][s].data # <<>>)
             over(k) == \A s \in Side : closes(k, s) \/ tcp[k][s].state = "closed"
             shut(k, s) == [tcp[k][s] EXCEPT !.state = "closed", !.data = <<>>]
             reset(k, s) == [tcp[k][s] EXCEPT !.rst = @ \/ resets(k, Other(s))]
             new(k, s) == IF over(k) THEN NoEnd
                          ELSE IF closes(k, s) THEN shut(k, s) ELSE reset(k, s)
  <2>1. tcp' = [k \in Connection |-> [s \in Side |-> new(k, s)]]
    BY DEF Destroy
  <2>2. ASSUME NEW k \in Connection, NEW s \in Side PROVE new(k, s) \in EndFields
    <3>1. tcp[k][s] \in EndFields
      BY DEF TcpOK
    <3>2. shut(k, s) \in EndFields
      <4> DEFINE f == [tcp[k][s] EXCEPT !.state = "closed"]
      <4>1. f \in EndFields
        BY <3>1, EndFieldsOK
      <4>2. <<>> \in Seq(Nat)
        OBVIOUS
      <4> HIDE DEF f
      <4>3. [f EXCEPT !.data = <<>>] \in EndFields
        BY <4>1, <4>2, EndFieldsOK
      <4> QED BY <4>3 DEF f
    <3>3. reset(k, s) \in EndFields
      <4> DEFINE r == tcp[k][s].rst \/ resets(k, Other(s))
      <4>1. r \in BOOLEAN
        OBVIOUS
      <4> HIDE DEF r
      <4>2. [tcp[k][s] EXCEPT !.rst = r] \in EndFields
        BY <3>1, <4>1, EndFieldsOK
      <4> QED BY <4>2 DEF r
    <3> HIDE DEF closes, over, shut, reset
    <3> QED BY <3>2, <3>3, ClosedIsTyped
  <2> HIDE DEF new
  <2> QED BY <2>1, <2>2 DEF TcpOK
<1>5. OneOwner'
  <2>1. \A d \in Descriptor :
          os'[d].type # "closed" <=> os[d].type # "closed" /\ d # sockDesc[o]
    BY <1>0, <1>1 DEF TableOK, Closed
  <2>2. \A n \in Object \ {o} : Built(n)' = Built(n) /\ sockDesc'[n] = sockDesc[n]
    BY <1>0 DEF ObjectsOK, Built
  <2>3. Built(o) /\ ~Built(o)'
    BY <1>0 DEF ObjectsOK, Built
  <2>4. \A n \in Object \ {o} : Built(n) => sockDesc[n] # sockDesc[o]
    BY <2>3 DEF OneOwner
  <2> QED BY <2>1, <2>2, <2>3, <2>4 DEF OneOwner
<1> QED BY <1>2, <1>3, <1>4, <1>5

LEMMA Inductive == OwnerInv /\ [Next]_vars => OwnerInv'
<1> SUFFICES ASSUME OwnerInv, [Next]_vars PROVE OwnerInv'
  OBVIOUS
<1>1. CASE UNCHANGED vars
  <2>1. \A n \in Object : Built(n)' = Built(n)
    BY <1>1 DEF vars, Built
  <2>2. ObjectsOK' /\ TableOK' /\ SidesOK' /\ TcpOK'
    BY <1>1 DEF vars, OwnerInv, ObjectsOK, TableOK, SidesOK, TcpOK, Built
  <2> QED BY <1>1, <2>1, <2>2, SameOwners DEF vars, OwnerInv
<1>2. ASSUME NEW o \in Object, NEW c \in Call, New(o, c) PROVE OwnerInv'
  BY <1>2, NewKeepsOwner
<1>3. ASSUME NEW o \in Object, Throw(o) \/ SetLocalPort(o) \/ SetListen(o) \/ SetBroadcast(o)
      PROVE  OwnerInv'
  BY <1>3, CallsKeepOwner
<1>4. ASSUME NEW o \in Object, NEW p \in Port, Connect(o, p) PROVE OwnerInv'
  BY <1>4, ConnectKeepsOwner
<1>5. ASSUME NEW o \in Object, NEW n \in Object, Accept(o, n) PROVE OwnerInv'
  BY <1>5, AcceptKeepsOwner
<1>6. ASSUME NEW o \in Object, NEW len \in 1..MaxBytes, Send(o, len) PROVE OwnerInv'
  BY <1>6, SendKeepsOwner
<1>7. ASSUME NEW o \in Object, Recv(o) PROVE OwnerInv'
  BY <1>7, RecvKeepsOwner
<1>8. ASSUME NEW o \in Object, Destroy(o) PROVE OwnerInv'
  BY <1>8, DestroyKeepsOwner
<1> QED BY <1>1, <1>2, <1>3, <1>4, <1>5, <1>6, <1>7, <1>8 DEF Next

LEMMA OwnerInvAlways == Spec => []OwnerInv
BY InitOwner, Inductive, PTL DEF Spec

\* The objects, the descriptor table and the connections stay well formed, and
\* an object has a descriptor exactly from the first call of its constructor to
\* its destruction.
THEOREM TypeCorrect == Spec => []TypeOK
<1>1. OwnerInv => TypeOK
  BY TypeParts DEF OwnerInv
<1> QED BY <1>1, OwnerInvAlways, PTL

\* Socket::Socket to Socket::~Socket: for any number of objects, descriptors
\* and connections, and wherever a constructor throws, no descriptor leaks and
\* none is closed under an object that still uses it.
THEOREM OneOwnerAlways == Spec => []OneOwner
<1>1. OwnerInv => OneOwner
  BY DEF OwnerInv
<1> QED BY <1>1, OwnerInvAlways, PTL
-----------------------------------------------------------------------------
(***************************************************************************)
(* The order of the bytes.  An end of a connection is held by one          *)
(* descriptor or waits in one queue (EndsOK).  Moves lists what a step can *)
(* do to the bytes on their way to an end e, when the other side has been  *)
(* given n bytes before the step and m after it; f is e after the step.    *)
(***************************************************************************)
Holds(d, k, s) == os[d].conn = k /\ os[d].side = s

HeldOpen ==
  \A d \in Descriptor, k \in Connection, s \in Side :
    Holds(d, k, s) => tcp[k][s].state = "open"
HeldOnce ==
  \A d, e \in Descriptor, k \in Connection, s \in Side :
    Holds(d, k, s) /\ Holds(e, k, s) => d = e
QueuedOpen ==
  \A d \in Descriptor : \A i \in DOMAIN os[d].queue :
    tcp[os[d].queue[i]]["server"].state = "queued"
QueuedOnce ==
  \A d, e \in Descriptor :
    \A i \in DOMAIN os[d].queue, j \in DOMAIN os[e].queue :
      os[d].queue[i] = os[e].queue[j] => d = e /\ i = j
EndsOK == HeldOpen /\ HeldOnce /\ QueuedOpen /\ QueuedOnce

Stays(e, n, f, m) ==
  /\ f.got = e.got /\ f.data = e.data /\ m = n
  /\ e.state = "closed" => f.state = "closed"
Forgotten(f, m) == f = NoEnd /\ m = 0
Shut(e, n, f, m) ==
  f.got = e.got /\ f.data = <<>> /\ f.state = "closed" /\ m = n
Sent(e, n, f, m, len, k) ==
  /\ ShortWrites \/ k = len
  /\ f.got = e.got /\ f.data = e.data \o [i \in 1..k |-> n + i]
  /\ f.state = e.state /\ e.state # "closed" /\ m = n + len
Taken(e, n, f, m, k) ==
  /\ f.got = e.got \o SubSeq(e.data, 1, k)
  /\ f.data = SubSeq(e.data, k + 1, Len(e.data))
  /\ f.state = e.state /\ m = n
Moves(e, n, f, m) ==
  \/ Stays(e, n, f, m) \/ Forgotten(f, m) \/ Shut(e, n, f, m)
  \/ \E len \in Nat : \E k \in 1..len : Sent(e, n, f, m, len, k)
  \/ \E k \in DOMAIN e.data : Taken(e, n, f, m, k)

Rising(q) == \A i, j \in DOMAIN q : i < j => q[i] < q[j]

\* What has been received rises, what is on its way rises from there, and all
\* of it has been handed to send.
Flows(e, n) ==
  /\ Rising(e.got) /\ Rising(e.data)
  /\ \A i \in DOMAIN e.got, j \in DOMAIN e.data : e.got[i] < e.data[j]
  /\ \A i \in DOMAIN e.got : e.got[i] <= n
  /\ \A j \in DOMAIN e.data : e.data[j] <= n

\* Nothing is missing either.
Whole(e, n) ==
  /\ \A i \in DOMAIN e.got : e.got[i] = i
  /\ \A j \in DOMAIN e.data : e.data[j] = Len(e.got) + j
  /\ e.state # "closed" => Len(e.got) + Len(e.data) = n

FlowInv == \A k \in Connection, s \in Side : Flows(tcp[k][s], tcp[k][Other(s)].given)
WholeInv == \A k \in Connection, s \in Side : Whole(tcp[k][s], tcp[k][Other(s)].given)

\* Sequences of numbers, cut and joined.
LEMMA RestOf ==
  ASSUME NEW q \in Seq(Nat), NEW k \in Nat, k <= Len(q)
  PROVE  LET b == SubSeq(q, k + 1, Len(q)) IN
         /\ b \in Seq(Nat) /\ Len(b) = Len(q) - k
         /\ \A j \in 1..Len(q) - k : b[j] = q[k + j]
<1> DEFINE l == Len(q)
           b == SubSeq(q, k + 1, l)
<1>1. l \in Nat /\ k <= l /\ \A i \in 1..l : q[i] \in Nat
  OBVIOUS
<1> HIDE DEF l
<1>2. \A i \in k + 1..l : q[i] \in Nat
  BY <1>1
<1>3. /\ b \in Seq(Nat) /\ Len(b) = IF k + 1 <= l THEN l - (k + 1) + 1 ELSE 0
      /\ \A i \in 1..l - (k + 1) + 1 : b[i] = q[k + 1 + i - 1]
  BY <1>1, <1>2, SubSeqProperties
<1> HIDE DEF b
<1>4. Len(b) = l - k
  BY <1>1, <1>3
<1>5. ASSUME NEW j \in 1..l - k PROVE b[j] = q[k + j]
  <2>1. j \in 1..l - (k + 1) + 1 /\ k + 1 + j - 1 = k + j
    BY <1>1
  <2> QED BY <1>3, <2>1
<1> QED BY <1>3, <1>4, <1>5 DEF b, l

LEMMA AfterFacts ==
  ASSUME NEW g \in Seq(Nat), NEW k \in Nat, NEW i \in Len(g) + 1..Len(g) + k
  PROVE  i \in 1..Len(g) + k /\ ~(i <= Len(g)) /\ i - Len(g) \in 1..k
OBVIOUS

LEMMA FrontFacts ==
  ASSUME NEW q \in Seq(Nat), NEW g \in Seq(Nat), NEW k \in DOMAIN q
  PROVE  LET a == g \o SubSeq(q, 1, k) IN
         /\ Len(a) = Len(g) + k /\ DOMAIN a = 1..Len(g) + k
         /\ \A i \in 1..Len(g) : a[i] = g[i]
         /\ \A i \in Len(g) + 1..Len(g) + k : a[i] = q[i - Len(g)]
<1> DEFINE p == SubSeq(q, 1, k)
           a == g \o p
<1>1. k \in Nat /\ \A i \in 1..k : q[i] \in Nat
  OBVIOUS
<1>2. p \in Seq(Nat) /\ Len(p) = k /\ \A i \in 1..k : p[i] = q[i]
  BY <1>1, SubSeqProperties
<1> HIDE DEF p
<1>3. a \in Seq(Nat) /\ Len(a) = Len(g) + k
  BY <1>2, ConcatProperties
<1>4. \A i \in 1..Len(g) : a[i] = g[i]
  BY <1>2, ConcatProperties
<1>5. ASSUME NEW i \in Len(g) + 1..Len(g) + k PROVE a[i] = q[i - Len(g)]
  <2>1. i \in 1..Len(g) + k /\ ~(i <= Len(g)) /\ i - Len(g) \in 1..k
    BY <1>1, AfterFacts
  <2>2. a[i] = p[i - Len(g)]
    BY <1>2, <2>1, ConcatProperties
  <2> QED BY <1>2, <2>1, <2>2
<1> HIDE DEF a
<1>6. DOMAIN a = 1..Len(g) + k
  BY <1>3
<1> QED BY <1>3, <1>4, <1>5, <1>6 DEF a, p

LEMMA JoinFacts ==
  ASSUME NEW q \in Seq(Nat), NEW n \in Nat, NEW k \in Nat,
         NEW a, a = q \o [i \in 1..k |-> n + i]
  PROVE  /\ Len(a) = Len(q) + k /\ DOMAIN a = 1..Len(q) + k
         /\ \A j \in 1..Len(q) : a[j] = q[j]
         /\ \A j \in Len(q) + 1..Len(q) + k : a[j] = n + (j - Len(q))
<1> DEFINE p == [i \in 1..k |-> n + i]
<1>1. p \in Seq(Nat) /\ Len(p) = k /\ \A i \in 1..k : p[i] = n + i
  OBVIOUS
<1>0. a = q \o p
  OBVIOUS
<1> HIDE DEF p
<1>2. a \in Seq(Nat) /\ Len(a) = Len(q) + k
  BY <1>0, <1>1, ConcatProperties
<1>3. \A j \in 1..Len(q) : a[j] = q[j]
  BY <1>0, <1>1, ConcatProperties
<1>4. \A j \in Len(q) + 1..Len(q) + k : a[j] = n + (j - Len(q))
  <2> TAKE j \in Len(q) + 1..Len(q) + k
  <2>1. a[j] = p[j - Len(q)]
    BY <1>0, <1>1, ConcatProperties
  <2>2. j - Len(q) \in 1..k
    OBVIOUS
  <2> QED BY <1>1, <2>1, <2>2
<1>5. DOMAIN a = 1..Len(q) + k
  BY <1>2
<1> QED BY <1>2, <1>3, <1>4, <1>5

LEMMA FlowSent ==
  ASSUME NEW e \in EndFields, NEW f \in EndFields, NEW n \in Nat, NEW m \in Nat,
         NEW len \in Nat, NEW k \in 1..len,
         Flows(e, n), Sent(e, n, f, m, len, k)
  PROVE  Flows(f, m)
<1> DEFINE q == e.data
           a == q \o [i \in 1..k |-> n + i]
<1>1. q \in Seq(Nat) /\ e.got \in Seq(Nat) /\ k \in Nat
  BY DEF EndFields
<1>3. f.got = e.got /\ f.data = a /\ m = n + len
  BY DEF Sent
<1>0. a = q \o [i \in 1..k |-> n + i]
  OBVIOUS
<1> HIDE DEF a, q
<1>2. /\ DOMAIN a = 1..Len(q) + k
      /\ \A j \in 1..Len(q) : a[j] = q[j]
      /\ \A j \in Len(q) + 1..Len(q) + k : a[j] = n + (j - Len(q))
  BY <1>0, <1>1, JoinFacts
<1>4. Len(q) \in Nat /\ DOMAIN q = 1..Len(q)
  BY <1>1
<1>5. /\ Rising(e.got) /\ Rising(q)
      /\ \A i \in DOMAIN e.got, j \in DOMAIN q : e.got[i] < q[j]
      /\ \A i \in DOMAIN e.got : e.got[i] <= n /\ e.got[i] \in Nat
      /\ \A j \in DOMAIN q : q[j] <= n /\ q[j] \in Nat
  BY <1>1 DEF Flows, q
<1>6. \A j \in DOMAIN a : IF j <= Len(q) THEN j \in DOMAIN q /\ a[j] = q[j]
                                         ELSE a[j] = n + (j - Len(q)) /\ j > Len(q)
  <2> TAKE j \in DOMAIN a
  <2>1. j \in 1..Len(q) + k /\ j \in Int
    BY <1>1, <1>2, <1>4
  <2>2. CASE j <= Len(q)
    <3>1. j \in 1..Len(q)
      BY <1>4, <2>1, <2>2
    <3> QED BY <1>2, <1>4, <2>2, <3>1
  <2>3. CASE ~(j <= Len(q))
    <3>1. j \in Len(q) + 1..Len(q) + k /\ j > Len(q)
      BY <1>1, <1>4, <2>1, <2>3
    <3> QED BY <1>2, <2>3, <3>1
  <2> QED BY <2>2, <2>3
<1>7. \A j \in DOMAIN a : j \in Int /\ j <= Len(q) + k /\ a[j] \in Int /\ a[j] <= n + k
  <2> TAKE j \in DOMAIN a
  <2>1. j \in 1..Len(q) + k
    BY <1>2
  <2>2. j \in Int /\ j <= Len(q) + k
    BY <1>1, <1>4, <2>1
  <2>3. CASE j <= Len(q)
    BY <1>1, <1>5, <1>6, <2>2, <2>3
  <2>4. CASE ~(j <= Len(q))
    <3>1. a[j] = n + (j - Len(q))
      BY <1>6, <2>4
    <3> QED BY <1>1, <1>4, <2>2, <2>4, <3>1
  <2> QED BY <2>3, <2>4
<1>8. Rising(a)
  <2> SUFFICES ASSUME NEW i \in DOMAIN a, NEW j \in DOMAIN a, i < j PROVE a[i] < a[j]
    BY DEF Rising
  <2>1. CASE j <= Len(q)
    BY <1>4, <1>5, <1>6, <1>7, <2>1 DEF Rising
  <2>2. CASE i <= Len(q) /\ j > Len(q)
    <3>1. a[i] <= n
      BY <1>5, <1>6, <2>2
    <3>2. a[j] = n + (j - Len(q))
      BY <1>4, <1>6, <1>7, <2>2
    <3> QED BY <1>4, <1>7, <2>2, <3>1, <3>2
  <2>3. CASE i > Len(q)
    <3>1. a[i] = n + (i - Len(q)) /\ a[j] = n + (j - Len(q))
      BY <1>4, <1>6, <1>7, <2>3
    <3> QED BY <1>4, <1>7, <3>1
  <2> QED BY <1>4, <1>7, <2>1, <2>2, <2>3
<1>9. \A i \in DOMAIN e.got, j \in DOMAIN a : e.got[i] < a[j]
  <2> TAKE i \in DOMAIN e.got, j \in DOMAIN a
  <2>1. CASE j <= Len(q)
    BY <1>5, <1>6, <2>1
  <2>2. CASE j > Len(q)
    <3>1. a[j] = n + (j - Len(q))
      BY <1>4, <1>6, <1>7, <2>2
    <3> QED BY <1>4, <1>5, <1>7, <2>2, <3>1
  <2> QED BY <1>4, <1>7, <2>1, <2>2
<1>10. n <= m /\ n + k <= m
  BY <1>3
<1>11. \A i \in DOMAIN e.got : e.got[i] <= m
  BY <1>5, <1>10
<1>12. \A j \in DOMAIN a : a[j] <= m
  BY <1>7, <1>10
<1> QED BY <1>3, <1>5, <1>8, <1>9, <1>11, <1>12 DEF Flows

LEMMA FlowTaken ==
  ASSUME NEW e \in EndFields, NEW f \in EndFields, NEW n \in Nat,
         NEW k \in DOMAIN e.data, Flows(e, n), Taken(e, n, f, n, k)
  PROVE  Flows(f, n)
<1> DEFINE q == e.data
           g == e.got
           a == g \o SubSeq(q, 1, k)
           b == SubSeq(q, k + 1, Len(q))
<1>1. q \in Seq(Nat) /\ g \in Seq(Nat) /\ f.got = a /\ f.data = b
  BY DEF EndFields, Taken
<1>0. k \in 1..Len(q) /\ k \in DOMAIN q /\ k \in Nat /\ k <= Len(q)
  BY <1>1
<1> HIDE DEF q, g
<1>2. /\ DOMAIN a = 1..Len(g) + k
      /\ \A i \in 1..Len(g) : a[i] = g[i]
      /\ \A i \in Len(g) + 1..Len(g) + k : a[i] = q[i - Len(g)]
  BY <1>0, <1>1, FrontFacts
<1>11. /\ b \in Seq(Nat) /\ Len(b) = Len(q) - k
      /\ \A j \in 1..Len(q) - k : b[j] = q[k + j]
  BY <1>0, <1>1, RestOf
<1> HIDE DEF a, b
<1>12. DOMAIN b = 1..Len(q) - k
  BY <1>11
<1>3. Len(q) \in Nat /\ DOMAIN q = 1..Len(q) /\ Len(g) \in Nat /\ DOMAIN g = 1..Len(g)
  BY <1>1
<1>4. /\ Rising(g) /\ Rising(q)
      /\ \A i \in DOMAIN g, j \in DOMAIN q : g[i] < q[j]
      /\ \A i \in DOMAIN g : g[i] <= n /\ g[i] \in Nat
      /\ \A j \in DOMAIN q : q[j] <= n /\ q[j] \in Nat
  BY <1>1 DEF Flows, q, g
<1>5. \A i \in DOMAIN a :
        /\ i \in Int
        /\ IF i <= Len(g) THEN i \in DOMAIN g /\ a[i] = g[i]
           ELSE i - Len(g) \in DOMAIN q /\ i - Len(g) <= k /\ a[i] = q[i - Len(g)]
  <2> TAKE i \in DOMAIN a
  <2>1. i \in 1..Len(g) + k /\ i \in Int
    BY <1>0, <1>2, <1>3
  <2>2. CASE i <= Len(g)
    <3>1. i \in 1..Len(g)
      BY <1>3, <2>1, <2>2
    <3> QED BY <1>2, <1>3, <2>1, <2>2, <3>1
  <2>3. CASE ~(i <= Len(g))
    <3>1. i \in Len(g) + 1..Len(g) + k /\ i - Len(g) \in 1..Len(q) /\ i - Len(g) <= k
      BY <1>0, <1>3, <2>1, <2>3
    <3> QED BY <1>2, <1>3, <2>1, <2>3, <3>1
  <2> QED BY <2>2, <2>3
<1>6. \A j \in DOMAIN b : j \in Int /\ k + j \in DOMAIN q /\ k + j > k /\ b[j] = q[k + j]
  <2> TAKE j \in DOMAIN b
  <2>1. j \in 1..Len(q) - k
    BY <1>12
  <2>2. j \in Int /\ k + j \in 1..Len(q) /\ k + j > k
    BY <1>0, <1>3, <2>1
  <2> QED BY <1>3, <1>11, <2>1, <2>2
<1>7. Rising(a)
  <2> SUFFICES ASSUME NEW i \in DOMAIN a, NEW j \in DOMAIN a, i < j PROVE a[i] < a[j]
    BY DEF Rising
  <2>1. i \in Int /\ j \in Int
    BY <1>5
  <2>2. CASE j <= Len(g)
    <3>1. i <= Len(g)
      BY <1>3, <2>1, <2>2
    <3> QED BY <1>4, <1>5, <2>2, <3>1 DEF Rising
  <2>3. CASE i <= Len(g) /\ ~(j <= Len(g))
    BY <1>4, <1>5, <2>3
  <2>4. CASE ~(i <= Len(g))
    <3>1. ~(j <= Len(g)) /\ i - Len(g) < j - Len(g)
      BY <1>3, <2>1, <2>4
    <3> QED BY <1>4, <1>5, <2>4, <3>1 DEF Rising
  <2> QED BY <2>2, <2>3, <2>4
<1>8. Rising(b)
  <2> SUFFICES ASSUME NEW i \in DOMAIN b, NEW j \in DOMAIN b, i < j PROVE b[i] < b[j]
    BY DEF Rising
  <2>1. k + i < k + j
    BY <1>0, <1>6
  <2> QED BY <1>4, <1>6, <2>1 DEF Rising
<1>9. \A i \in DOMAIN a, j \in DOMAIN b : a[i] < b[j]
  <2> TAKE i \in DOMAIN a, j \in DOMAIN b
  <2>1. CASE i <= Len(g)
    BY <1>4, <1>5, <1>6, <2>1
  <2>2. CASE ~(i <= Len(g))
    <3>1. i - Len(g) < k + j
      BY <1>0, <1>3, <1>5, <1>6, <2>2
    <3> QED BY <1>4, <1>5, <1>6, <2>2, <3>1 DEF Rising
  <2> QED BY <2>1, <2>2
<1>10. (\A i \in DOMAIN a : a[i] <= n) /\ (\A j \in DOMAIN b : b[j] <= n)
  BY <1>4, <1>5, <1>6
<1> QED BY <1>1, <1>7, <1>8, <1>9, <1>10 DEF Flows

LEMMA FlowMoves ==
  ASSUME NEW e \in EndFields, NEW f \in EndFields, NEW n \in Nat, NEW m \in Nat,
         Flows(e, n), Moves(e, n, f, m)
  PROVE  Flows(f, m)
<1>1. CASE Stays(e, n, f, m)
  BY <1>1 DEF Stays, Flows
<1>2. CASE Forgotten(f, m)
  BY <1>2 DEF Forgotten, NoEnd, Flows, Rising
<1>3. CASE Shut(e, n, f, m)
  BY <1>3 DEF Shut, Flows, Rising
<1>4. ASSUME NEW len \in Nat, NEW k \in 1..len, Sent(e, n, f, m, len, k) PROVE Flows(f, m)
  BY <1>4, FlowSent
<1>5. ASSUME NEW k \in DOMAIN e.data, Taken(e, n, f, m, k) PROVE Flows(f, m)
  BY <1>5, FlowTaken DEF Taken
<1> QED BY <1>1, <1>2, <1>3, <1>4, <1>5 DEF Moves

\* As long as ::send takes the whole buffer.
LEMMA WholeMoves ==
  ASSUME NEW e \in EndFields, NEW f \in EndFields, NEW n \in Nat, NEW m \in Nat,
         ~ShortWrites, Whole(e, n), Moves(e, n, f, m)
  PROVE  Whole(f, m)
<1> DEFINE q == e.data
           g == e.got
<1>1. q \in Seq(Nat) /\ g \in Seq(Nat)
  BY DEF EndFields
<1>2. Len(q) \in Nat /\ DOMAIN q = 1..Len(q) /\ Len(g) \in Nat /\ DOMAIN g = 1..Len(g)
  BY <1>1
<1>3. /\ \A i \in 1..Len(g) : g[i] = i
      /\ \A j \in 1..Len(q) : q[j] = Len(g) + j
      /\ e.state # "closed" => Len(g) + Len(q) = n
  BY <1>2 DEF Whole
<1>4. CASE Stays(e, n, f, m)
  BY <1>4 DEF Stays, Whole
<1>5. CASE Forgotten(f, m)
  <2>1. f.got = <<>> /\ f.data = <<>> /\ m = 0
    BY <1>5 DEF Forgotten, NoEnd
  <2> QED BY <2>1 DEF Whole
<1>6. CASE Shut(e, n, f, m)
  BY <1>6 DEF Shut, Whole
<1>7. ASSUME NEW len \in Nat, NEW k \in 1..len, Sent(e, n, f, m, len, k) PROVE Whole(f, m)
  <2> DEFINE a == q \o [i \in 1..k |-> n + i]
  <2>1. k \in Nat /\ k = len /\ f.got = g /\ f.data = a /\ Len(g) + Len(q) = n /\ m = n + k
    BY <1>3, <1>7 DEF Sent
  <2>0. a = q \o [i \in 1..k |-> n + i]
    OBVIOUS
  <2> HIDE DEF a, q, g
  <2>2. /\ Len(a) = Len(q) + k /\ DOMAIN a = 1..Len(q) + k
        /\ \A j \in 1..Len(q) : a[j] = q[j]
        /\ \A j \in Len(q) + 1..Len(q) + k : a[j] = n + (j - Len(q))
    BY <1>1, <2>0, <2>1, JoinFacts
  <2>3. ASSUME NEW j \in DOMAIN a PROVE a[j] = Len(g) + j
    <3>1. CASE j <= Len(q)
      BY <1>2, <1>3, <2>1, <2>2, <3>1
    <3>2. CASE ~(j <= Len(q))
      <4>1. a[j] = n + (j - Len(q)) /\ j \in Int
        BY <1>2, <2>1, <2>2, <3>2
      <4> QED BY <1>2, <2>1, <4>1
    <3> QED BY <3>1, <3>2
  <2>4. Len(g) + Len(a) = m
    BY <1>2, <2>1, <2>2
  <2> QED BY <1>2, <1>3, <2>1, <2>3, <2>4 DEF Whole
<1>8. ASSUME NEW k \in DOMAIN e.data, Taken(e, n, f, m, k) PROVE Whole(f, m)
  <2> DEFINE a == g \o SubSeq(q, 1, k)
             b == SubSeq(q, k + 1, Len(q))
  <2>1. f.got = a /\ f.data = b /\ f.state = e.state /\ m = n
    BY <1>8 DEF Taken
  <2>0. k \in 1..Len(q) /\ k \in DOMAIN q /\ k \in Nat /\ k <= Len(q)
    BY <1>1
  <2> HIDE DEF q, g
  <2>2. /\ Len(a) = Len(g) + k /\ DOMAIN a = 1..Len(g) + k
        /\ \A i \in 1..Len(g) : a[i] = g[i]
        /\ \A i \in Len(g) + 1..Len(g) + k : a[i] = q[i - Len(g)]
    BY <1>1, <2>0, FrontFacts
  <2>6. /\ b \in Seq(Nat) /\ Len(b) = Len(q) - k
        /\ \A j \in 1..Len(q) - k : b[j] = q[k + j]
    BY <1>1, <2>0, RestOf
  <2> HIDE DEF a, b
  <2>3. ASSUME NEW i \in DOMAIN a PROVE a[i] = i
    <3>1. CASE i <= Len(g)
      BY <1>2, <1>3, <2>0, <2>2, <3>1
    <3>2. CASE ~(i <= Len(g))
      <4>1. i - Len(g) \in 1..Len(q) /\ a[i] = q[i - Len(g)] /\ i \in Int
        BY <1>2, <2>0, <2>2, <3>2
      <4> QED BY <1>2, <1>3, <4>1
    <3> QED BY <3>1, <3>2
  <2>4. ASSUME NEW j \in DOMAIN b PROVE b[j] = Len(a) + j
    <3>1. j \in 1..Len(q) - k /\ k + j \in 1..Len(q)
      BY <1>2, <2>0, <2>6
    <3>2. b[j] = Len(g) + (k + j)
      BY <1>3, <2>6, <3>1
    <3> QED BY <1>2, <2>0, <2>2, <3>1, <3>2
  <2>5. Len(a) + Len(b) = Len(g) + Len(q)
    BY <1>2, <2>0, <2>2, <2>6
  <2> QED BY <1>3, <2>1, <2>3, <2>4, <2>5 DEF Whole
<1> QED BY <1>4, <1>5, <1>6, <1>7, <1>8 DEF Moves
-----------------------------------------------------------------------------
HIDE DescriptorAssumption
HIDE NumberAssumption
HIDE CallAssumption

LEMMA InitEnds == Init => EndsOK
<1> SUFFICES ASSUME Init PROVE EndsOK
  OBVIOUS
<1>1. \A d \in Descriptor : os[d].conn = 0 /\ os[d].queue = <<>>
  BY DEF Init, Closed
<1>2. \A k \in Connection : k # 0
  BY NumberAssumption
<1> QED BY <1>1, <1>2 DEF EndsOK, HeldOpen, HeldOnce, QueuedOpen, QueuedOnce, Holds

\* The steps that connect, accept and close nothing.
LEMMA SameEnds ==
  ASSUME OwnerInv, EndsOK,
         \A d \in Descriptor : /\ os'[d].conn = os[d].conn /\ os'[d].side = os[d].side
                               /\ os'[d].queue = os[d].queue,
         \A k \in Connection, s \in Side : tcp'[k][s].state = tcp[k][s].state
  PROVE  EndsOK'
<1>1. HeldOpen' /\ HeldOnce'
  BY DEF EndsOK, HeldOpen, HeldOnce, Holds
<1>2. \A d \in Descriptor : \A i \in DOMAIN os[d].queue : os[d].queue[i] \in Connection
  BY DEF OwnerInv, TableOK, Fields
<1>3. QueuedOpen'
  <2> SUFFICES ASSUME NEW d \in Descriptor, NEW i \in DOMAIN os'[d].queue
               PROVE  tcp'[os'[d].queue[i]]["server"].state = "queued"
    BY DEF QueuedOpen
  <2>1. os'[d].queue = os[d].queue /\ os[d].queue[i] \in Connection /\ "server" \in Side
    BY <1>2 DEF Side
  <2> QED BY <2>1 DEF EndsOK, QueuedOpen
<1>4. QueuedOnce'
  <2> SUFFICES ASSUME NEW d \in Descriptor, NEW e \in Descriptor,
                      NEW i \in DOMAIN os'[d].queue, NEW j \in DOMAIN os'[e].queue,
                      os'[d].queue[i] = os'[e].queue[j]
               PROVE  d = e /\ i = j
    BY DEF QueuedOnce
  <2>1. os'[d].queue = os[d].queue /\ os'[e].queue = os[e].queue
    OBVIOUS
  <2> QED BY <2>1 DEF EndsOK, QueuedOnce
<1> QED BY <1>1, <1>3, <1>4 DEF EndsOK

LEMMA FieldsKept ==
  ASSUME OwnerInv, NEW o \in Object, step[o] # "none", NEW v,
         \/ os' = [os EXCEPT ![sockDesc[o]].port = v]
         \/ os' = [os EXCEPT ![sockDesc[o]].listening = v]
  PROVE  \A d \in Descriptor : /\ os'[d].conn = os[d].conn /\ os'[d].side = os[d].side
                               /\ os'[d].queue = os[d].queue
BY OwnDescriptor DEF OwnerInv, TableOK, Fields

LEMMA QuietSteps ==
  ASSUME OwnerInv, EndsOK, NEW o \in Object,
         \/ \E c \in Call : New(o, c)
         \/ Throw(o) \/ SetLocalPort(o) \/ SetListen(o) \/ SetBroadcast(o)
  PROVE  EndsOK' /\ tcp' = tcp
<1>1. tcp' = tcp
  BY DEF New, Throw, SetLocalPort, SetListen, SetBroadcast
<1>2. \A d \in Descriptor : /\ os'[d].conn = os[d].conn /\ os'[d].side = os[d].side
                            /\ os'[d].queue = os[d].queue
  <2>1. ASSUME NEW c \in Call, New(o, c)
        PROVE  \A d \in Descriptor : /\ os'[d].conn = os[d].conn /\ os'[d].side = os[d].side
                                     /\ os'[d].queue = os[d].queue
    BY <2>1 DEF New, Lowest, Free, OwnerInv, TableOK, Fields
  <2>2. CASE Throw(o) \/ SetBroadcast(o)
    BY <2>2 DEF Throw, SetBroadcast
  <2>3. CASE SetLocalPort(o)
    BY <2>3, FieldsKept DEF SetLocalPort, At
  <2>4. CASE SetListen(o)
    BY <2>4, FieldsKept DEF SetListen, At
  <2> QED BY <2>1, <2>2, <2>3, <2>4
<1> QED BY <1>1, <1>2, SameEnds

LEMMA AppendedFacts ==
  ASSUME NEW S, NEW q \in Seq(S), NEW k
  PROVE  \A i \in DOMAIN Append(q, k) :
           \/ i \in DOMAIN q /\ Append(q, k)[i] = q[i]
           \/ i = Len(q) + 1 /\ Append(q, k)[i] = k
<1>1. Len(q) \in Nat /\ DOMAIN q = 1..Len(q) /\ DOMAIN Append(q, k) = 1..Len(q) + 1
  BY AppendProperties
<1>2. Append(q, k)[Len(q) + 1] = k /\ \A i \in 1..Len(q) : Append(q, k)[i] = q[i]
  BY AppendProperties
<1>3. \A i \in 1..Len(q) + 1 : i \in 1..Len(q) \/ i = Len(q) + 1
  BY <1>1
<1> QED BY <1>1, <1>2, <1>3

LEMMA ConnectTable ==
  ASSUME OwnerInv, NEW c \in Descriptor, NEW l \in Descriptor, NEW k \in Connection,
         os' = [os EXCEPT ![l].queue = Append(@, k), ![c].conn = k, ![c].side = "client"]
  PROVE  /\ \A d \in Descriptor : os'[d].queue = IF d = l THEN Append(os[d].queue, k)
                                                         ELSE os[d].queue
         /\ \A d \in Descriptor \ {c} : os'[d].conn = os[d].conn /\ os'[d].side = os[d].side
         /\ os'[c].conn = k /\ os'[c].side = "client"
<1> USE DEF OwnerInv
<1> DEFINE q == [os[l] EXCEPT !.queue = Append(@, k)]
           os1 == [os EXCEPT ![l] = q]
           f == [os1[c] EXCEPT !.conn = k, !.side = "client"]
<1>0. os \in [Descriptor -> Fields] /\ \A d \in Descriptor : os[d] \in Fields
  BY DEF TableOK
<1>1. os' = [os1 EXCEPT ![c] = f]
  OBVIOUS
<1>2. q.queue = Append(os[l].queue, k) /\ q.conn = os[l].conn /\ q.side = os[l].side
  BY <1>0 DEF Fields
<1>3. Append(os[l].queue, k) \in Seq(Connection)
  BY <1>0, AppendProperties DEF Fields
<1>4. q \in Fields
  BY <1>0, <1>3, FieldsOK
<1> HIDE DEF q
<1>5. \A d \in Descriptor : os1[d] = (IF d = l THEN q ELSE os[d]) /\ os1[d] \in Fields
  BY <1>0, <1>4
<1>6. \A d \in Descriptor : /\ os1[d].queue = IF d = l THEN Append(os[d].queue, k)
                                                       ELSE os[d].queue
                            /\ os1[d].conn = os[d].conn /\ os1[d].side = os[d].side
  <2> TAKE d \in Descriptor
  <2>1. CASE d = l
    BY <1>2, <1>5, <2>1
  <2>2. CASE d # l
    BY <1>5, <2>2
  <2> QED BY <2>1, <2>2
<1>7. DOMAIN os1 = Descriptor
  BY <1>0
<1> HIDE DEF os1
<1>8. f.queue = os1[c].queue /\ f.conn = k /\ f.side = "client"
  BY <1>5 DEF Fields
<1> HIDE DEF f
<1>9. \A d \in Descriptor : os'[d] = IF d = c THEN f ELSE os1[d]
  BY <1>1, <1>7
<1>10. ASSUME NEW d \in Descriptor
       PROVE  os'[d].queue = IF d = l THEN Append(os[d].queue, k) ELSE os[d].queue
  <2>1. CASE d = c
    BY <1>6, <1>8, <1>9, <2>1
  <2>2. CASE d # c
    BY <1>6, <1>9, <2>2
  <2> QED BY <2>1, <2>2
<1>11. \A d \in Descriptor \ {c} : os'[d].conn = os[d].conn /\ os'[d].side = os[d].side
  BY <1>6, <1>9
<1>12. os'[c].conn = k /\ os'[c].side = "client"
  BY <1>8, <1>9
<1> QED BY <1>10, <1>11, <1>12

LEMMA ConnectEnds ==
  ASSUME OwnerInv, EndsOK, NEW o \in Object, NEW p \in Port, Connect(o, p)
  PROVE  /\ EndsOK'
         /\ \A k \in Connection, s \in Side :
              Stays(tcp[k][s], tcp[k][Other(s)].given, tcp'[k][s], tcp'[k][Other(s)].given)
<1> USE DEF OwnerInv
<1> DEFINE c == sockDesc[o]
<1>1. PICK l \in Descriptor, k \in Lowest(Unused) :
        /\ os' = [os EXCEPT ![l].queue = Append(@, k), ![c].conn = k, ![c].side = "client"]
        /\ tcp' = [tcp EXCEPT ![k]["client"].state = "open", ![k]["server"].state = "queued"]
  BY DEF Connect
<1>2. k \in Connection /\ \A s \in Side : tcp[k][s] = NoEnd
  BY DEF Lowest, Unused
<1>3. c \in Descriptor
  BY OwnDescriptor DEF Connect, At
<1>4. /\ \A d \in Descriptor : os'[d].queue = IF d = l THEN Append(os[d].queue, k)
                                                       ELSE os[d].queue
      /\ \A d \in Descriptor \ {c} : os'[d].conn = os[d].conn /\ os'[d].side = os[d].side
      /\ os'[c].conn = k /\ os'[c].side = "client"
  BY <1>1, <1>2, <1>3, ConnectTable
<1>5. /\ \A j \in Connection \ {k} : tcp'[j] = tcp[j]
      /\ tcp'[k]["client"].state = "open" /\ tcp'[k]["server"].state = "queued"
      /\ \A s \in Side : /\ tcp'[k][s].got = tcp[k][s].got
                         /\ tcp'[k][s].data = tcp[k][s].data
                         /\ tcp'[k][s].given = tcp[k][s].given
  BY <1>1, <1>2 DEF TcpOK, EndFields, Side
<1>6. \A s \in Side : tcp[k][s].state = "unused"
  BY <1>2 DEF NoEnd
<1>7. \A d \in Descriptor, s \in Side : ~Holds(d, k, s)
  BY <1>2, <1>6 DEF EndsOK, HeldOpen
<1>8. \A d \in Descriptor : \A i \in DOMAIN os[d].queue :
        os[d].queue[i] \in Connection /\ os[d].queue[i] # k
  BY <1>6 DEF EndsOK, QueuedOpen, TableOK, Fields, Side
<1>9. \A d \in Descriptor : \A i \in DOMAIN os'[d].queue :
        \/ i \in DOMAIN os[d].queue /\ os'[d].queue[i] = os[d].queue[i]
        \/ d = l /\ i = Len(os[l].queue) + 1 /\ os'[d].queue[i] = k
  <2>1. os[l].queue \in Seq(Connection)
    BY DEF TableOK, Fields
  <2>2. \A i \in DOMAIN Append(os[l].queue, k) :
          \/ i \in DOMAIN os[l].queue /\ Append(os[l].queue, k)[i] = os[l].queue[i]
          \/ i = Len(os[l].queue) + 1 /\ Append(os[l].queue, k)[i] = k
    BY <2>1, AppendedFacts
  <2> QED BY <1>4, <2>2
<1>10. HeldOpen'
  <2>1. \A d \in Descriptor, j \in Connection, s \in Side :
          os'[d].conn = j /\ os'[d].side = s => tcp'[j][s].state = "open"
    BY <1>3, <1>4, <1>5, <1>7 DEF EndsOK, HeldOpen, Holds
  <2> QED BY <2>1 DEF HeldOpen, Holds
<1>11. HeldOnce'
  <2>1. \A d, e \in Descriptor, j \in Connection, s \in Side :
          os'[d].conn = j /\ os'[d].side = s /\ os'[e].conn = j /\ os'[e].side = s
            => d = e
    <3> SUFFICES ASSUME NEW d \in Descriptor, NEW e \in Descriptor,
                        NEW j \in Connection, NEW s \in Side,
                        os'[d].conn = j, os'[d].side = s, os'[e].conn = j, os'[e].side = s
                 PROVE  d = e
      OBVIOUS
    <3>1. CASE d # c /\ e # c
      BY <1>4, <3>1 DEF EndsOK, HeldOnce, Holds
    <3>2. CASE j = k
      <4>1. \A x \in Descriptor \ {c} : ~(os'[x].conn = j /\ os'[x].side = s)
        BY <1>4, <1>7, <3>2 DEF Holds
      <4> QED BY <4>1
    <3>3. CASE j # k /\ (d = c \/ e = c)
      BY <1>4, <3>3
    <3> QED BY <3>1, <3>2, <3>3
  <2> QED BY <2>1 DEF HeldOnce, Holds
<1>12. QueuedOpen'
  <2> SUFFICES ASSUME NEW d \in Descriptor, NEW i \in DOMAIN os'[d].queue
               PROVE  tcp'[os'[d].queue[i]]["server"].state = "queued"
    BY DEF QueuedOpen
  <2>1. CASE i \in DOMAIN os[d].queue /\ os'[d].queue[i] = os[d].queue[i]
    <3> DEFINE x == os[d].queue[i]
    <3>1. x \in Connection /\ x # k /\ tcp[x]["server"].state = "queued"
      BY <1>8, <2>1 DEF EndsOK, QueuedOpen
    <3> HIDE DEF x
    <3>2. tcp'[x]["server"].state = "queued"
      BY <1>5, <3>1
    <3> QED BY <2>1, <3>2 DEF x
  <2>2. CASE os'[d].queue[i] = k
    BY <1>5, <2>2
  <2> QED BY <1>9, <2>1, <2>2
<1>13. QueuedOnce'
  <2> SUFFICES ASSUME NEW d \in Descriptor, NEW e \in Descriptor,
                      NEW i \in DOMAIN os'[d].queue, NEW j \in DOMAIN os'[e].queue,
                      os'[d].queue[i] = os'[e].queue[j]
               PROVE  d = e /\ i = j
    BY DEF QueuedOnce
  <2> QED BY <1>8, <1>9 DEF EndsOK, QueuedOnce
<1>14. ASSUME NEW j \in Connection, NEW s \in Side
       PROVE  Stays(tcp[j][s], tcp[j][Other(s)].given, tcp'[j][s], tcp'[j][Other(s)].given)
  <2>1. Other(s) \in Side
    BY DEF Other, Side
  <2> QED BY <1>5, <1>6, <2>1 DEF Stays
<1> QED BY <1>10, <1>11, <1>12, <1>13, <1>14 DEF EndsOK

LEMMA AcceptEnds ==
  ASSUME OwnerInv, EndsOK, NEW o \in Object, NEW n \in Object, Accept(o, n)
  PROVE  /\ EndsOK'
         /\ \A k \in Connection, s \in Side :
              Stays(tcp[k][s], tcp[k][Other(s)].given, tcp'[k][s], tcp'[k][Other(s)].given)
<1> USE DEF OwnerInv
<1> DEFINE c == sockDesc[o]
           k == Head(Fd(o).queue)
<1>1. PICK d \in Lowest(Free) :
        /\ os' = [os EXCEPT ![c].queue = Tail(@),
                            ![d] = [Closed EXCEPT !.type = "stream", !.conn = k, !.side = "server"]]
        /\ tcp' = [tcp EXCEPT ![k]["server"].state = "open"]
  BY DEF Accept
<1>2. c \in Descriptor /\ Fd(o) \in Fields /\ Fd(o) = os[c]
  BY OwnDescriptor DEF Accept, At, Fd
<1>3. d \in Descriptor /\ d # c
  <2>1. os[c].type # "closed"
    BY <1>2 DEF Accept, At, OneOwner, Built
  <2> QED BY <2>1 DEF Lowest, Free
<1>4. os[c].queue \in Seq(Connection) /\ os[c].queue # <<>>
  BY <1>2 DEF Accept, Fields
<1>5. /\ k \in Connection /\ 1 \in DOMAIN os[c].queue /\ os[c].queue[1] = k
      /\ \A i \in DOMAIN Tail(os[c].queue) :
           /\ i \in Nat /\ i # 0 /\ i + 1 \in DOMAIN os[c].queue
           /\ Tail(os[c].queue)[i] = os[c].queue[i + 1]
  <2> DEFINE q == os[c].queue
  <2>1. k = q[1] /\ q \in Seq(Connection) /\ q # <<>>
    BY <1>2, <1>4
  <2> HIDE DEF q, k
  <2>2. Len(q) \in Nat /\ Len(q) # 0 /\ DOMAIN q = 1..Len(q)
    BY <2>1
  <2>3. /\ Tail(q) \in Seq(Connection) /\ Len(Tail(q)) = Len(q) - 1
        /\ \A i \in 1..Len(Tail(q)) : Tail(q)[i] = q[i + 1]
    BY <2>1, HeadTailProperties
  <2>4. DOMAIN Tail(q) = 1..Len(q) - 1
    BY <2>2, <2>3
  <2> QED BY <2>1, <2>2, <2>3, <2>4 DEF q
<1> HIDE DEF k
<1>6. /\ \A e \in Descriptor \ {c, d} : os'[e] = os[e]
      /\ os'[c].conn = os[c].conn /\ os'[c].side = os[c].side
      /\ os'[c].queue = Tail(os[c].queue)
      /\ os'[d].conn = k /\ os'[d].side = "server" /\ os'[d].queue = <<>>
  BY <1>1, <1>2, <1>3 DEF TableOK, Fields, Closed
<1>7. /\ \A j \in Connection, s \in Side :
           tcp'[j][s].state = IF j = k /\ s = "server" THEN "open" ELSE tcp[j][s].state
      /\ \A j \in Connection, s \in Side :
           /\ tcp'[j][s].got = tcp[j][s].got /\ tcp'[j][s].data = tcp[j][s].data
           /\ tcp'[j][s].given = tcp[j][s].given
  <2> DEFINE f == [tcp[k]["server"] EXCEPT !.state = "open"]
  <2>1. /\ f.state = "open" /\ f.got = tcp[k]["server"].got
        /\ f.data = tcp[k]["server"].data /\ f.given = tcp[k]["server"].given
    BY <1>5 DEF TcpOK, EndFields, Side
  <2>2. tcp' = [tcp EXCEPT ![k]["server"] = f]
    BY <1>1
  <2> HIDE DEF f
  <2>3. \A j \in Connection, s \in Side :
          tcp'[j][s] = IF j = k /\ s = "server" THEN f ELSE tcp[j][s]
    BY <1>5, <2>2 DEF TcpOK, Side
  <2> QED BY <2>1, <2>3
<1>8. tcp[k]["server"].state = "queued"
  BY <1>2, <1>5 DEF EndsOK, QueuedOpen
<1>9. \A e \in Descriptor : ~Holds(e, k, "server")
  BY <1>5, <1>8 DEF EndsOK, HeldOpen, Side
<1>10. HeldOpen'
  <2>1. \A e \in Descriptor, j \in Connection, s \in Side :
          os'[e].conn = j /\ os'[e].side = s => tcp'[j][s].state = "open"
    BY <1>6, <1>7 DEF EndsOK, HeldOpen, Holds
  <2> QED BY <2>1 DEF HeldOpen, Holds
<1>11. HeldOnce'
  <2>1. \A e, f \in Descriptor, j \in Connection, s \in Side :
          os'[e].conn = j /\ os'[e].side = s /\ os'[f].conn = j /\ os'[f].side = s
            => e = f
    <3> SUFFICES ASSUME NEW e \in Descriptor, NEW f \in Descriptor,
                        NEW j \in Connection, NEW s \in Side,
                        os'[e].conn = j, os'[e].side = s, os'[f].conn = j, os'[f].side = s
                 PROVE  e = f
      OBVIOUS
    <3>1. CASE e # d /\ f # d
      <4>1. Holds(e, j, s) /\ Holds(f, j, s)
        BY <1>6, <3>1 DEF Holds
      <4> QED BY <4>1 DEF EndsOK, HeldOnce
    <3>2. CASE j = k /\ s = "server"
      <4>1. \A x \in Descriptor \ {d} : ~(os'[x].conn = j /\ os'[x].side = s)
        BY <1>6, <1>9, <3>2 DEF Holds
      <4> QED BY <4>1
    <3>3. CASE ~(j = k /\ s = "server") /\ (e = d \/ f = d)
      BY <1>6, <3>3
    <3> QED BY <3>1, <3>2, <3>3
  <2> QED BY <2>1 DEF HeldOnce, Holds
<1> DEFINE Place(e, i) == IF e = c THEN i + 1 ELSE i
<1>12. \A e \in Descriptor : \A i \in DOMAIN os'[e].queue :
         /\ Place(e, i) \in DOMAIN os[e].queue /\ (e = c => i \in Nat)
         /\ os'[e].queue[i] = os[e].queue[Place(e, i)]
         /\ os'[e].queue[i] \in Connection /\ os'[e].queue[i] # k
  <2> TAKE e \in Descriptor
  <2> TAKE i \in DOMAIN os'[e].queue
  <2>1. e # d
    BY <1>6
  <2>2. /\ Place(e, i) \in DOMAIN os[e].queue /\ (e = c => i \in Nat)
        /\ os'[e].queue[i] = os[e].queue[Place(e, i)]
    BY <1>5, <1>6, <2>1
  <2>4. e = c => Place(e, i) # 1
    <3>1. \A x \in Nat : x + 1 # 1 \/ x = 0
      OBVIOUS
    <3>2. e = c => i \in Nat /\ i # 0
      BY <1>5, <1>6, <2>2
    <3> QED BY <3>1, <3>2
  <2> HIDE DEF Place
  <2>6. os[e].queue \in Seq(Connection)
    BY DEF TableOK, Fields
  <2>3. os[e].queue[Place(e, i)] \in Connection
    BY <2>2, <2>6
  <2>5. os[e].queue[Place(e, i)] # k
    BY <1>2, <1>5, <2>2, <2>4 DEF EndsOK, QueuedOnce
  <2> QED BY <2>2, <2>3, <2>5
<1>13. QueuedOpen'
  <2> SUFFICES ASSUME NEW e \in Descriptor, NEW i \in DOMAIN os'[e].queue
               PROVE  tcp'[os'[e].queue[i]]["server"].state = "queued"
    BY DEF QueuedOpen
  <2> HIDE DEF Place
  <2> DEFINE x == os'[e].queue[i]
  <2>1. x \in Connection /\ x # k /\ tcp[x]["server"].state = "queued"
    BY <1>12 DEF EndsOK, QueuedOpen
  <2> HIDE DEF x
  <2>2. tcp'[x]["server"].state = "queued"
    BY <1>7, <2>1 DEF Side
  <2> QED BY <2>2 DEF x
<1>14. QueuedOnce'
  <2> SUFFICES ASSUME NEW e \in Descriptor, NEW f \in Descriptor,
                      NEW i \in DOMAIN os'[e].queue, NEW j \in DOMAIN os'[f].queue,
                      os'[e].queue[i] = os'[f].queue[j]
               PROVE  e = f /\ i = j
    BY DEF QueuedOnce
  <2>1. e = f /\ Place(e, i) = Place(f, j)
    <3> HIDE DEF Place
    <3> QED BY <1>12 DEF EndsOK, QueuedOnce
  <2> QED BY <1>12, <2>1
<1>15. ASSUME NEW j \in Connection, NEW s \in Side
       PROVE  Stays(tcp[j][s], tcp[j][Other(s)].given, tcp'[j][s], tcp'[j][Other(s)].given)
  <2>1. Other(s) \in Side
    BY DEF Other, Side
  <2> QED BY <1>7, <1>8, <2>1 DEF Stays
<1> QED BY <1>10, <1>11, <1>13, <1>14, <1>15 DEF EndsOK

\* What ~Socket does to an end that o does not hold: a reset perhaps, no more.
LEMMA DestroyEnds ==
  ASSUME OwnerInv, EndsOK, NEW o \in Object, Destroy(o)
  PROVE  /\ EndsOK'
         /\ \A k \in Connection, s \in Side :
              Moves(tcp[k][s], tcp[k][Other(s)].given, tcp'[k][s], tcp'[k][Other(s)].given)
<1> USE DEF OwnerInv
<1> DEFINE c == sockDesc[o]
           closes(k, s) ==
             \/ k = Fd(o).conn /\ s = Fd(o).side
             \/ s = "server" /\ \E i \in DOMAIN Fd(o).queue : Fd(o).queue[i] = k
           resets(k, s) == closes(k, s) /\ (Fd(o).listening \/ tcp[k][s].data # <<>>)
           over(k) == \A s \in Side : closes(k, s) \/ tcp[k][s].state = "closed"
           shut(k, s) == [tcp[k][s] EXCEPT !.state = "closed", !.data = <<>>]
           reset(k, s) == [tcp[k][s] EXCEPT !.rst = @ \/ resets(k, Other(s))]
           new(k, s) == IF over(k) THEN NoEnd
                        ELSE IF closes(k, s) THEN shut(k, s) ELSE reset(k, s)
<1>1. c \in Descriptor /\ Fd(o) = os[c]
  BY OwnDescriptor DEF Destroy, At, Fd
<1>2. /\ \A d \in Descriptor \ {c} : os'[d] = os[d]
      /\ os'[c] = Closed
  BY <1>1 DEF Destroy, TableOK
<1>3. \A k \in Connection, s \in Side : tcp'[k][s] = new(k, s)
  BY DEF Destroy
<1>4. ASSUME NEW k \in Connection, NEW s \in Side
      PROVE  /\ shut(k, s).got = tcp[k][s].got /\ shut(k, s).given = tcp[k][s].given
             /\ shut(k, s).data = <<>> /\ shut(k, s).state = "closed"
             /\ reset(k, s).got = tcp[k][s].got /\ reset(k, s).given = tcp[k][s].given
             /\ reset(k, s).data = tcp[k][s].data /\ reset(k, s).state = tcp[k][s].state
  <2>1. tcp[k][s] \in EndFields
    BY DEF TcpOK
  <2> HIDE DEF resets
  <2> QED BY <2>1 DEF EndFields
<1> HIDE DEF shut, reset
<1>5. ASSUME NEW k \in Connection, NEW s \in Side, ~closes(k, s), tcp[k][s].state # "closed"
      PROVE  tcp'[k][s].state = tcp[k][s].state
  <2>1. ~over(k)
    BY <1>5
  <2> HIDE DEF closes, over
  <2> QED BY <1>3, <1>4, <1>5, <2>1
<1>6. ASSUME NEW d \in Descriptor \ {c}, NEW k \in Connection, NEW s \in Side, Holds(d, k, s)
      PROVE  ~closes(k, s) /\ tcp[k][s].state = "open"
  <2>1. tcp[k][s].state = "open"
    BY <1>6 DEF EndsOK, HeldOpen
  <2>2. ~(k = Fd(o).conn /\ s = Fd(o).side)
    BY <1>1, <1>6 DEF EndsOK, HeldOnce, Holds
  <2>3. ~(s = "server" /\ \E i \in DOMAIN Fd(o).queue : Fd(o).queue[i] = k)
    BY <1>1, <2>1 DEF EndsOK, QueuedOpen
  <2> QED BY <2>1, <2>2, <2>3
<1>7. ASSUME NEW d \in Descriptor \ {c}, NEW i \in DOMAIN os[d].queue
      PROVE  /\ ~closes(os[d].queue[i], "server") /\ os[d].queue[i] \in Connection
             /\ tcp[os[d].queue[i]]["server"].state = "queued"
  <2> DEFINE k == os[d].queue[i]
  <2>1. os[d].queue \in Seq(Connection)
    BY DEF TableOK, Fields
  <2>2. k \in Connection /\ tcp[k]["server"].state = "queued"
    BY <2>1 DEF EndsOK, QueuedOpen
  <2>3. \A j \in DOMAIN os[c].queue : os[c].queue[j] # k
    BY <1>1 DEF EndsOK, QueuedOnce
  <2> HIDE DEF k
  <2>4. ~(k = Fd(o).conn /\ "server" = Fd(o).side)
    BY <1>1, <2>2 DEF EndsOK, HeldOpen, Holds, Side
  <2> QED BY <1>1, <2>2, <2>3, <2>4 DEF k
<1>8. os'[c].queue = <<>> /\ \A k \in Connection : os'[c].conn # k
  BY <1>2, NumberAssumption DEF Closed
<1> HIDE DEF closes, over, new
<1>9. HeldOpen'
  <2>1. \A d \in Descriptor, k \in Connection, s \in Side :
          os'[d].conn = k /\ os'[d].side = s => tcp'[k][s].state = "open"
    BY <1>2, <1>5, <1>6, <1>8 DEF Holds
  <2> QED BY <2>1 DEF HeldOpen, Holds
<1>10. HeldOnce'
  <2>1. \A d, e \in Descriptor, k \in Connection, s \in Side :
          os'[d].conn = k /\ os'[d].side = s /\ os'[e].conn = k /\ os'[e].side = s
            => d = e
    BY <1>2, <1>8 DEF EndsOK, HeldOnce, Holds
  <2> QED BY <2>1 DEF HeldOnce, Holds
<1>11. QueuedOpen'
  <2> SUFFICES ASSUME NEW d \in Descriptor, NEW i \in DOMAIN os'[d].queue
               PROVE  tcp'[os'[d].queue[i]]["server"].state = "queued"
    BY DEF QueuedOpen
  <2>1. d # c /\ os'[d].queue = os[d].queue
    BY <1>2, <1>8
  <2> DEFINE k == os[d].queue[i]
  <2>2. k \in Connection /\ ~closes(k, "server") /\ tcp[k]["server"].state = "queued"
    BY <1>7, <2>1
  <2> HIDE DEF k
  <2>3. tcp'[k]["server"].state = "queued"
    BY <1>5, <2>2 DEF Side
  <2> QED BY <2>1, <2>3 DEF k
<1>12. QueuedOnce'
  <2> SUFFICES ASSUME NEW d \in Descriptor, NEW e \in Descriptor,
                      NEW i \in DOMAIN os'[d].queue, NEW j \in DOMAIN os'[e].queue,
                      os'[d].queue[i] = os'[e].queue[j]
               PROVE  d = e /\ i = j
    BY DEF QueuedOnce
  <2>1. d # c /\ e # c /\ os'[d].queue = os[d].queue /\ os'[e].queue = os[e].queue
    BY <1>2, <1>8
  <2> QED BY <2>1 DEF EndsOK, QueuedOnce
<1>13. ASSUME NEW k \in Connection, NEW s \in Side
       PROVE  Moves(tcp[k][s], tcp[k][Other(s)].given, tcp'[k][s], tcp'[k][Other(s)].given)
  <2>1. Other(s) \in Side
    BY DEF Other, Side
  <2>2. CASE over(k)
    <3>1. tcp'[k][s] = NoEnd /\ tcp'[k][Other(s)] = NoEnd
      BY <1>3, <2>1, <2>2 DEF new
    <3> QED BY <3>1 DEF Moves, Forgotten, NoEnd
  <2>3. CASE ~over(k)
    <3>1. tcp'[k][Other(s)].given = tcp[k][Other(s)].given
      BY <1>3, <1>4, <2>1, <2>3 DEF new
    <3>2. CASE closes(k, s)
      <4>1. tcp'[k][s] = shut(k, s)
        BY <1>3, <2>3, <3>2 DEF new
      <4> QED BY <1>4, <3>1, <4>1 DEF Moves, Shut
    <3>3. CASE ~closes(k, s)
      <4>1. tcp'[k][s] = reset(k, s)
        BY <1>3, <2>3, <3>3 DEF new
      <4> QED BY <1>4, <3>1, <4>1 DEF Moves, Stays
    <3> QED BY <3>2, <3>3
  <2> QED BY <2>2, <2>3
<1> QED BY <1>9, <1>10, <1>11, <1>12, <1>13 DEF EndsOK

LEMMA SendEnds ==
  ASSUME OwnerInv, EndsOK, NEW o \in Object, NEW len \in 1..MaxBytes, Send(o, len)
  PROVE  /\ EndsOK'
         /\ \A k \in Connection, s \in Side :
              Moves(tcp[k][s], tcp[k][Other(s)].given, tcp'[k][s], tcp'[k][Other(s)].given)
<1> USE DEF Send
<1> DEFINE c == Fd(o).conn
           a == Fd(o).side
           b == Other(a)
<1>1. /\ c \in Connection /\ a \in Side /\ b \in Side /\ a # b
      /\ tcp[c][a] \in EndFields /\ tcp[c][b] \in EndFields
  BY MyEnds DEF Mine, Theirs
<1>2. tcp \in [Connection -> [Side -> EndFields]] /\ os' = os
  BY DEF OwnerInv, TcpOK
<1>3. \A s \in Side : Other(s) \in Side /\ (s = a <=> Other(s) = b) /\ (s = b <=> Other(s) = a)
  BY <1>1 DEF Side, Other
<1>4. CASE MayTransmit(o, len) /\ \E n \in IF ShortWrites THEN 1..len ELSE {len} :
                                    Transmit(o, len, Bytes(o, n))
  <2>1. PICK n \in IF ShortWrites THEN 1..len ELSE {len} : Transmit(o, len, Bytes(o, n))
    BY <1>4
  <2>2. n \in 1..len /\ (ShortWrites \/ n = len) /\ len \in Nat
    OBVIOUS
  <2> DEFINE g == tcp[c][a].given
             q == [i \in 1..n |-> g + i]
             f == [tcp[c][a] EXCEPT !.given = @ + len]
             h == [tcp[c][b] EXCEPT !.data = @ \o q]
  <2>3. tcp' = [tcp EXCEPT ![c][a] = f, ![c][b] = h]
    BY <2>1, <1>1, <1>2 DEF Transmit, Bytes, Mine
  <2>4. tcp[c][b].state # "closed"
    BY <1>4 DEF MayTransmit, Theirs
  <2>5. /\ f.got = tcp[c][a].got /\ f.data = tcp[c][a].data /\ f.state = tcp[c][a].state
        /\ f.given = g + len
        /\ h.got = tcp[c][b].got /\ h.data = tcp[c][b].data \o q
        /\ h.state = tcp[c][b].state /\ h.given = tcp[c][b].given
    <3> HIDE DEF q, c, a, b
    <3> QED BY <1>1 DEF EndFields
  <2> HIDE DEF c, a, b, f, h
  <2>6. \A k \in Connection, s \in Side :
          tcp'[k][s] = IF k = c /\ s = a THEN f ELSE IF k = c /\ s = b THEN h ELSE tcp[k][s]
    BY <1>1, <1>2, <2>3 DEF Side
  <2>7. Sent(tcp[c][b], g, tcp'[c][b], tcp'[c][a].given, len, n)
    BY <1>1, <2>2, <2>4, <2>5, <2>6 DEF Sent
  <2>8. ASSUME NEW k \in Connection, NEW s \in Side
        PROVE  Moves(tcp[k][s], tcp[k][Other(s)].given, tcp'[k][s], tcp'[k][Other(s)].given)
    <3>1. CASE k = c /\ s = b
      <4>1. Sent(tcp[k][s], tcp[k][Other(s)].given, tcp'[k][s], tcp'[k][Other(s)].given, len, n)
        BY <1>3, <2>7, <3>1
      <4> QED BY <2>2, <4>1 DEF Moves
    <3>2. CASE ~(k = c /\ s = b)
      <4>1. Stays(tcp[k][s], tcp[k][Other(s)].given, tcp'[k][s], tcp'[k][Other(s)].given)
        BY <1>1, <1>3, <2>5, <2>6, <3>2 DEF Stays
      <4> QED BY <4>1 DEF Moves
    <3> QED BY <3>1, <3>2
  <2>9. \A k \in Connection, s \in Side : tcp'[k][s].state = tcp[k][s].state
    BY <2>5, <2>6
  <2>10. EndsOK'
    BY <1>2, <2>9, SameEnds
  <2> QED BY <2>8, <2>10
<1>5. CASE tcp' = [tcp EXCEPT ![c][a].rst = TRUE] \/ tcp' = tcp
  <2>1. ASSUME NEW k \in Connection, NEW s \in Side
        PROVE  /\ tcp'[k][s].got = tcp[k][s].got /\ tcp'[k][s].data = tcp[k][s].data
               /\ tcp'[k][s].given = tcp[k][s].given /\ tcp'[k][s].state = tcp[k][s].state
    <3>1. CASE tcp' = tcp
      BY <3>1
    <3>2. CASE tcp' = [tcp EXCEPT ![c][a].rst = TRUE]
      <4> DEFINE f == [tcp[c][a] EXCEPT !.rst = TRUE]
      <4>1. /\ f.got = tcp[c][a].got /\ f.data = tcp[c][a].data
            /\ f.given = tcp[c][a].given /\ f.state = tcp[c][a].state
        <5> HIDE DEF c, a
        <5> QED BY <1>1 DEF EndFields
      <4>2. tcp' = [tcp EXCEPT ![c][a] = f]
        BY <3>2
      <4> HIDE DEF c, a, f
      <4>3. tcp'[k][s] = IF k = c /\ s = a THEN f ELSE tcp[k][s]
        BY <1>1, <1>2, <4>2
      <4> QED BY <4>1, <4>3
    <3> QED BY <1>5, <3>1, <3>2
  <2>2. EndsOK'
    BY <1>2, <2>1, SameEnds
  <2>3. ASSUME NEW k \in Connection, NEW s \in Side
        PROVE  Moves(tcp[k][s], tcp[k][Other(s)].given, tcp'[k][s], tcp'[k][Other(s)].given)
    BY <1>3, <2>1 DEF Moves, Stays
  <2> QED BY <2>2, <2>3
<1> QED BY <1>4, <1>5

LEMMA RecvEnds ==
  ASSUME OwnerInv, EndsOK, NEW o \in Object, Recv(o)
  PROVE  /\ EndsOK'
         /\ \A k \in Connection, s \in Side :
              Moves(tcp[k][s], tcp[k][Other(s)].given, tcp'[k][s], tcp'[k][Other(s)].given)
<1> USE DEF Recv
<1> DEFINE c == Fd(o).conn
           a == Fd(o).side
           e == tcp[c][a]
<1>1. c \in Connection /\ a \in Side /\ e \in EndFields
  BY MyEnds DEF Mine
<1>2. tcp \in [Connection -> [Side -> EndFields]] /\ os' = os
  BY DEF OwnerInv, TcpOK
<1>3. \A s \in Side : Other(s) \in Side /\ Other(s) # s
  BY DEF Side, Other
<1>4. CASE tcp' = tcp
  BY <1>2, <1>4, SameEnds DEF Moves, Stays
<1>5. ASSUME NEW n \in DOMAIN e.data,
             tcp' = [tcp EXCEPT ![c][a] = Received(o, n, SubSeq(e.data, n + 1, Len(e.data)))]
      PROVE  /\ EndsOK'
             /\ \A k \in Connection, s \in Side :
                  Moves(tcp[k][s], tcp[k][Other(s)].given, tcp'[k][s], tcp'[k][Other(s)].given)
  <2> DEFINE front == SubSeq(e.data, 1, n)
             left == SubSeq(e.data, n + 1, Len(e.data))
             f == [e EXCEPT !.got = @ \o front, !.data = left]
  <2>1. tcp' = [tcp EXCEPT ![c][a] = f]
    BY <1>5 DEF Received, Mine
  <2>2. /\ f.got = e.got \o front /\ f.data = left
        /\ f.state = e.state /\ f.given = e.given
    <3> HIDE DEF front, left, e
    <3> QED BY <1>1 DEF EndFields
  <2> HIDE DEF f
  <2>3. \A k \in Connection, s \in Side :
          tcp'[k][s] = IF k = c /\ s = a THEN f ELSE tcp[k][s]
    <3> HIDE DEF c, a
    <3> QED BY <1>1, <1>2, <2>1
  <2>4. \A k \in Connection, s \in Side :
          tcp'[k][s].state = tcp[k][s].state /\ tcp'[k][s].given = tcp[k][s].given
    BY <2>2, <2>3
  <2>5. EndsOK'
    BY <1>2, <2>4, SameEnds
  <2>6. ASSUME NEW k \in Connection, NEW s \in Side
        PROVE  Moves(tcp[k][s], tcp[k][Other(s)].given, tcp'[k][s], tcp'[k][Other(s)].given)
    <3>1. CASE k = c /\ s = a
      <4>1. tcp'[k][s] = f /\ tcp[k][s] = e
        BY <2>3, <3>1
      <4>2. tcp'[k][Other(s)].given = tcp[k][Other(s)].given
        BY <1>3, <2>4
      <4>3. Taken(e, tcp[k][Other(s)].given, f, tcp'[k][Other(s)].given, n)
        BY <2>2, <4>2 DEF Taken
      <4> QED BY <1>5, <4>1, <4>3 DEF Moves
    <3>2. CASE ~(k = c /\ s = a)
      BY <1>3, <2>3, <2>4, <3>2 DEF Moves, Stays
    <3> QED BY <3>1, <3>2
  <2> QED BY <2>5, <2>6
<1> QED BY <1>4, <1>5 DEF Mine
-----------------------------------------------------------------------------
LEMMA EndsAndMoves ==
  ASSUME OwnerInv, EndsOK, [Next]_vars
  PROVE  /\ EndsOK'
         /\ \A k \in Connection, s \in Side :
              Moves(tcp[k][s], tcp[k][Other(s)].given, tcp'[k][s], tcp'[k][Other(s)].given)
<1> DEFINE Good == /\ EndsOK'
                   /\ \A k \in Connection, s \in Side :
                        Moves(tcp[k][s], tcp[k][Other(s)].given,
                              tcp'[k][s], tcp'[k][Other(s)].given)
<1>1. ASSUME EndsOK', tcp' = tcp PROVE Good
  BY <1>1 DEF Moves, Stays
<1>2. ASSUME UNCHANGED vars PROVE Good
  <2>1. os' = os /\ tcp' = tcp
    BY <1>2 DEF vars
  <2>2. EndsOK'
    BY <2>1, SameEnds
  <2> QED BY <1>1, <2>1, <2>2
<1>3. ASSUME NEW o \in Object,
             \/ \E c \in Call : New(o, c)
             \/ Throw(o) \/ SetLocalPort(o) \/ SetListen(o) \/ SetBroadcast(o)
      PROVE  Good
  <2>1. EndsOK' /\ tcp' = tcp
    BY <1>3, QuietSteps
  <2> QED BY <1>1, <2>1
<1>4. ASSUME NEW o \in Object, NEW p \in Port, Connect(o, p) PROVE Good
  BY <1>4, ConnectEnds DEF Moves
<1>5. ASSUME NEW o \in Object, NEW n \in Object, Accept(o, n) PROVE Good
  BY <1>5, AcceptEnds DEF Moves
<1>6. ASSUME NEW o \in Object, NEW len \in 1..MaxBytes, Send(o, len) PROVE Good
  BY <1>6, SendEnds
<1>7. ASSUME NEW o \in Object, Recv(o) PROVE Good
  BY <1>7, RecvEnds
<1>8. ASSUME NEW o \in Object, Destroy(o) PROVE Good
  BY <1>8, DestroyEnds
<1> HIDE DEF Good
<1>9. ASSUME Next PROVE Good
  <2>1. PICK o \in Object :
          \/ \E c \in Call : New(o, c)
          \/ Throw(o) \/ SetLocalPort(o) \/ SetListen(o) \/ SetBroadcast(o)
          \/ \E p \in Port : Connect(o, p)
          \/ \E n \in Object : Accept(o, n)
          \/ \E len \in 1..MaxBytes : Send(o, len)
          \/ Recv(o) \/ Destroy(o)
    BY <1>9 DEF Next
  <2>2. ASSUME \E c \in Call : New(o, c) PROVE Good
    BY <1>3, <2>2
  <2>3. ASSUME Throw(o) \/ SetLocalPort(o) \/ SetListen(o) \/ SetBroadcast(o) PROVE Good
    BY <1>3, <2>3
  <2> QED BY <1>4, <1>5, <1>6, <1>7, <1>8, <2>1, <2>2, <2>3
<1>10. Good
  BY <1>2, <1>9
<1> QED BY <1>10 DEF Good

OrderInv == OwnerInv /\ EndsOK /\ FlowInv /\ (~ShortWrites => WholeInv)

LEMMA OrderInit == Init => OrderInv
<1> SUFFICES ASSUME Init PROVE OrderInv
  OBVIOUS
<1>1. \A k \in Connection, s \in Side : tcp[k][s] = NoEnd /\ tcp[k][Other(s)] = NoEnd
  BY DEF Init, Side, Other
<1>2. Flows(NoEnd, NoEnd.given)
  BY DEF NoEnd, Flows, Rising
<1>3. Whole(NoEnd, NoEnd.given)
  <2>1. NoEnd.got = <<>> /\ NoEnd.data = <<>> /\ NoEnd.given = 0
    BY DEF NoEnd
  <2> QED BY <2>1 DEF Whole
<1> QED BY <1>1, <1>2, <1>3, InitOwner, InitEnds DEF OrderInv, FlowInv, WholeInv

LEMMA OrderStep == OrderInv /\ [Next]_vars => OrderInv'
<1> SUFFICES ASSUME OrderInv, [Next]_vars PROVE OrderInv'
  OBVIOUS
<1> USE DEF OrderInv
<1>1. OwnerInv'
  BY Inductive
<1>2. EndsOK'
  BY EndsAndMoves
<1>3. ASSUME NEW k \in Connection, NEW s \in Side
      PROVE  /\ tcp[k][s] \in EndFields /\ tcp'[k][s] \in EndFields
             /\ tcp[k][Other(s)].given \in Nat /\ tcp'[k][Other(s)].given \in Nat
             /\ Moves(tcp[k][s], tcp[k][Other(s)].given, tcp'[k][s], tcp'[k][Other(s)].given)
  <2>1. Other(s) \in Side
    BY DEF Other, Side
  <2>2. \A t \in Side : tcp[k][t] \in EndFields /\ tcp'[k][t] \in EndFields
    BY <1>1 DEF OwnerInv, TcpOK
  <2>3. \A e \in EndFields : e.given \in Nat
    BY NumberAssumption DEF EndFields
  <2>4. Moves(tcp[k][s], tcp[k][Other(s)].given, tcp'[k][s], tcp'[k][Other(s)].given)
    BY EndsAndMoves
  <2> QED BY <2>1, <2>2, <2>3, <2>4
<1>4. FlowInv'
  <2>1. ASSUME NEW k \in Connection, NEW s \in Side
        PROVE  Flows(tcp'[k][s], tcp'[k][Other(s)].given)
    <3>1. Flows(tcp[k][s], tcp[k][Other(s)].given)
      BY DEF FlowInv
    <3> QED BY <1>3, <3>1, FlowMoves
  <2> QED BY <2>1 DEF FlowInv
<1>5. ~ShortWrites => WholeInv'
  <2>1. ASSUME ~ShortWrites, NEW k \in Connection, NEW s \in Side
        PROVE  Whole(tcp'[k][s], tcp'[k][Other(s)].given)
    <3>1. Whole(tcp[k][s], tcp[k][Other(s)].given)
      BY <2>1 DEF WholeInv
    <3> QED BY <1>3, <2>1, <3>1, WholeMoves
  <2> QED BY <2>1 DEF WholeInv
<1> QED BY <1>1, <1>2, <1>4, <1>5

LEMMA OrderAlways == Spec => []OrderInv
BY OrderInit, OrderStep, PTL DEF Spec

\* ::connect, ::accept and Socket::~Socket: an end of a connection is held by at
\* most one descriptor, and a connection that waits to be accepted waits once, in
\* one queue, so it is accepted at most once; nobody holds an end that is closed.
THEOREM EndsHeldOnce == Spec => []EndsOK
<1>1. OrderInv => EndsOK
  BY DEF OrderInv
<1> QED BY <1>1, OrderAlways, PTL

\* CommunicatingSocket::send and recv: however much ::send takes and however the
\* bytes are cut when they are received, and whoever closes when, no byte is
\* received twice or out of order and none that was not sent.
THEOREM InOrderAlways == Spec => []InOrder
<1>1. OrderInv => InOrder
  <2> SUFFICES ASSUME OrderInv, NEW k \in Connection, NEW s \in Side,
                      NEW i \in DOMAIN tcp[k][s].got
               PROVE  /\ tcp[k][s].got[i] <= tcp[k][Other(s)].given
                      /\ \A j \in 1..i - 1 : tcp[k][s].got[j] < tcp[k][s].got[i]
    BY DEF InOrder
  <2> DEFINE g == tcp[k][s].got
  <2>1. Flows(tcp[k][s], tcp[k][Other(s)].given) /\ g \in Seq(Nat)
    BY DEF OrderInv, FlowInv, OwnerInv, TcpOK, EndFields
  <2>2. Rising(g) /\ g[i] <= tcp[k][Other(s)].given
    BY <2>1 DEF Flows
  <2> HIDE DEF g
  <2>3. i \in DOMAIN g
    BY DEF g
  <2>4. \A j \in 1..i - 1 : j \in DOMAIN g /\ j < i
    BY <2>1, <2>3
  <2> QED BY <2>2, <2>3, <2>4 DEF Rising, g
<1> QED BY <1>1, OrderAlways, PTL

\* The comment of CommunicatingSocket::send, "Write the given buffer to this
\* socket", is true where ::send takes all it is given: what recv has returned is
\* the beginning of what was handed to send.
THEOREM WholeBufferUnlessShort ==
  ASSUME ~ShortWrites
  PROVE  Spec => []WholeBuffer
<1>1. OrderInv => WholeBuffer
  BY DEF OrderInv, WholeInv, Whole, WholeBuffer
<1> QED BY <1>1, OrderAlways, PTL

\* recv returns 0 only when there is nothing left to come: everything the other
\* side ever handed to send has been received.
EofIsTheEnd ==
  [][\A o \in Object : Recv(o) /\ heard'[o] = "eof" => Len(Mine(o).got) = Theirs(o).given]_vars

\* CommunicatingSocket::recv, where ::send takes all it is given: the 0 that ends a
\* reading loop never hides a byte, whichever side closed first.
THEOREM EofIsTheEndUnlessShort ==
  ASSUME ~ShortWrites
  PROVE  Spec => EofIsTheEnd
<1>1. ASSUME OrderInv, NEW o \in Object, Recv(o), heard'[o] = "eof"
      PROVE  Len(Mine(o).got) = Theirs(o).given
  <2> DEFINE e == Mine(o)
             n == Theirs(o).given
  <2>1. /\ Fd(o).conn \in Connection /\ Fd(o).side \in Side /\ e \in EndFields
        /\ sockDesc[o] \in Descriptor
    BY <1>1, MyEnds, OwnDescriptor DEF OrderInv, Recv, Connected, At
  <2>2. Whole(e, n)
    BY <1>1, <2>1 DEF OrderInv, WholeInv, Mine, Theirs
  <2>3. e.state = "open"
    BY <1>1, <2>1 DEF OrderInv, EndsOK, HeldOpen, Holds, Mine, Fd
  <2>4. e.data = <<>>
    BY <1>1 DEF Recv, OrderInv, OwnerInv, ObjectsOK
  <2> HIDE DEF e, n
  <2>5. Len(e.got) \in Nat /\ Len(e.data) = 0
    BY <2>1, <2>4 DEF EndFields
  <2>6. Len(e.got) = n
    BY <2>2, <2>3, <2>5 DEF Whole
  <2> QED BY <2>6 DEF e, n
<1>2. OrderInv => [\A o \in Object : Recv(o) /\ heard'[o] = "eof"
                     => Len(Mine(o).got) = Theirs(o).given]_vars
  BY <1>1
<1> QED BY <1>2, OrderAlways, PTL DEF EofIsTheEnd
=============================================================================
