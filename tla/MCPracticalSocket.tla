------------------------- MODULE MCPracticalSocket -------------------------
(* One server, its client and what the server accepts; a datagram socket
   competes with them for the descriptors, of which there are too few for all
   four.  Without it (Three) there are enough. *)
EXTENDS PracticalSocket

CONSTANTS o1, o2, o3, o4

Objects == {o1, o2, o3, o4}
Three == {o1, o2, o3}
Classes ==
  [o \in Object |-> CASE o = o1 -> "TCPServerSocket" [] o = o4 -> "UDPSocket" [] OTHER -> "TCPSocket"]
Descriptors == {3, 4, 5}
Ports == {7}
One == {1}
ClientAndServer == {[class |-> "TCPSocket", port |-> 7], [class |-> "TCPServerSocket", port |-> 7]}
ThreeKinds == ClientAndServer \cup {[class |-> "UDPSocket", port |-> 0]}
=============================================================================
