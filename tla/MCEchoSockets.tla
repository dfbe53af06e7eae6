--------------------------- MODULE MCEchoSockets ---------------------------
(* Two clients, who may get each other's port, and their server. *)
EXTENDS EchoSockets

CONSTANTS c1, c2

Clients == {c1, c2}
Ports == {1, 2}
Ab == [id |-> "ab", len |-> 2]
E == [id |-> "e", len |-> 1]
Long == [id |-> "long", len |-> 3]
Texts == {Ab, E, Long}
Runs == { [c \in Clients |-> IF c = c1 THEN Ab ELSE t] : t \in Texts }
=============================================================================
