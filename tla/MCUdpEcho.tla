----------------------------- MODULE MCUdpEcho -----------------------------
(* Instances of UdpEcho for TLC. *)
EXTENDS UdpEcho

CONSTANTS c1, c2, c3

Clients == {c1, c2, c3}
Ports == {1, 2}

\* Strings of different lengths, and one that is too long.
Ab == [id |-> "ab", len |-> 2]
E == [id |-> "e", len |-> 1]
Long == [id |-> "long", len |-> 3]
Texts == {Ab, E, Long}
Runs == { [c \in Clients |-> IF c = c1 THEN Ab ELSE IF c = c2 THEN E ELSE t] : t \in {Ab, Long} }
=============================================================================
