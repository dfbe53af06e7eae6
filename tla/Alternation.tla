---------------------------- MODULE Alternation ----------------------------
(***************************************************************************)
(* What the ping/pong demo (cxx/tests64/conditionvar.cpp) promises its     *)
(* reader: the output is "0 : ping", "0 : pong", "1 : ping", "1 : pong"    *)
(* and so on, one line at a time, for Rounds rounds.                       *)
(***************************************************************************)
EXTENDS Integers, Sequences

CONSTANT Rounds

VARIABLE out

\* The k-th line of the output, k = 1, 2, ...
Line(k) ==
  [who |-> IF k % 2 = 1 THEN "ping" ELSE "pong", nr |-> (k - 1) \div 2]

Init == out = <<>>

PrintLine ==
  /\ Len(out) < 2 * Rounds
  /\ out' = Append(out, Line(Len(out) + 1))

Spec == Init /\ [][PrintLine]_out
=============================================================================
