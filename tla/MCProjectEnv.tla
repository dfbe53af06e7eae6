---------------------------- MODULE MCProjectEnv ----------------------------
(* A trunk that knows two models, a branch that knows one of them, on another
   SoC, and the PC version, which is extracted already.  One of the trunk's
   build trees is missing, and an incomplete file of functions may be empty or
   stop after the first. *)
EXTENDS ProjectEnv, TLC

CONSTANTS s1, s2, m1, m2

TwoShells == {s1, s2}
EitherShell == Permutations(TwoShells)
Projects == {"trunk", "RB-10.8.0", "wrns"}
Models == {m1, m2}
Ids == [m \in Models |-> IF m = m1 THEN "M1-F" ELSE "M2-P"]
Letters == [p \in Projects |-> [id \in {Ids[m] : m \in Models} |->
  CASE p = "trunk" /\ id = Ids[m1] -> "a"
    [] p = "trunk" /\ id = Ids[m2] -> "b"
    [] p = "RB-10.8.0" /\ id = Ids[m1] -> "b"
    [] OTHER -> ""]]
Trees == {<<"trunk", "a">>, <<"RB-10.8.0", "b">>}
PcVersion == {"wrns"}
TornFiles == {{}, {m1}}
=============================================================================
