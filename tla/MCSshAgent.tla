----------------------------- MODULE MCSshAgent -----------------------------
(* Model values and the symmetry for TLC. *)
EXTENDS SshAgent, TLC

CONSTANTS s1, s2, s3

Three == {s1, s2, s3}
Symmetric == Permutations(Shell)
=============================================================================
