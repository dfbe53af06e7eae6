------------------------------- MODULE MCIme -------------------------------
(* Model values for TLC. *)
EXTENDS Ime

CONSTANTS w1, w2

Windows == {w1, w2}
\* Which window refuses does not matter, and nothing happens if both do.
OneAtMost == {{}, {w2}}
=============================================================================
