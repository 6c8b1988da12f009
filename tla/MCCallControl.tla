--------------------------- MODULE MCCallControl ---------------------------
(* CallControl.tla for TLC: the calls as model values.                     *)
EXTENDS CallControl

CONSTANTS c1, c2, c3
=============================================================================
