----------------------------- MODULE MCConfItc ------------------------------
(* Two parties in turn on one port, for TLC.                               *)
EXTENDS ConfItc, TLC

Symmetry == Permutations(Writers)
=============================================================================
