--------------------------- MODULE MCRegistration ---------------------------
(* Registration.tla for TLC.                                               *)
EXTENDS Registration

CONSTANTS c1, a1

MCAccountOf == [c \in {c1} |-> a1]
=============================================================================
