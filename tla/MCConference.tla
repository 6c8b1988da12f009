---------------------------- MODULE MCConference ----------------------------
(* A small conference for TLC: interchangeable calls and webcams.          *)
EXTENDS Conference, TLC

(* Bounds.  One member whose streams are not those it joined with, or one  *)
(* port number left behind by such a member; ports are muted in fixed      *)
(* layout and when no streams were restarted only.                         *)
Restarted == {c \in members : \E m \in Media : index[<<m, c>>] \in Ports(m) /\ stream[<<m, c>>] # "itc"}

NoMutes == \A s \in Slots : ~port[s].muted /\ ~sinkMuted[s]

Bounds ==
  /\ Cardinality(Restarted) + Cardinality({s[2] : s \in lost}) <= 1
  /\ auto_layout \/ Restarted # {} \/ lost # {} => NoMutes

Symmetry == Permutations(Calls) \cup Permutations(Webcams)
=============================================================================
