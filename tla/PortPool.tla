------------------------------ MODULE PortPool ------------------------------
(***************************************************************************)
(* What the port lists of a conference promise, whatever the wiring behind *)
(* them: a bounded pool of numbered ports, each held by at most one party  *)
(* (a call, a webcam or the sound card).  A party that joins gets the      *)
(* lowest free number, which is also its region on the mixed picture, and  *)
(* keeps it until it leaves.  A party that cannot give it back takes it    *)
(* with it: nobody gets that number again while the conference lasts.      *)
(* Conference.tla is shown to implement two of these pools, one of audio   *)
(* ports and one of video ports.                                           *)
(***************************************************************************)
EXTENDS Naturals

CONSTANTS Numbers,  (* the port numbers, 0 .. n-1            *)
          Parties,  (* whoever may be plugged into a port    *)
          Nobody,   (* the holder of a free port             *)
          Lost      (* the holder of a port nobody gave back *)

VARIABLE holder

Free == {i \in Numbers : holder[i] = Nobody}

Init == holder = [i \in Numbers |-> Nobody]

(* find_free_*_slot: the first port of the list that is not in use.        *)
Acquire(p) ==
  /\ \A i \in Numbers : holder[i] # p
  /\ \E i \in Free :
       /\ \A j \in Free : i <= j
       /\ holder' = [holder EXCEPT ![i] = p]

(* Parties leave, all local webcams in one call, and give back what they   *)
(* held.                                                                   *)
Release(P) ==
  holder' = [i \in Numbers |-> IF holder[i] \in P THEN Nobody ELSE holder[i]]

(* A party leaves whose stream does not run: its port stays in use.        *)
Lose(p) ==
  holder' = [i \in Numbers |-> IF holder[i] = p THEN Lost ELSE holder[i]]

(* The conference stops.                                                   *)
Close == holder' = [i \in Numbers |-> Nobody]

Next == /\ holder' # holder
        /\ \/ \E p \in Parties : Acquire(p) \/ Lose(p)
           \/ \E P \in SUBSET Parties : Release(P)
           \/ Close

Spec == Init /\ [][Next]_holder
=============================================================================
