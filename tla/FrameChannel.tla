---------------------------- MODULE FrameChannel ----------------------------
(***************************************************************************)
(* What a slot queue promises to the two tickers it joins: the frames put  *)
(* into it come out on the other side once each, in the order they went    *)
(* in, whoever wrote them.  ConfItc.tla implements it with a locked list.  *)
(***************************************************************************)
EXTENDS Sequences

CONSTANT Frames

VARIABLES transit,   (* frames on their way                                 *)
          delivered  (* frames that came out                                *)

Init == transit = <<>> /\ delivered = <<>>

Put(f) == transit' = Append(transit, f) /\ UNCHANGED delivered

Deliver ==
  /\ transit # <<>>
  /\ delivered' = Append(delivered, Head(transit))
  /\ transit' = Tail(transit)

Next == Deliver \/ \E f \in Frames : Put(f)

Spec == Init /\ [][Next]_<<transit, delivered>>
=============================================================================
