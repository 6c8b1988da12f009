------------------------- MODULE CallControlProofs -------------------------
(***************************************************************************)
(* Proofs about CallControl.tla, for any number of calls.                  *)
(***************************************************************************)
EXTENDS CallControl, SequenceTheorems, FiniteSetTheorems, TLAPS

(* The steps that change neither the stack of BYEs nor its calls keep what *)
(* is known of it.                                                         *)
LEMMA EndingKept ==
  ASSUME CallControlInv, UNCHANGED ending,
         \A d \in Calls : IsEnding(d) => d \in calls' /\ state'[d] = "Pausing"
  PROVE  EndingIsHeld' /\ ending' \in Seq(Calls)
<1>1. \A i \in 1 .. Len(ending) : ending[i] \in Calls /\ IsEnding(ending[i])
  BY DEF CallControlInv, TypeOK, IsEnding
<1>2. QED BY <1>1 DEF CallControlInv, TypeOK, EndingIsHeld

(* A call that ends leaves everything in order, however it ends: all that  *)
(* is asked is that no BYE of it is in progress any more.                  *)
LEMMA TerminatedInv ==
  ASSUME CallControlInv,
         NEW c \in Calls, NEW how \in {"Error", "End"},
         NEW cur \in {NoCall, c, current_call},
         SetTerminated(c, how, cur),
         mbs' \in [Calls -> Nat],
         \A d \in Calls \ {c} : mbs'[d] = mbs[d],
         ending' \in Seq(Calls),
         Len(ending') <= Len(ending),
         \A i \in 1 .. Len(ending') : ending'[i] = ending[i] /\ ending[i] # c
  PROVE  CallControlInv'
<1>1. TypeOK'
  <2>1. how \in CallStates /\ "none" \in Invites
    BY DEF CallStates, Gone, Invites
  <2>2. QED BY <2>1 DEF CallControlInv, TypeOK, SetTerminated, ClearCurrent, Without
<1>2. ListedIsUnderWay'
  BY DEF CallControlInv, TypeOK, ListedIsUnderWay, SetTerminated, Without, Gone
<1>3. DialingHasInvite'
  BY DEF CallControlInv, TypeOK, DialingHasInvite, SetTerminated, Dialing
<1>4. CurrentCallIsLive'
  BY DEF CallControlInv, TypeOK, CurrentCallIsLive, SetTerminated, ClearCurrent, Without
<1>5. InConferencingHasMember'
  BY DEF CallControlInv, TypeOK, InConferencingHasMember, SetTerminated
<1>6. EndingIsHeld'
  <2>1. Len(ending) \in Nat /\ Len(ending') \in Nat
    BY LenProperties DEF CallControlInv, TypeOK
  <2>2. \A i \in 1 .. Len(ending') : i \in 1 .. Len(ending)
    BY <2>1
  <2>3. \A i \in 1 .. Len(ending') : ending'[i] \in calls' /\ state'[ending'[i]] = "Pausing"
    BY <2>2 DEF CallControlInv, TypeOK, EndingIsHeld, SetTerminated, Without
  <2>4. QED BY <2>2, <2>3 DEF CallControlInv, EndingIsHeld
<1>7. QED BY <1>1, <1>2, <1>3, <1>4, <1>5, <1>6 DEF CallControlInv

(* The same where nothing happens to the members and the stack.            *)
LEMMA TerminatedAlone ==
  ASSUME CallControlInv,
         NEW c \in Calls, NEW how \in {"Error", "End"},
         NEW cur \in {NoCall, c, current_call},
         SetTerminated(c, how, cur), UNCHANGED <<mbs, ending>>, ~IsEnding(c)
  PROVE  CallControlInv'
<1>1. Len(ending) \in Nat
  BY LenProperties DEF CallControlInv, TypeOK
<1>2. \A i \in 1 .. Len(ending) : ending[i] # c
  BY DEF IsEnding
<1>3. /\ mbs' \in [Calls -> Nat]
      /\ \A d \in Calls \ {c} : mbs'[d] = mbs[d]
      /\ ending' \in Seq(Calls)
      /\ Len(ending') <= Len(ending)
      /\ \A i \in 1 .. Len(ending') : ending'[i] = ending[i] /\ ending[i] # c
  BY <1>1, <1>2 DEF CallControlInv, TypeOK
<1>4. QED BY <1>3, TerminatedInv

(* A call of the stack is on hold and listed.                              *)
LEMMA EndingCalls ==
  ASSUME CallControlInv, NEW c \in Calls, IsEnding(c)
  PROVE  c \in calls /\ state[c] = "Pausing" /\ c # current_call
BY CallControlAssumption DEF CallControlInv, IsEnding, EndingIsHeld, CurrentCallIsLive

(* The three ways out of linphone_core_start_invite.                       *)
LEMMA SendInviteInv ==
  ASSUME CallControlInv, NEW c \in Calls,
         NEW cur \in {c, current_call},
         state[c] \in Gone \cup {"OutgoingInit"},
         SendInvite(c, cur), UNCHANGED <<mbs, ending>>
  PROVE  CallControlInv'
<1>1. ~IsEnding(c)
  BY EndingCalls DEF Gone
<1>2. CASE SetTerminated(c, "Error", cur)
  BY <1>1, <1>2, TerminatedAlone
<1>3. CASE /\ state' = [state EXCEPT ![c] = "OutgoingProgress"]
           /\ invite' = [invite EXCEPT ![c] = "offer"]
           /\ media_pending' = media_pending \cup {c}
           /\ calls' = calls \cup {c}
           /\ current_call' = cur
           /\ UNCHANGED <<ackDue, pinged>>
  <2>0. "OutgoingProgress" \in CallStates \ Gone /\ "offer" \in Invites
    BY DEF CallStates, Dialing, Invites, Gone
  <2>1. TypeOK'
    BY <1>3, <2>0 DEF CallControlInv, TypeOK
  <2>2. ListedIsUnderWay'
    BY <1>3, <2>0 DEF CallControlInv, TypeOK, ListedIsUnderWay
  <2>3. DialingHasInvite'
    BY <1>3 DEF CallControlInv, TypeOK, DialingHasInvite
  <2>4. CurrentCallIsLive'
    BY <1>3 DEF CallControlInv, TypeOK, CurrentCallIsLive
  <2>5. InConferencingHasMember'
    BY <1>3 DEF CallControlInv, TypeOK, InConferencingHasMember
  <2>6. EndingIsHeld'
    BY <1>1, <1>3, EndingCalls, EndingKept DEF CallControlInv, TypeOK
  <2>7. QED BY <2>1, <2>2, <2>3, <2>4, <2>5, <2>6 DEF CallControlInv
<1>4. QED BY <1>2, <1>3 DEF SendInvite

LEMMA InviteAddressInv ==
  ASSUME CallControlInv, NEW c \in Calls, InviteAddress(c), UNCHANGED <<mbs, ending>>
  PROVE  CallControlInv'
<1>1. state[c] \in Gone
  BY DEF InviteAddress, Free
<1>2. CASE SendInvite(c, c)
  BY <1>1, <1>2, SendInviteInv
<1>3. CASE /\ state' = [state EXCEPT ![c] = "OutgoingInit"]
           /\ calls' = calls \cup {c}
           /\ current_call' = c
           /\ pinged' = pinged \cup {c}
           /\ UNCHANGED <<media_pending, invite, ackDue>>
  <2>0. "OutgoingInit" \in CallStates \ (Gone \cup Dialing)
    BY DEF CallStates, Dialing, Gone
  <2>1. ~IsEnding(c)
    BY <1>1, EndingCalls DEF Gone
  <2>2. TypeOK'
    BY <1>3, <2>0 DEF CallControlInv, TypeOK
  <2>3. ListedIsUnderWay'
    BY <1>3, <2>0 DEF CallControlInv, TypeOK, ListedIsUnderWay
  <2>4. DialingHasInvite'
    BY <1>3, <2>0 DEF CallControlInv, TypeOK, DialingHasInvite
  <2>5. CurrentCallIsLive'
    BY <1>3 DEF CallControlInv, TypeOK, CurrentCallIsLive
  <2>6. InConferencingHasMember'
    BY <1>3 DEF CallControlInv, TypeOK, InConferencingHasMember
  <2>7. EndingIsHeld'
    BY <1>3, <2>1, EndingCalls, EndingKept DEF CallControlInv, TypeOK
  <2>8. QED BY <2>2, <2>3, <2>4, <2>5, <2>6, <2>7 DEF CallControlInv
<1>4. QED BY <1>2, <1>3 DEF InviteAddress

(* A call put on hold is no longer current; it was established, and where  *)
(* its BYE is what takes it out of the conference it joins the stack.      *)
LEMMA HoldInv ==
  ASSUME CallControlInv, NEW c \in Calls, c \in calls, ~IsEnding(c), Hold(c),
         UNCHANGED <<calls, media_pending, ackDue, pinged>>,
         mbs' \in [Calls -> Nat],
         \A d \in Calls \ {c} : mbs'[d] = mbs[d],
         ending' = ending \/ ending' = Append(ending, c)
  PROVE  CallControlInv'
<1>0. "Pausing" \in CallStates \ (Gone \cup Dialing) /\ "hold" \in Invites
  BY DEF CallStates, Established, Dialing, Gone, Invites
<1>1. state' = [state EXCEPT ![c] = "Pausing"]
      /\ current_call' = NoCall
      /\ invite' \in [Calls -> Invites]
      /\ \A d \in Calls \ {c} : invite'[d] = invite[d]
  BY <1>0 DEF CallControlInv, TypeOK, Hold, AfterPause
<1>2. TypeOK'
  <2>1. ending' \in Seq(Calls)
    <3>1. ending \in Seq(Calls)
      BY DEF CallControlInv, TypeOK
    <3>2. Append(ending, c) \in Seq(Calls)
      BY <3>1, AppendProperties
    <3>3. QED BY <3>1, <3>2
  <2>2. QED BY <1>0, <1>1, <2>1 DEF CallControlInv, TypeOK
<1>3. ListedIsUnderWay'
  BY <1>0, <1>1 DEF CallControlInv, TypeOK, ListedIsUnderWay
<1>4. DialingHasInvite'
  BY <1>0, <1>1 DEF CallControlInv, TypeOK, DialingHasInvite
<1>5. CurrentCallIsLive'
  BY <1>1 DEF CurrentCallIsLive
<1>6. InConferencingHasMember'
  BY <1>1 DEF CallControlInv, TypeOK, InConferencingHasMember
<1>7. EndingIsHeld'
  <2>1. CASE ending' = ending
    <3>1. \A d \in Calls : IsEnding(d) => d \in calls' /\ state'[d] = "Pausing"
      BY <1>1, EndingCalls DEF CallControlInv, TypeOK
    <3>2. QED BY <2>1, <3>1, EndingKept
  <2>2. CASE ending' = Append(ending, c)
    <3>1. Len(ending) \in Nat /\ ending \in Seq(Calls)
      BY LenProperties DEF CallControlInv, TypeOK
    <3>2. /\ Len(ending') = Len(ending) + 1
          /\ ending'[Len(ending) + 1] = c
          /\ \A i \in 1 .. Len(ending) : ending'[i] = ending[i]
      BY <2>2, <3>1, AppendProperties
    <3>3. \A i \in 1 .. Len(ending) : /\ ending[i] # c
                                     /\ ending[i] \in calls
                                     /\ ending[i] \in Calls
                                     /\ state[ending[i]] = "Pausing"
      BY <3>1 DEF CallControlInv, TypeOK, EndingIsHeld, IsEnding
    <3>4. \A i \in 1 .. Len(ending') : i = Len(ending) + 1 \/ i \in 1 .. Len(ending)
      BY <3>1, <3>2
    <3>5. \A i \in 1 .. Len(ending') : /\ ending'[i] \in calls'
                                      /\ state'[ending'[i]] = "Pausing"
      BY <1>1, <3>2, <3>3, <3>4 DEF CallControlInv, TypeOK
    <3>6. \A i, j \in 1 .. Len(ending') : ending'[i] = ending'[j] => i = j
      BY <3>2, <3>3, <3>4 DEF CallControlInv, EndingIsHeld
    <3>7. QED BY <3>5, <3>6 DEF EndingIsHeld
  <2>3. QED BY <2>1, <2>2
<1>8. QED BY <1>2, <1>3, <1>4, <1>5, <1>6, <1>7 DEF CallControlInv

(* A call that stays under way and changes its state among the established *)
(* ones.                                                                   *)
LEMMA EstablishedInv ==
  ASSUME CallControlInv, NEW c \in calls, ~IsEnding(c),
         NEW s \in Established, state' = [state EXCEPT ![c] = s],
         s \in {"Pausing", "InConferencing"} => current_call' # c,
         s = "InConferencing" => mbs'[c] > 0,
         current_call' \in {NoCall, c, current_call},
         mbs' \in [Calls -> Nat],
         \A d \in Calls \ {c} : mbs'[d] = mbs[d] /\ invite'[d] = invite[d],
         invite' \in [Calls -> Invites],
         media_pending' \subseteq media_pending \cup {c},
         ackDue' \subseteq ackDue,
         UNCHANGED <<calls, pinged, ending>>
  PROVE  CallControlInv'
<1>0. c \in Calls /\ s \in CallStates \ (Gone \cup Dialing)
  BY DEF CallControlInv, TypeOK, CallStates, Established, Dialing, Gone
<1>1. TypeOK'
  BY <1>0 DEF CallControlInv, TypeOK
<1>2. ListedIsUnderWay'
  BY <1>0 DEF CallControlInv, TypeOK, ListedIsUnderWay
<1>3. DialingHasInvite'
  BY <1>0 DEF CallControlInv, TypeOK, DialingHasInvite
<1>4. CurrentCallIsLive'
  BY <1>0 DEF CallControlInv, TypeOK, CurrentCallIsLive
<1>5. InConferencingHasMember'
  BY <1>0 DEF CallControlInv, TypeOK, InConferencingHasMember
<1>6. EndingIsHeld'
  BY <1>0, EndingCalls, EndingKept DEF CallControlInv, TypeOK
<1>7. QED BY <1>1, <1>2, <1>3, <1>4, <1>5, <1>6 DEF CallControlInv

-----------------------------------------------------------------------------
(* The stack is empty while the application asks for something.            *)
LEMMA IdleHasNoEnding ==
  ASSUME Idle, NEW c
  PROVE  ~IsEnding(c)
BY DEF Idle, IsEnding

LEMMA TerminateInv ==
  ASSUME CallControlInv, NEW c \in calls, ~IsEnding(c), Terminate(c)
  PROVE  CallControlInv'
<1>1. c \in Calls /\ mbs \in [Calls -> Nat] /\ ending \in Seq(Calls)
  BY DEF CallControlInv, TypeOK
<1>2. PICK cur \in {NoCall, c, current_call} : SetTerminated(c, "End", cur)
  BY DEF Terminate, AfterPause
<1>3. mbs' \in [Calls -> Nat] /\ \A d \in Calls \ {c} : mbs'[d] = mbs[d]
  BY <1>1 DEF Terminate, InTheConference
<1>4. Len(ending) \in Nat /\ ending' = ending
  BY <1>1, LenProperties DEF Terminate
<1>5. \A i \in 1 .. Len(ending') : ending'[i] = ending[i] /\ ending[i] # c
  BY <1>4 DEF IsEnding
<1>6. QED BY <1>1, <1>2, <1>3, <1>4, <1>5, TerminatedInv

(* Accepting a call, after the one it replaces has been terminated.        *)
LEMMA AcceptInv ==
  ASSUME CallControlInv, NEW c \in Calls, NEW R \in SUBSET Calls, AcceptCall(c, R)
  PROVE  CallControlInv'
<1>1. /\ c \in calls /\ R \subseteq calls \ {c} /\ ending' = ending
      /\ \A d \in Calls : ~IsEnding(d)
  BY IdleHasNoEnding DEF AcceptCall
<1>2. PICK s \in {"StreamsRunning", "Connected"} :
        state' = [d \in Calls |-> IF d \in R THEN "End" ELSE IF d # c THEN state[d] ELSE s]
  BY DEF AcceptCall
<1>3. s \in CallStates \ (Gone \cup Dialing) /\ "End" \in Gone \cap CallStates
      /\ "none" \in Invites
  BY DEF CallStates, Established, Dialing, Gone, Invites
<1>4. /\ calls' = calls \ R
      /\ current_call' = c
      /\ media_pending' \subseteq (media_pending \ R) \cup {c}
      /\ invite' = [d \in Calls |-> IF d \in R \cup {c} THEN "none" ELSE invite[d]]
      /\ ackDue' = (ackDue \ R) \cup {c}
      /\ pinged' = pinged \ R
  BY DEF AcceptCall, SetIf
<1>5. /\ mbs' \in [Calls -> Nat]
      /\ \A d \in Calls \ R : mbs'[d] = mbs[d]
  BY DEF AcceptCall, InTheConference, CallControlInv, TypeOK
<1>6. TypeOK'
  BY <1>1, <1>2, <1>3, <1>4, <1>5 DEF CallControlInv, TypeOK
<1>7. ListedIsUnderWay'
  BY <1>1, <1>2, <1>3, <1>4 DEF CallControlInv, TypeOK, ListedIsUnderWay
<1>8. DialingHasInvite'
  <2>1. "End" \notin Dialing
    BY DEF Dialing
  <2>2. ASSUME NEW d \in Calls, state'[d] \in Dialing
        PROVE  invite'[d] = "offer"
    <3>1. d # c /\ d \notin R /\ state'[d] = state[d]
      BY <1>2, <1>3, <2>1, <2>2
    <3>2. QED BY <1>4, <2>2, <3>1 DEF CallControlInv, DialingHasInvite
  <2>3. QED BY <2>2 DEF DialingHasInvite
<1>9. CurrentCallIsLive'
  BY <1>1, <1>2, <1>4 DEF CurrentCallIsLive
<1>10. InConferencingHasMember'
  BY <1>2, <1>5 DEF CallControlInv, InConferencingHasMember
<1>11. EndingIsHeld'
  BY <1>1, EndingKept
<1>12. QED BY <1>6, <1>7, <1>8, <1>9, <1>10, <1>11 DEF CallControlInv

(* Everything the application can ask for.                                 *)
LEMMA RequestInv ==
  ASSUME CallControlInv, NEW c \in Calls, Request(c)
  PROVE  CallControlInv'
<1>1. mbs \in [Calls -> Nat] /\ calls \subseteq Calls /\ invite \in [Calls -> Invites]
  BY DEF CallControlInv, TypeOK
<1>2. CASE Invite(c)
  BY <1>2, InviteAddressInv DEF Invite
<1>3. CASE TerminateCall(c)
  BY <1>3, TerminateInv, IdleHasNoEnding DEF TerminateCall
<1>4. CASE PauseCall(c)
  BY <1>1, <1>4, HoldInv, IdleHasNoEnding DEF PauseCall
<1>5. CASE ResumeCall(c)
  <2>1. "Resuming" \in Established /\ "offer" \in Invites
    BY DEF Established, Invites
  <2>2. c \in calls /\ ~IsEnding(c)
    BY <1>5, IdleHasNoEnding DEF ResumeCall
  <2>3. QED BY <1>1, <1>5, <2>1, <2>2, EstablishedInv DEF ResumeCall
<1>6. CASE UpdateCall(c)
  <2>1. state[c] \in Established /\ "offer" \in Invites
    BY <1>6 DEF UpdateCall, Established, Invites
  <2>2. c \in calls /\ ~IsEnding(c) /\ state' = [state EXCEPT ![c] = state[c]]
    BY <1>6, IdleHasNoEnding DEF UpdateCall, CallControlInv, TypeOK
  <2>3. /\ state[c] \in {"Pausing", "InConferencing"} => current_call' # c
        /\ state[c] = "InConferencing" => mbs'[c] > 0
    BY <1>6, CallControlAssumption DEF UpdateCall, CallControlInv, CurrentCallIsLive, InConferencingHasMember
  <2>4. QED BY <1>1, <1>6, <2>1, <2>2, <2>3, EstablishedInv DEF UpdateCall
<1>7. CASE Join(c)
  <2>1. "InConferencing" \in Established
    BY DEF Established
  <2>2. c \in calls /\ ~IsEnding(c)
    BY <1>7, IdleHasNoEnding DEF Join
  <2>3. mbs' \in [Calls -> Nat] /\ mbs'[c] > 0 /\ \A d \in Calls \ {c} : mbs'[d] = mbs[d]
    BY <1>1, <1>7 DEF Join
  <2>4. current_call' # c
    BY <1>7, CallControlAssumption DEF Join
  <2>5. QED BY <1>1, <1>7, <2>1, <2>2, <2>3, <2>4, EstablishedInv DEF Join, sip
<1>8. CASE Leave(c)
  <2>1. mbs' \in [Calls -> Nat] /\ \A d \in Calls \ {c} : mbs'[d] = mbs[d]
    BY <1>1, <1>8 DEF Leave, RemoveMb
  <2>2. QED BY <1>8, <2>1, HoldInv, IdleHasNoEnding DEF Leave, RemoveMb
<1>9. CASE AcceptCall(c, {})
  BY <1>9, AcceptInv
<1>10. CASE \E r \in Calls : AcceptCall(c, {r})
  BY <1>10, AcceptInv
<1>11. QED BY <1>2, <1>3, <1>4, <1>5, <1>6, <1>7, <1>8, <1>9, <1>10 DEF Request

(* A REFER: the call is held and the new one is placed.                    *)
LEMMA ReferInv ==
  ASSUME CallControlInv, NEW c \in Calls, NEW n \in Calls, ReferReceived(c, n)
  PROVE  CallControlInv'
<1>1. c \in calls /\ ~IsEnding(c) /\ n # c /\ UNCHANGED <<mbs, ending>>
  BY DEF ReferReceived, Reported
<1>2. ASSUME ~CanAddCall, Hold(c), UNCHANGED <<calls, media_pending, ackDue, pinged>>
      PROVE  CallControlInv'
  <2>1. mbs' \in [Calls -> Nat] /\ \A d \in Calls \ {c} : mbs'[d] = mbs[d]
    BY <1>1 DEF CallControlInv, TypeOK
  <2>2. QED BY <1>1, <1>2, <2>1, HoldInv
<1>3. ASSUME InviteAddress(n)
      PROVE  CallControlInv'
  BY <1>1, <1>3, InviteAddressInv
<1>4. ASSUME NEW s \in {"OutgoingInit", "OutgoingProgress", "Error"},
             NEW h \in IF invite[c] = "none" THEN {"none", "hold"} ELSE {invite[c]},
             Free(n),
             state' = [state EXCEPT ![c] = "Pausing", ![n] = s],
             calls' = IF s = "Error" THEN calls ELSE calls \cup {n},
             current_call' = IF s = "Error" THEN NoCall ELSE n,
             media_pending' = SetIf(media_pending, n, s = "OutgoingProgress"),
             invite' = [invite EXCEPT ![c] = h,
                          ![n] = IF s = "OutgoingProgress" THEN "offer" ELSE "none"],
             pinged' = SetIf(pinged, n, s = "OutgoingInit"),
             UNCHANGED ackDue
      PROVE  CallControlInv'
  <2>1. /\ {"Pausing", "OutgoingInit", "OutgoingProgress", "Error"} \subseteq CallStates
        /\ {"none", "offer", "hold"} \subseteq Invites
        /\ "Pausing" \notin Gone \cup Dialing
        /\ "OutgoingInit" \notin Gone \cup Dialing
        /\ "OutgoingProgress" \notin Gone
        /\ "Error" \in Gone \ Dialing
    BY DEF CallStates, Established, Dialing, Gone, Invites
  <2>2. h \in Invites /\ state[n] \in Gone /\ ~IsEnding(n)
    BY <1>4, <2>1, EndingCalls DEF CallControlInv, TypeOK, Free
  <2>3. TypeOK'
    BY <1>1, <1>4, <2>1, <2>2 DEF CallControlInv, TypeOK, SetIf
  <2>4. /\ state' \in [Calls -> CallStates] /\ state'[c] = "Pausing" /\ state'[n] = s
        /\ \A d \in Calls \ {c, n} : state'[d] = state[d] /\ invite'[d] = invite[d]
        /\ invite'[n] = IF s = "OutgoingProgress" THEN "offer" ELSE "none"
    BY <1>1, <1>4, <2>3 DEF CallControlInv, TypeOK
  <2>5. n \notin calls
    BY <2>2 DEF CallControlInv, ListedIsUnderWay
  <2>6. ListedIsUnderWay'
    <3>1. \A d \in Calls : d \in calls' <=> state'[d] \notin Gone
      BY <1>1, <1>4, <2>1, <2>4, <2>5 DEF CallControlInv, ListedIsUnderWay
    <3>2. \A d \in Calls : invite'[d] # "none" => d \in calls'
      BY <1>1, <1>4, <2>4 DEF CallControlInv, ListedIsUnderWay
    <3>3. media_pending' \cup ackDue' \cup pinged' \subseteq calls'
      BY <1>4, <2>5 DEF CallControlInv, ListedIsUnderWay, SetIf
    <3>4. QED BY <3>1, <3>2, <3>3 DEF ListedIsUnderWay
  <2>7. DialingHasInvite'
    BY <2>1, <2>4 DEF CallControlInv, DialingHasInvite, Dialing
  <2>8. CurrentCallIsLive'
    BY <1>4, <2>4 DEF CurrentCallIsLive
  <2>9. InConferencingHasMember'
    BY <1>1, <2>4 DEF CallControlInv, InConferencingHasMember
  <2>10. EndingIsHeld'
    BY <1>1, <1>4, <2>2, <2>4, EndingCalls, EndingKept
  <2>11. QED BY <2>3, <2>6, <2>7, <2>8, <2>9, <2>10 DEF CallControlInv
<1>5. QED BY <1>2, <1>3, <1>4 DEF ReferReceived

(* An incoming call.                                                       *)
LEMMA ReceivedInv ==
  ASSUME CallControlInv, NEW c \in Calls, NEW md \in Media, CallReceived(c, md)
  PROVE  CallControlInv'
<1>1. state[c] \in Gone /\ ~IsEnding(c)
  BY EndingCalls DEF CallReceived, Free, Gone
<1>2. PICK s \in Incoming : state' = [state EXCEPT ![c] = s]
  BY DEF CallReceived, Incoming
<1>3. PICK i \in Invites : invite' = [invite EXCEPT ![c] = i]
  BY DEF CallReceived, Invites
<1>4. s \in CallStates \ (Gone \cup Dialing \cup {"InConferencing", "Pausing"})
  BY DEF CallStates, Incoming, Dialing, Gone
<1>5. /\ calls' = calls \cup {c}
      /\ current_call' \in {c, current_call}
      /\ media_pending' \subseteq media_pending \cup {c}
      /\ UNCHANGED <<ackDue, pinged, mbs, ending>>
  BY DEF CallReceived, SetIf
<1>6. TypeOK'
  BY <1>2, <1>3, <1>4, <1>5 DEF CallControlInv, TypeOK
<1>7. ListedIsUnderWay'
  BY <1>2, <1>3, <1>4, <1>5 DEF CallControlInv, TypeOK, ListedIsUnderWay
<1>8. DialingHasInvite'
  BY <1>2, <1>3, <1>4 DEF CallControlInv, TypeOK, DialingHasInvite
<1>9. CurrentCallIsLive'
  BY <1>2, <1>4, <1>5 DEF CallControlInv, TypeOK, CurrentCallIsLive
<1>10. InConferencingHasMember'
  BY <1>2, <1>4, <1>5 DEF CallControlInv, TypeOK, InConferencingHasMember
<1>11. EndingIsHeld'
  BY <1>1, <1>2, <1>5, EndingCalls, EndingKept DEF CallControlInv, TypeOK
<1>12. QED BY <1>6, <1>7, <1>8, <1>9, <1>10, <1>11 DEF CallControlInv

(* A reply to the ping may come too late, or start the call.               *)
LEMMA PingReplyInv ==
  ASSUME CallControlInv, NEW c \in Calls, PingReply(c)
  PROVE  CallControlInv'
<1>1. CASE state[c] # "OutgoingInit"
  <2>1. /\ UNCHANGED <<state, calls, current_call, media_pending, invite, ackDue, mbs, ending>>
        /\ pinged' = pinged \ {c}
    BY <1>1 DEF PingReply, StartsOnReply, Without
  <2>2. QED BY <2>1 DEF CallControlInv, TypeOK, ListedIsUnderWay, DialingHasInvite,
                        CurrentCallIsLive, InConferencingHasMember, EndingIsHeld
<1>2. CASE state[c] = "OutgoingInit"
  <2>1. ~IsEnding(c) /\ c \in calls
    BY <1>2, EndingCalls DEF PingReply, CallControlInv, ListedIsUnderWay
  <2>2. CASE SetTerminated(c, "Error", current_call)
    BY <2>1, <2>2, TerminatedAlone DEF PingReply
  <2>3. CASE ~SetTerminated(c, "Error", current_call)
    <3>1. /\ state' = [state EXCEPT ![c] = "OutgoingProgress"]
          /\ invite' = [invite EXCEPT ![c] = "offer"]
          /\ media_pending' = media_pending \cup {c}
          /\ pinged' = pinged \ {c}
          /\ UNCHANGED <<calls, current_call, ackDue, mbs, ending>>
      BY <1>2, <2>3 DEF PingReply, StartsOnReply, Without
    <3>2. "OutgoingProgress" \in CallStates \ Gone /\ "offer" \in Invites
      BY DEF CallStates, Dialing, Invites, Gone
    <3>3. TypeOK'
      BY <3>1, <3>2 DEF CallControlInv, TypeOK
    <3>4. ListedIsUnderWay'
      BY <2>1, <3>1, <3>2 DEF CallControlInv, TypeOK, ListedIsUnderWay
    <3>5. DialingHasInvite'
      BY <3>1 DEF CallControlInv, TypeOK, DialingHasInvite
    <3>6. CurrentCallIsLive'
      BY <3>1 DEF CallControlInv, TypeOK, CurrentCallIsLive
    <3>7. InConferencingHasMember'
      BY <3>1 DEF CallControlInv, TypeOK, InConferencingHasMember
    <3>8. EndingIsHeld'
      BY <2>1, <3>1, EndingCalls, EndingKept DEF CallControlInv, TypeOK
    <3>9. QED BY <3>3, <3>4, <3>5, <3>6, <3>7, <3>8 DEF CallControlInv
  <2>4. QED BY <2>2, <2>3
<1>3. QED BY <1>1, <1>2

(* The peer's phone rings.                                                 *)
LEMMA RingingInv ==
  ASSUME CallControlInv, NEW c \in Calls, NEW md \in Media, CallRinging(c, md)
  PROVE  CallControlInv'
<1>1. /\ c \in calls /\ ~IsEnding(c) /\ invite[c] = "offer"
      /\ media_pending' \subseteq media_pending
      /\ UNCHANGED <<calls, current_call, invite, ackDue, pinged, mbs, ending>>
  BY DEF CallRinging, Reported, Without, sip
<1>2. PICK s \in {"OutgoingRinging", "OutgoingEarlyMedia"} : state' = [state EXCEPT ![c] = s]
  BY DEF CallRinging
<1>3. s \in CallStates \ (Gone \cup {"InConferencing", "Pausing"})
  BY DEF CallStates, Dialing, Gone
<1>4. TypeOK'
  BY <1>1, <1>2, <1>3 DEF CallControlInv, TypeOK
<1>5. ListedIsUnderWay'
  BY <1>1, <1>2, <1>3 DEF CallControlInv, TypeOK, ListedIsUnderWay
<1>6. DialingHasInvite'
  BY <1>1, <1>2 DEF CallControlInv, TypeOK, DialingHasInvite
<1>7. CurrentCallIsLive'
  BY <1>1, <1>2, <1>3 DEF CallControlInv, TypeOK, CurrentCallIsLive
<1>8. InConferencingHasMember'
  BY <1>1, <1>2, <1>3 DEF CallControlInv, TypeOK, InConferencingHasMember
<1>9. EndingIsHeld'
  BY <1>1, <1>2, EndingCalls, EndingKept DEF CallControlInv, TypeOK
<1>10. QED BY <1>4, <1>5, <1>6, <1>7, <1>8, <1>9 DEF CallControlInv

(* The peer accepts an INVITE of ours.                                     *)
LEMMA AcceptedInv ==
  ASSUME CallControlInv, NEW c \in Calls, NEW md \in Media, CallAccepted(c, md)
  PROVE  CallControlInv'
<1>1. c \in calls /\ ~IsEnding(c) /\ UNCHANGED <<mbs, ending>>
  BY DEF CallAccepted, Reported
<1>2. CASE SetTerminated(c, "Error", current_call)
  BY <1>1, <1>2, TerminatedAlone
<1>3. CASE ~SetTerminated(c, "Error", current_call)
  <2>1. PICK s \in {"Paused", "StreamsRunning"} : state' = [state EXCEPT ![c] = s]
    BY <1>3 DEF CallAccepted
  <2>2. /\ invite' = [invite EXCEPT ![c] = "none"]
        /\ media_pending' \subseteq media_pending
        /\ UNCHANGED <<calls, current_call, ackDue, pinged>>
    BY <1>3 DEF CallAccepted, Without
  <2>3. s \in Established \ {"Pausing", "InConferencing"} /\ "none" \in Invites
    BY DEF Established, Invites
  <2>4. mbs' \in [Calls -> Nat] /\ invite' \in [Calls -> Invites]
    BY <1>1, <2>2, <2>3 DEF CallControlInv, TypeOK
  <2>5. \A d \in Calls \ {c} : mbs'[d] = mbs[d] /\ invite'[d] = invite[d]
    BY <1>1, <2>2 DEF CallControlInv, TypeOK
  <2>6. QED BY <1>1, <2>1, <2>2, <2>3, <2>4, <2>5, EstablishedInv
<1>4. QED BY <1>2, <1>3

(* The ACK of an INVITE of the peer, with the answer where ours was the    *)
(* offer.                                                                  *)
LEMMA AckInv ==
  ASSUME CallControlInv, NEW c \in Calls, NEW md \in Media, CallAck(c, md)
  PROVE  CallControlInv'
<1>1. c \in calls /\ ~IsEnding(c) /\ UNCHANGED <<mbs, ending>>
  BY DEF CallAck, Reported
<1>2. CASE SetTerminated(c, "Error", current_call)
  BY <1>1, <1>2, TerminatedAlone
<1>3. CASE /\ ackDue' = Without(ackDue, c)
           /\ UNCHANGED <<state, calls, current_call, media_pending, invite, pinged>>
  BY <1>1, <1>3
  DEF CallControlInv, TypeOK, ListedIsUnderWay, DialingHasInvite, Without,
      CurrentCallIsLive, InConferencingHasMember, EndingIsHeld
<1>4. CASE /\ state' = [state EXCEPT ![c] = "StreamsRunning"]
           /\ media_pending' = Without(media_pending, c)
           /\ ackDue' = Without(ackDue, c)
           /\ UNCHANGED <<calls, current_call, invite, pinged>>
  <2>1. /\ "StreamsRunning" \in Established
        /\ media_pending' \subseteq media_pending /\ ackDue' \subseteq ackDue
    BY <1>4 DEF Established, Without
  <2>2. mbs' \in [Calls -> Nat] /\ invite' \in [Calls -> Invites]
    BY <1>1, <1>4 DEF CallControlInv, TypeOK
  <2>3. \A d \in Calls \ {c} : mbs'[d] = mbs[d] /\ invite'[d] = invite[d]
    BY <1>1, <1>4
  <2>4. QED BY <1>1, <1>4, <2>1, <2>2, <2>3, EstablishedInv
<1>5. QED BY <1>2, <1>3, <1>4 DEF CallAck

(* A re-INVITE of the peer: one that the state does not ask anything of    *)
(* leaves it alone, so that a call on hold stays on hold.                  *)
LEMMA UpdatingInv ==
  ASSUME CallControlInv, NEW c \in Calls, NEW md \in Media, CallUpdating(c, md)
  PROVE  CallControlInv'
<1>1. /\ c \in calls /\ ~IsEnding(c) /\ state[c] \in Established
      /\ ackDue' \subseteq ackDue /\ UNCHANGED <<calls, current_call, pinged, mbs, ending>>
  BY DEF CallUpdating, Reported, Without
<1>2. media_pending' \subseteq media_pending
  BY DEF CallUpdating, Without
<1>3. state' = [state EXCEPT ![c] = state[c]]
      \/ state' = [state EXCEPT ![c] = "StreamsRunning"]
      \/ state' = [state EXCEPT ![c] = "PausedByRemote"]
  BY DEF CallUpdating, CallControlInv, TypeOK
<1>4. PICK s \in {state[c], "StreamsRunning", "PausedByRemote"} :
        state' = [state EXCEPT ![c] = s]
  BY <1>3
<1>5. s \in Established
  BY <1>1 DEF Established
<1>6. /\ s \in {"Pausing", "InConferencing"} => current_call' # c
      /\ s = "InConferencing" => mbs'[c] > 0
  <2>1. s \in {"Pausing", "InConferencing"} => s = state[c]
    OBVIOUS
  <2>2. state[c] \in {"Pausing", "InConferencing"} => current_call # c
    BY CallControlAssumption DEF CallControlInv, CurrentCallIsLive
  <2>3. QED BY <1>1, <2>1, <2>2 DEF CallControlInv, InConferencingHasMember
<1>7. mbs' \in [Calls -> Nat] /\ invite' \in [Calls -> Invites]
  BY <1>1 DEF CallUpdating, CallControlInv, TypeOK, Invites
<1>8. \A d \in Calls \ {c} : mbs'[d] = mbs[d] /\ invite'[d] = invite[d]
  BY <1>1 DEF CallUpdating, CallControlInv, TypeOK
<1>9. QED BY <1>1, <1>2, <1>4, <1>5, <1>6, <1>7, <1>8, EstablishedInv

(* A BYE: a call of the conference goes on the stack, another one ends.    *)
LEMMA ByeInv ==
  ASSUME CallControlInv, NEW c \in Calls, CallTerminated(c)
  PROVE  CallControlInv'
<1>1. c \in calls /\ ~IsEnding(c)
  BY DEF CallTerminated, Reported
<1>2. CASE ~InTheConference(c)
  BY <1>1, <1>2, TerminatedAlone DEF CallTerminated
<1>3. CASE InTheConference(c)
  <2>1. /\ Hold(c) /\ mbs' = [mbs EXCEPT ![c] = @ - 1] /\ ending' = Append(ending, c)
        /\ UNCHANGED <<calls, media_pending, ackDue, pinged>>
    BY <1>3 DEF CallTerminated, RemoveMb
  <2>2. mbs' \in [Calls -> Nat] /\ \A d \in Calls \ {c} : mbs'[d] = mbs[d]
    BY <1>3, <2>1 DEF InTheConference, CallControlInv, TypeOK
  <2>3. QED BY <1>1, <2>1, <2>2, HoldInv
<1>4. QED BY <1>2, <1>3

(* Everything the SIP stack can report.                                    *)
LEMMA ReportInv ==
  ASSUME CallControlInv, NEW c \in Calls, Report(c)
  PROVE  CallControlInv'
<1>1. CASE PingReply(c)
  BY <1>1, PingReplyInv
<1>2. CASE CallTerminated(c)
  BY <1>2, ByeInv
<1>3. ASSUME NEW md \in Media,
             \/ CallReceived(c, md) \/ CallRinging(c, md) \/ CallAccepted(c, md)
             \/ CallAck(c, md) \/ CallUpdating(c, md)
      PROVE  CallControlInv'
  BY <1>3, ReceivedInv, RingingInv, AcceptedInv, AckInv, UpdatingInv
<1>4. ASSUME NEW how \in {"Error", "End"}, CallFailure(c, how)
      PROVE  CallControlInv'
  BY <1>4, TerminatedAlone DEF CallFailure, Reported
<1>5. ASSUME NEW n \in Calls, ReferReceived(c, n)
      PROVE  CallControlInv'
  BY <1>5, ReferInv
<1>6. QED BY <1>1, <1>2, <1>3, <1>4, <1>5 DEF Report

(* The call on top of the stack ends: it is on the stack only once.        *)
LEMMA EndedInv ==
  ASSUME CallControlInv, Ended
  PROVE  CallControlInv'
<1>1. ending \in Seq(Calls) /\ ending # <<>>
  BY DEF CallControlInv, TypeOK, Ended
<1>2. Len(ending) \in Nat /\ Len(ending) > 0
  BY <1>1, LenProperties, EmptySeq
<1>3. DEFINE c == ending[Len(ending)]
<1>4. c \in Calls /\ SetTerminated(c, "End", current_call)
  BY <1>1, <1>2 DEF Ended
<1>5. /\ ending' \in Seq(Calls)
      /\ Len(ending') = Len(ending) - 1
      /\ \A i \in 1 .. Len(ending) - 1 : ending'[i] = ending[i]
  <2>1. ending' = SubSeq(ending, 1, Len(ending) - 1)
    BY DEF Ended
  <2>2. \A i \in 1 .. Len(ending) - 1 : ending[i] \in Calls
    BY <1>1, <1>2
  <2>3. ASSUME NEW n \in Nat, n = Len(ending) - 1
        PROVE  /\ SubSeq(ending, 1, n) \in Seq(Calls)
               /\ Len(SubSeq(ending, 1, n)) = n
               /\ \A i \in 1 .. n : SubSeq(ending, 1, n)[i] = ending[i]
    BY <2>2, <2>3, SubSeqProperties
  <2>4. Len(ending) - 1 \in Nat
    BY <1>2
  <2>5. QED BY <2>1, <2>3, <2>4
<1>6. \A i \in 1 .. Len(ending) - 1 : ending[i] # c
  BY <1>2 DEF CallControlInv, EndingIsHeld
<1>7. mbs' \in [Calls -> Nat] /\ \A d \in Calls \ {c} : mbs'[d] = mbs[d]
  BY DEF Ended, CallControlInv, TypeOK
<1>8. /\ Len(ending') <= Len(ending)
      /\ \A i \in 1 .. Len(ending') : ending'[i] = ending[i] /\ ending[i] # c
  BY <1>2, <1>5, <1>6
<1>9. QED
  <2>1. "End" \in {"Error", "End"} /\ current_call \in {NoCall, c, current_call}
    OBVIOUS
  <2>2. ending' \in Seq(Calls)
    BY <1>5
  <2>3. HIDE DEF c
  <2>4. QED BY <1>4, <1>7, <1>8, <2>1, <2>2, TerminatedInv

(* Every step keeps the invariant.                                         *)
LEMMA NextInv ==
  ASSUME CallControlInv, [Next]_vars
  PROVE  CallControlInv'
<1>1. ASSUME NEW c \in Calls, Request(c) \/ Report(c)
      PROVE  CallControlInv'
  BY <1>1, RequestInv, ReportInv
<1>2. ASSUME NEW c \in Calls, StartDeferred(c)
      PROVE  CallControlInv'
  BY <1>2, SendInviteInv DEF StartDeferred, IsDue
<1>3. CASE Disconnected
  <2>1. current_call \in calls /\ ~IsEnding(current_call)
    BY <1>3, EndingCalls DEF Disconnected, CallControlInv, CurrentCallIsLive, TypeOK
  <2>2. QED BY <1>3, <2>1, TerminateInv DEF Disconnected
<1>4. CASE Ended
  BY <1>4, EndedInv
<1>5. CASE UNCHANGED vars
  BY <1>5 DEF vars, sip, CallControlInv, TypeOK, ListedIsUnderWay, DialingHasInvite,
              CurrentCallIsLive, InConferencingHasMember, EndingIsHeld
<1>6. QED BY <1>1, <1>2, <1>3, <1>4, <1>5 DEF Next

LEMMA InitInv == Init => CallControlInv
<1> SUFFICES ASSUME Init PROVE CallControlInv
  OBVIOUS
<1>1. "Idle" \in CallStates \cap Gone /\ "Idle" \notin Dialing /\ "none" \in Invites
  BY DEF CallStates, Gone, Dialing, Invites
<1>2. TypeOK
  BY <1>1 DEF Init, TypeOK
<1>3. QED
  BY <1>1, <1>2 DEF Init, CallControlInv, ListedIsUnderWay, DialingHasInvite,
                    CurrentCallIsLive, InConferencingHasMember, EndingIsHeld

-----------------------------------------------------------------------------
(* The inductive invariant holds in every reachable state, for any number  *)
(* of calls, with or without early media and a ring card.                  *)
THEOREM CallControlInvariant == Spec => []CallControlInv
<1>1. Init => CallControlInv
  BY InitInv
<1>2. CallControlInv /\ [Next]_vars => CallControlInv'
  BY NextInv
<1>3. QED BY <1>1, <1>2, PTL DEF Spec

(* Nothing of a call outlives its entry in the list of calls.              *)
THEOREM ListedCallsAreUnderWay == Spec => []ListedIsUnderWay
<1>1. CallControlInv => ListedIsUnderWay
  BY DEF CallControlInv
<1>2. QED BY <1>1, CallControlInvariant, PTL

(* The current call is never a call that is freed, being held or in the    *)
(* conference.                                                             *)
THEOREM CurrentCallStaysLive == Spec => []CurrentCallIsLive
<1>1. CallControlInv => CurrentCallIsLive
  BY DEF CallControlInv
<1>2. QED BY <1>1, CallControlInvariant, PTL

(* Hanging up a call of the conference finds the member it has to remove.  *)
THEOREM ConferencedCallsHaveMembers == Spec => []InConferencingHasMember
<1>1. CallControlInv => InConferencingHasMember
  BY DEF CallControlInv
<1>2. QED BY <1>1, CallControlInvariant, PTL

(* The calls whose BYE is being handled are listed and on hold.            *)
THEOREM EndingCallsStayHeld == Spec => []EndingIsHeld
<1>1. CallControlInv => EndingIsHeld
  BY DEF CallControlInv
<1>2. QED BY <1>1, CallControlInvariant, PTL

-----------------------------------------------------------------------------
(* What terminating, holding or placing a call does to the others.         *)
LEMMA OthersKept ==
  ASSUME TypeOK, NEW c \in Calls, NEW d \in Calls \ {c}
  PROVE  /\ \A how, cur : SetTerminated(c, how, cur) => state'[d] = state[d]
         /\ \A cur : SendInvite(c, cur) => state'[d] = state[d]
         /\ Hold(c) => state'[d] = state[d]
         /\ InviteAddress(c) => state'[d] = state[d]
         /\ Terminate(c) => state'[d] = state[d]
BY DEF TypeOK, SetTerminated, SendInvite, Hold, InviteAddress, Terminate

(* No report of the stack and no deferred call concerns a call whose BYE   *)
(* is being handled.                                                       *)
LEMMA ReportSparesEnding ==
  ASSUME CallControlInv, NEW c \in Calls, Report(c) \/ StartDeferred(c),
         NEW d \in Calls, IsEnding(d)
  PROVE  state'[d] = state[d]
<1>1. TypeOK /\ state[d] = "Pausing"
  BY EndingCalls DEF CallControlInv
<1>2. CASE PingReply(c)
  BY <1>1, <1>2, OthersKept DEF PingReply, StartsOnReply, TypeOK
<1>3. CASE CallTerminated(c)
  BY <1>1, <1>3, OthersKept DEF CallTerminated, Reported, RemoveMb
<1>4. ASSUME NEW md \in Media, CallReceived(c, md)
      PROVE  state'[d] = state[d]
  BY <1>1, <1>4 DEF CallReceived, Free, Gone, TypeOK
<1>5. ASSUME NEW md \in Media, CallRinging(c, md) \/ CallUpdating(c, md)
      PROVE  state'[d] = state[d]
  BY <1>1, <1>5 DEF CallRinging, CallUpdating, Reported, TypeOK
<1>6. ASSUME NEW md \in Media, CallAccepted(c, md) \/ CallAck(c, md)
      PROVE  state'[d] = state[d]
  BY <1>1, <1>6, OthersKept DEF CallAccepted, CallAck, Reported, TypeOK
<1>7. ASSUME NEW how \in {"Error", "End"}, CallFailure(c, how)
      PROVE  state'[d] = state[d]
  BY <1>1, <1>7, OthersKept DEF CallFailure, Reported
<1>8. ASSUME NEW n \in Calls, ReferReceived(c, n)
      PROVE  state'[d] = state[d]
  <2>1. d # c
    BY <1>8 DEF ReferReceived, Reported
  <2>2. Free(n) => d # n
    BY <1>1 DEF Free, Gone
  <2>3. InviteAddress(n) => Free(n)
    BY DEF InviteAddress
  <2>4. QED BY <1>1, <1>8, <2>1, <2>2, <2>3, OthersKept DEF ReferReceived, TypeOK
<1>9. CASE StartDeferred(c)
  BY <1>1, <1>9, OthersKept DEF StartDeferred, IsDue
<1>10. QED BY <1>2, <1>3, <1>4, <1>5, <1>6, <1>7, <1>8, <1>9 DEF Report

(* The handler of a BYE finds its call as it left it, however many other   *)
(* handlers ran, and however many other BYEs were handled, in between.     *)
THEOREM ByeHandlerIsUndisturbed == Spec => ByeIsUndisturbed
<1>1. ASSUME CallControlInv, [Next]_vars
      PROVE  [\A i \in 1 .. Len(ending) :
                \/ state'[ending[i]] = state[ending[i]]
                \/ i = Len(ending) /\ Len(ending') = i - 1]_vars
  <2>1. TypeOK /\ Len(ending) \in Nat
    BY <1>1, LenProperties DEF CallControlInv, TypeOK
  <2> SUFFICES ASSUME Next, NEW i \in 1 .. Len(ending)
               PROVE  \/ state'[ending[i]] = state[ending[i]]
                      \/ i = Len(ending) /\ Len(ending') = i - 1
    BY <1>1
  <2>2. ending[i] \in Calls /\ IsEnding(ending[i])
    BY <2>1 DEF TypeOK, IsEnding
  <2>3. ASSUME NEW c \in Calls, Request(c)
        PROVE  FALSE
    BY <2>2, <2>3, IdleHasNoEnding
    DEF Request, Invite, TerminateCall, PauseCall, ResumeCall, UpdateCall, Join,
        Leave, AcceptCall
  <2>4. CASE \E c \in Calls : Report(c) \/ StartDeferred(c)
    BY <1>1, <2>2, <2>4, ReportSparesEnding
  <2>5. CASE Disconnected
    <3>1. current_call \in Calls /\ ending[i] # current_call
      BY <1>1, <2>1, <2>2, <2>5, EndingCalls DEF Disconnected, TypeOK
    <3>2. QED BY <2>1, <2>2, <2>5, <3>1, OthersKept DEF Disconnected
  <2>6. CASE Ended
    <3>1. DEFINE last == ending[Len(ending)]
    <3>2. last \in Calls /\ SetTerminated(last, "End", current_call)
      BY <2>1, <2>6 DEF Ended, TypeOK
    <3>3. CASE i = Len(ending)
      <4>1. ending' = SubSeq(ending, 1, Len(ending) - 1)
        BY <2>6 DEF Ended
      <4>2. ASSUME NEW n \in Nat, n = Len(ending) - 1
            PROVE  Len(SubSeq(ending, 1, n)) = n
        <5>1. \A j \in 1 .. n : ending[j] \in Calls
          BY <2>1, <4>2 DEF TypeOK
        <5>2. QED BY <5>1, SubSeqProperties
      <4>3. Len(ending) - 1 \in Nat
        BY <2>1
      <4>4. QED BY <3>3, <4>1, <4>2, <4>3
    <3>4. CASE i # Len(ending)
      <4>1. ending[i] # last
        BY <1>1, <2>1, <3>4 DEF CallControlInv, EndingIsHeld
      <4>2. HIDE DEF last
      <4>3. QED BY <2>1, <2>2, <3>2, <4>1, OthersKept
    <3>5. QED BY <3>3, <3>4
  <2>7. QED BY <2>3, <2>4, <2>5, <2>6 DEF Next
<1>2. QED BY <1>1, CallControlInvariant, PTL DEF Spec, ByeIsUndisturbed

(* An INVITE is sent for a call that is new or deferred, never again.      *)
THEOREM InviteIsSentOnce == Spec => InvitedOnce
<1>1. ASSUME CallControlInv, [Next]_vars
      PROVE  [\A c \in Calls :
                /\ state'[c] = "OutgoingProgress"
                /\ state[c] # "OutgoingProgress"
                => state[c] \in Gone \cup {"OutgoingInit"}]_vars
  <2>1. TypeOK
    BY <1>1 DEF CallControlInv
  <2> SUFFICES ASSUME Next, NEW d \in Calls,
                      state'[d] = "OutgoingProgress",
                      state[d] # "OutgoingProgress"
               PROVE  state[d] \in Gone \cup {"OutgoingInit"}
    BY <1>1
  <2>2. \A c \in Calls, how \in {"Error", "End"} : \A cur : ~SetTerminated(c, how, cur)
    BY <2>1 DEF SetTerminated, TypeOK
  <2>3. \A c \in Calls : ~Hold(c) /\ ~Terminate(c)
    BY <2>1, <2>2 DEF Hold, Terminate, TypeOK
  <2>4. ASSUME NEW c \in Calls, NEW cur, SendInvite(c, cur)
        PROVE  d = c
    BY <2>1, <2>4 DEF SendInvite, SetTerminated, TypeOK
  <2>5. ASSUME NEW c \in Calls, InviteAddress(c)
        PROVE  state[d] \in Gone
    BY <2>1, <2>4, <2>5 DEF InviteAddress, Free, TypeOK
  <2>6. ASSUME NEW c \in Calls, NEW R \in SUBSET Calls, AcceptCall(c, R)
        PROVE  FALSE
    BY <2>1, <2>6 DEF AcceptCall, TypeOK
  <2>7. ASSUME NEW c \in Calls, Request(c)
        PROVE  state[d] \in Gone
    BY <2>1, <2>3, <2>5, <2>6, <2>7
    DEF Request, Invite, TerminateCall, PauseCall, ResumeCall, UpdateCall, Join,
        Leave, RemoveMb, TypeOK
  <2>8. ASSUME NEW c \in Calls, NEW n \in Calls, ReferReceived(c, n)
        PROVE  state[d] \in Gone
    BY <2>1, <2>3, <2>5, <2>8 DEF ReferReceived, Free, TypeOK
  <2>9. ASSUME NEW c \in Calls, NEW md \in Media,
               \/ CallReceived(c, md) \/ CallRinging(c, md) \/ CallAccepted(c, md)
               \/ CallAck(c, md) \/ CallUpdating(c, md)
        PROVE  FALSE
    BY <2>1, <2>2, <2>9
    DEF CallReceived, CallRinging, CallAccepted, CallAck, CallUpdating, TypeOK
  <2>10. ASSUME NEW c \in Calls, PingReply(c)
         PROVE  state[d] = "OutgoingInit"
    BY <2>1, <2>2, <2>10 DEF PingReply, StartsOnReply, TypeOK
  <2>11. ASSUME NEW c \in Calls, CallTerminated(c)
         PROVE  FALSE
    BY <2>2, <2>3, <2>11 DEF CallTerminated, RemoveMb
  <2>12. ASSUME NEW c \in Calls, StartDeferred(c)
         PROVE  state[d] = "OutgoingInit"
    BY <2>4, <2>12 DEF StartDeferred, IsDue
  <2>13. ~Disconnected
    BY <2>1, <2>2 DEF Disconnected, Terminate, SetTerminated, TypeOK
  <2>14. ~Ended
    BY <2>1 DEF Ended, SetTerminated, TypeOK
  <2>15. ASSUME NEW c \in Calls, Report(c)
         PROVE  state[d] \in Gone \cup {"OutgoingInit"}
    BY <2>2, <2>8, <2>9, <2>10, <2>11, <2>15 DEF Report, CallFailure
  <2>16. QED BY <2>7, <2>12, <2>13, <2>14, <2>15 DEF Next
<1>2. QED BY <1>1, CallControlInvariant, PTL DEF Spec, InvitedOnce

-----------------------------------------------------------------------------
(* A step that adds a call checks NB_MAX_CALLS first.                      *)
LEMMA CallsGrowIfTheyFit ==
  ASSUME CallControlInv, [Next]_vars
  PROVE  \/ calls' \subseteq calls
         \/ CanAddCall /\ \E c \in Calls : calls' = calls \cup {c}
<1> DEFINE Grows == \/ calls' \subseteq calls
                    \/ CanAddCall /\ \E c \in Calls : calls' = calls \cup {c}
<1>1. \A c \in Calls : \A how, cur : SetTerminated(c, how, cur) => calls' \subseteq calls
  BY DEF SetTerminated, Without
<1>2. ASSUME NEW c \in Calls, InviteAddress(c)
      PROVE  Grows
  BY <1>1, <1>2 DEF InviteAddress, SendInvite
<1>3. ASSUME NEW c \in Calls, NEW R, AcceptCall(c, R)
      PROVE  calls' \subseteq calls
  BY <1>3 DEF AcceptCall
<1>4. ASSUME NEW c \in Calls, Request(c)
      PROVE  Grows
  BY <1>1, <1>2, <1>3, <1>4
  DEF Request, Invite, TerminateCall, Terminate, PauseCall, ResumeCall, UpdateCall,
      Join, Leave
<1>5. ASSUME NEW c \in Calls, NEW n \in Calls, ReferReceived(c, n)
      PROVE  Grows
  BY <1>2, <1>5 DEF ReferReceived
<1>6. ASSUME NEW c \in Calls, NEW md \in Media, CallReceived(c, md)
      PROVE  Grows
  BY <1>6 DEF CallReceived
<1>7. ASSUME NEW c \in Calls, NEW md \in Media,
             CallRinging(c, md) \/ CallAccepted(c, md) \/ CallAck(c, md) \/ CallUpdating(c, md)
      PROVE  calls' \subseteq calls
  BY <1>1, <1>7 DEF CallRinging, CallAccepted, CallAck, CallUpdating
<1>8. ASSUME NEW c \in Calls, PingReply(c) \/ CallTerminated(c)
      PROVE  calls' \subseteq calls
  BY <1>1, <1>8 DEF PingReply, CallTerminated
<1>9. ASSUME NEW c \in Calls, NEW how \in {"Error", "End"}, CallFailure(c, how)
      PROVE  calls' \subseteq calls
  BY <1>1, <1>9 DEF CallFailure
<1>10. ASSUME NEW c \in Calls, StartDeferred(c)
       PROVE  calls' \subseteq calls
  BY <1>1, <1>10 DEF StartDeferred, SendInvite, IsDue
<1>11. CASE Disconnected
  BY <1>1, <1>11 DEF Disconnected, Terminate, CallControlInv, CurrentCallIsLive, TypeOK
<1>12. CASE Ended
  BY <1>12 DEF Ended, SetTerminated, Without
<1>13. CASE UNCHANGED vars
  BY <1>13 DEF vars
<1>14. ASSUME NEW c \in Calls, Report(c)
       PROVE  Grows
  BY <1>5, <1>6, <1>7, <1>8, <1>9, <1>14 DEF Report
<1>15. QED BY <1>4, <1>10, <1>11, <1>12, <1>13, <1>14 DEF Next

(* The core never holds more than NB_MAX_CALLS calls, whichever way they   *)
(* come in.                                                                *)
THEOREM CallsAlwaysFit == Spec => []CallsFit
<1>1. Init => CallsFit
  BY FS_EmptySet, CallControlAssumption DEF Init, CallsFit
<1>2. ASSUME CallControlInv, CallsFit, [Next]_vars
      PROVE  CallsFit'
  <2>1. /\ IsFiniteSet(calls) /\ Cardinality(calls) \in Nat /\ NbMaxCalls \in Nat
        /\ Cardinality(calls) <= NbMaxCalls
    BY <1>2, FS_CardinalityType, CallControlAssumption DEF CallsFit
  <2>2. CASE calls' \subseteq calls
    <3>1. IsFiniteSet(calls') /\ Cardinality(calls') <= Cardinality(calls)
      BY <2>1, <2>2, FS_Subset
    <3>2. Cardinality(calls') \in Nat
      BY <3>1, FS_CardinalityType
    <3>3. QED BY <2>1, <3>1, <3>2 DEF CallsFit
  <2>3. ASSUME CanAddCall, NEW c \in Calls, calls' = calls \cup {c}
        PROVE  CallsFit'
    <3>1. /\ IsFiniteSet(calls')
          /\ Cardinality(calls') \in {Cardinality(calls), Cardinality(calls) + 1}
      BY <2>1, <2>3, FS_AddElement
    <3>2. Cardinality(calls) < NbMaxCalls
      BY <2>3 DEF CanAddCall
    <3>3. QED BY <2>1, <3>1, <3>2 DEF CallsFit
  <2>4. QED BY <1>2, <2>2, <2>3, CallsGrowIfTheyFit
<1>3. QED BY <1>1, <1>2, CallControlInvariant, PTL DEF Spec
=============================================================================
