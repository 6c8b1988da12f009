---------------------------- MODULE CallControl ----------------------------
(***************************************************************************)
(* The calls of the core: callbacks.c (what the SIP stack reports),        *)
(* linphonecall.c and linphonecore.c (what the application asks for), and  *)
(* what joining and leaving the conference does to a call (conf_call.c).   *)
(* All of it runs on the thread that calls linphone_core_iterate, so each  *)
(* handler is one step, with one exception: the handler of a BYE removes   *)
(* the call from its conference and then calls linphone_core_iterate       *)
(* itself, so that handlers of other events run in the middle of it.       *)
(*                                                                         *)
(* A media description is reduced to what the handlers ask of it: the      *)
(* direction sal_media_description_has_dir finds, "Mixed" when its streams *)
(* do not agree on one, "ZeroAddr" for SendRecv with address 0.0.0.0,      *)
(* "Empty" when no stream is usable, "None" when there is none.            *)
(***************************************************************************)
EXTENDS Integers, Sequences, FiniteSets

CONSTANTS
  Calls,         (* addresses of LinphoneCall objects, reused once freed    *)
  NoCall,        (* NULL                                                    *)
  NbMaxCalls,    (* NB_MAX_CALLS                                            *)
  EarlyMedia,    (* incoming_calls_early_media, or a remote ringback tone   *)
  HasRingCard,   (* sound_conf.ring_sndcard != NULL                         *)
  MaxMembers     (* bound: member records of the conference                 *)

ASSUME CallControlAssumption ==
  /\ NoCall \notin Calls
  /\ NbMaxCalls \in Nat
  /\ MaxMembers \in Nat
  /\ EarlyMedia \in BOOLEAN
  /\ HasRingCard \in BOOLEAN

Gone        == {"Idle", "Error", "End"}
Dialing     == {"OutgoingProgress", "OutgoingRinging", "OutgoingEarlyMedia"}
Incoming    == {"IncomingReceived", "IncomingEarlyMedia"}
Established == {"Connected", "StreamsRunning", "InConferencing", "Pausing",
                "Paused", "Resuming", "PausedByRemote"}
CallStates  == Gone \cup Dialing \cup Incoming \cup Established
               \cup {"OutgoingInit"}

Media == {"SendRecv", "ZeroAddr", "Mixed", "SendOnly", "RecvOnly", "Inactive",
          "Empty", "None"}
Usable == Media \ {"Empty", "None"}

(* The dialog's INVITE transaction: none open; an INVITE of ours offering  *)
(* SendRecv or, to hold the call, SendOnly; an INVITE of the peer that is  *)
(* not answered, with or without a media description.                      *)
Invites == {"none", "offer", "hold", "in", "inNoSdp"}

VARIABLES
  state,         (* call->state                                             *)
  calls,         (* the calls in lc->calls                                  *)
  current_call,  (* lc->current_call                                        *)
  media_pending, (* the calls whose media_pending is TRUE                   *)
  invite,        (* the INVITE transaction of each call's dialog            *)
  ackDue,        (* the calls whose initial INVITE awaits the ACK           *)
  pinged,        (* the calls whose OPTIONS ping awaits a reply             *)
  mbs,           (* how many members of the conference hold this call       *)
  ending         (* the calls whose call_terminated is inside its iterate   *)

sip  == <<invite, ackDue, pinged>>
vars == <<state, calls, current_call, media_pending, sip, mbs, ending>>

IsEnding(c) == \E i \in 1 .. Len(ending) : ending[i] = c

CanAddCall == Cardinality(calls) < NbMaxCalls

(* Handlers of the application's requests do not run inside a handler.     *)
Idle == ending = <<>>

(* Mutant: the op keeps its call id when the dialog is closed.             *)
ReportedAfterBye(c) == c \in calls

(* The SIP stack reports events of c: its op still has a call id.          *)
Reported(c) == c \in calls /\ ~IsEnding(c)

(* malloc may hand out the memory of a freed call again; not, here, while  *)
(* a member of the conference still points at it.                          *)
Free(c) == state[c] \in Gone /\ mbs[c] = 0

Without(s, c) == s \ {c}

SetIf(s, c, b) == IF b THEN s \cup {c} ELSE s \ {c}

(***************************************************************************)
(* linphone_call_set_state to End or Error: the call is forgotten.  cur is *)
(* the current call at that point.                                         *)
(***************************************************************************)
ClearCurrent(c, cur) == IF cur = c THEN NoCall ELSE cur

SetTerminated(c, how, cur) ==
  /\ state' = [state EXCEPT ![c] = how]
  /\ calls' = Without(calls, c)
  /\ current_call' = ClearCurrent(c, cur)
  /\ media_pending' = Without(media_pending, c)
  /\ invite' = [invite EXCEPT ![c] = "none"]
  /\ ackDue' = Without(ackDue, c)
  /\ pinged' = Without(pinged, c)

(* linphone_core_start_invite, which the stack may refuse.                 *)
SendInvite(c, cur) ==
  \/ /\ state' = [state EXCEPT ![c] = "OutgoingProgress"]
     /\ invite' = [invite EXCEPT ![c] = "offer"]
     /\ media_pending' = media_pending \cup {c}
     /\ calls' = calls \cup {c}
     /\ current_call' = cur
     /\ UNCHANGED <<ackDue, pinged>>
  \/ SetTerminated(c, "Error", cur)

(* linphone_core_invite_address_with_params for a new call c, started at   *)
(* once or, pinged first, by the reply or by linphone_core_iterate.        *)
InviteAddress(c) ==
  /\ Free(c)
  /\ CanAddCall
  /\ \/ SendInvite(c, c)
     \/ /\ state' = [state EXCEPT ![c] = "OutgoingInit"]
        /\ calls' = calls \cup {c}
        /\ current_call' = c
        /\ pinged' = pinged \cup {c}
        /\ UNCHANGED <<media_pending, invite, ackDue>>

(***************************************************************************)
(* linphone_core_pause_call once past its guard.  The re-INVITE is not     *)
(* sent when a transaction is open or the dialog is already closed; the    *)
(* call is marked all the same, and whatever call is current is forgotten. *)
(***************************************************************************)
Pausable(c) == state[c] \in {"StreamsRunning", "PausedByRemote"}

(* Mutant: the current call is left alone.                                 *)
AfterPauseKept(cur) == cur

AfterPause(cur) == NoCall

Hold(c) ==
  /\ state' = [state EXCEPT ![c] = "Pausing"]
  /\ \/ /\ invite[c] = "none"
        /\ invite' = [invite EXCEPT ![c] = "hold"]
     \/ UNCHANGED invite
  /\ current_call' = AfterPause(current_call)

(* linphone_conference_remove_mb: the call is set running, then held.      *)
RemoveMb(c) ==
  /\ Hold(c)
  /\ mbs' = [mbs EXCEPT ![c] = @ - 1]

(* The conference hears of the end of c.                                   *)
InTheConference(c) == state[c] = "InConferencing" /\ mbs[c] > 0

-----------------------------------------------------------------------------
(* What the application asks for.                                          *)

Invite(c) ==
  /\ Idle
  /\ current_call = NoCall
  /\ InviteAddress(c)
  /\ UNCHANGED <<mbs, ending>>

(* linphone_core_terminate_call.                                           *)
Terminate(c) ==
  /\ mbs' = IF InTheConference(c) THEN [mbs EXCEPT ![c] = @ - 1] ELSE mbs
  /\ SetTerminated(c, "End", IF InTheConference(c) THEN AfterPause(current_call)
                             ELSE current_call)
  /\ UNCHANGED ending

TerminateCall(c) ==
  /\ Idle
  /\ c \in calls
  /\ Terminate(c)

(* linphone_core_accept_call.  R is the call that c replaces, if it does:  *)
(* that one is terminated before the other checks.                         *)
AcceptCall(c, R) ==
  LET confR == {r \in R : InTheConference(r)}
      cur == IF confR # {} \/ current_call \in R THEN NoCall ELSE current_call
      sdp == invite[c] = "in"
  IN /\ Idle
     /\ c \in calls
     /\ state[c] \in Incoming
     /\ R \subseteq calls \ {c}
     /\ cur \in {NoCall, c}
     /\ state' = [d \in Calls |->
                    IF d \in R THEN "End"
                    ELSE IF d # c THEN state[d]
                    ELSE IF sdp THEN "StreamsRunning" ELSE "Connected"]
     /\ calls' = calls \ R
     /\ current_call' = c
     /\ media_pending' = SetIf(media_pending \ R, c, ~sdp)
     /\ invite' = [d \in Calls |-> IF d \in R \cup {c} THEN "none" ELSE invite[d]]
     /\ ackDue' = (ackDue \ R) \cup {c}
     /\ pinged' = pinged \ R
     /\ mbs' = [d \in Calls |-> IF d \in confR THEN mbs[d] - 1 ELSE mbs[d]]
     /\ UNCHANGED ending

PauseCall(c) ==
  /\ Idle
  /\ c \in calls
  /\ Pausable(c)
  /\ Hold(c)
  /\ UNCHANGED <<calls, media_pending, ackDue, pinged, mbs, ending>>

ResumeCall(c) ==
  /\ Idle
  /\ c \in calls
  /\ state[c] = "Paused"
  /\ current_call = NoCall
  /\ invite[c] = "none"
  /\ state' = [state EXCEPT ![c] = "Resuming"]
  /\ invite' = [invite EXCEPT ![c] = "offer"]
  /\ current_call' = c
  /\ UNCHANGED <<calls, media_pending, ackDue, pinged, mbs, ending>>

(* linphone_core_update_call "updates a running call": it is the caller    *)
(* who sees to that.                                                       *)
UpdateCall(c) ==
  /\ Idle
  /\ c \in calls
  /\ state[c] \in {"StreamsRunning", "InConferencing"}
  /\ invite[c] = "none"
  /\ invite' = [invite EXCEPT ![c] = "offer"]
  /\ UNCHANGED <<state, calls, current_call, media_pending, ackDue, pinged,
                 mbs, ending>>

(* linphone_conference_new_mb and linphone_conference_add_mb.              *)
Join(c) ==
  /\ Idle
  /\ c \in calls
  /\ state[c] = "StreamsRunning"
  /\ mbs[c] < MaxMembers
  /\ mbs' = [mbs EXCEPT ![c] = @ + 1]
  /\ state' = [state EXCEPT ![c] = "InConferencing"]
  /\ current_call' = NoCall
  /\ UNCHANGED <<calls, media_pending, sip, ending>>

(* linphone_conference_remove_mb.                                          *)
Leave(c) ==
  /\ Idle
  /\ c \in calls
  /\ mbs[c] > 0
  /\ RemoveMb(c)
  /\ UNCHANGED <<calls, media_pending, ackDue, pinged, ending>>

-----------------------------------------------------------------------------
(* What linphone_core_iterate does of its own accord.                      *)

(* Mutant: only the reply to the ping starts the call.                     *)
IsDueNever(c) == FALSE

(* The call was deferred more than two seconds ago.                        *)
IsDue(c) == c \in calls /\ state[c] = "OutgoingInit"

StartDeferred(c) ==
  /\ IsDue(c)
  /\ SendInvite(c, current_call)
  /\ UNCHANGED <<mbs, ending>>

(* No RTP from the current call: linphone_core_disconnected.               *)
Disconnected ==
  /\ current_call # NoCall
  /\ Terminate(current_call)

-----------------------------------------------------------------------------
(* What the SIP stack reports.                                             *)

(* Mutant: the reply starts the call whatever its state.                   *)
StartsOnReplyAlways(c) == TRUE

StartsOnReply(c) == state[c] = "OutgoingInit"

PingReply(c) ==
  /\ c \in pinged
  /\ \/ /\ StartsOnReply(c)
        /\ \/ /\ state' = [state EXCEPT ![c] = "OutgoingProgress"]
              /\ invite' = [invite EXCEPT ![c] = "offer"]
              /\ media_pending' = media_pending \cup {c}
              /\ pinged' = Without(pinged, c)
              /\ UNCHANGED <<calls, current_call, ackDue>>
           \/ SetTerminated(c, "Error", current_call)
     \/ /\ ~StartsOnReply(c)
        /\ pinged' = Without(pinged, c)
        /\ UNCHANGED <<state, calls, current_call, media_pending, invite, ackDue>>
  /\ UNCHANGED <<mbs, ending>>

(* A call that is refused, for whatever reason, changes nothing.           *)
CallReceived(c, md) ==
  /\ Free(c)
  /\ CanAddCall
  /\ md # "Empty"
  /\ state' = [state EXCEPT ![c] = IF EarlyMedia THEN "IncomingEarlyMedia"
                                   ELSE "IncomingReceived"]
  /\ calls' = calls \cup {c}
  /\ current_call' = IF HasRingCard /\ calls = {} THEN c ELSE current_call
  /\ media_pending' = SetIf(media_pending, c, EarlyMedia /\ md = "None")
  /\ invite' = [invite EXCEPT ![c] = IF md = "None" THEN "inNoSdp" ELSE "in"]
  /\ UNCHANGED <<ackDue, pinged, mbs, ending>>

CallRinging(c, md) ==
  /\ Reported(c)
  /\ state[c] \in {"OutgoingProgress", "OutgoingRinging"}
  /\ invite[c] = "offer"
  /\ state' = [state EXCEPT ![c] = IF md = "None" THEN "OutgoingRinging"
                                   ELSE "OutgoingEarlyMedia"]
  /\ media_pending' = IF md = "None" THEN media_pending
                      ELSE Without(media_pending, c)
  /\ UNCHANGED <<calls, current_call, sip, mbs, ending>>

(* What the peer can answer: a hold is never answered with more.           *)
Answers(c) ==
  IF invite[c] = "hold" THEN {"SendOnly", "Inactive", "Empty"}
  ELSE IF state[c] \in Dialing THEN Media
  ELSE Media \ {"None"}

CallAccepted(c, md) ==
  /\ Reported(c)
  /\ invite[c] \in {"offer", "hold"}
  /\ md \in Answers(c)
  /\ \/ /\ md \in Usable
        /\ state' = [state EXCEPT ![c] =
                       IF md \in {"SendOnly", "RecvOnly", "Inactive"} THEN "Paused"
                       ELSE "StreamsRunning"]
        /\ invite' = [invite EXCEPT ![c] = "none"]
        /\ media_pending' = Without(media_pending, c)
        /\ UNCHANGED <<calls, current_call, ackDue, pinged>>
     \/ /\ md \notin Usable
        /\ SetTerminated(c, "Error", current_call)
  /\ UNCHANGED <<mbs, ending>>

CallAck(c, md) ==
  /\ Reported(c)
  /\ c \in ackDue
  /\ \/ /\ c \notin media_pending
        /\ ackDue' = Without(ackDue, c)
        /\ UNCHANGED <<state, calls, current_call, media_pending, invite, pinged>>
     \/ /\ c \in media_pending
        /\ md \in Usable
        /\ state' = [state EXCEPT ![c] = "StreamsRunning"]
        /\ media_pending' = Without(media_pending, c)
        /\ ackDue' = Without(ackDue, c)
        /\ UNCHANGED <<calls, current_call, invite, pinged>>
     \/ /\ c \in media_pending
        /\ md \notin Usable
        /\ SetTerminated(c, "Error", current_call)
  /\ UNCHANGED <<mbs, ending>>

(* An offer of the peer in an open dialog.  One that matches no codec is   *)
(* not even answered, so that its transaction stays open.                  *)
CallUpdating(c, md) ==
  LET resumes == state[c] \in {"PausedByRemote", "Paused"} /\ md = "SendRecv"
      pauses == /\ state[c] = "StreamsRunning"
                /\ md \in {"RecvOnly", "Inactive", "ZeroAddr"}
  IN /\ Reported(c)
     /\ state[c] \in Established
     /\ invite[c] = "none"
     /\ ackDue' = Without(ackDue, c)
     /\ \/ /\ md = "Empty"
           /\ invite' = [invite EXCEPT ![c] = "in"]
           /\ UNCHANGED <<state, media_pending>>
        \/ /\ md \in Usable
           /\ resumes => current_call \in {NoCall, c}
           /\ state' = [state EXCEPT ![c] = IF resumes THEN "StreamsRunning"
                                            ELSE IF pauses THEN "PausedByRemote"
                                            ELSE @]
           /\ media_pending' = Without(media_pending, c)
           /\ UNCHANGED invite
     /\ UNCHANGED <<calls, current_call, pinged, mbs, ending>>

(* An INVITE of ours is refused, or nobody answers it.                     *)
CallFailure(c, how) ==
  /\ Reported(c)
  /\ invite[c] \in {"offer", "hold"}
  /\ how \in {"Error", "End"}
  /\ SetTerminated(c, how, current_call)
  /\ UNCHANGED <<mbs, ending>>

(* REFER: the call is paused if it can be, and a new one is placed.        *)
ReferReceived(c, n) ==
  /\ Reported(c)
  /\ state[c] \in Established
  /\ n # c
  /\ \/ /\ Pausable(c)
        /\ Free(n)
        /\ CanAddCall
        /\ \E s \in {"OutgoingInit", "OutgoingProgress", "Error"},
              h \in IF invite[c] = "none" THEN {"none", "hold"} ELSE {invite[c]} :
             /\ state' = [state EXCEPT ![c] = "Pausing", ![n] = s]
             /\ calls' = IF s = "Error" THEN calls ELSE calls \cup {n}
             /\ current_call' = IF s = "Error" THEN NoCall ELSE n
             /\ media_pending' = SetIf(media_pending, n, s = "OutgoingProgress")
             /\ invite' = [invite EXCEPT ![c] = h,
                             ![n] = IF s = "OutgoingProgress" THEN "offer" ELSE "none"]
             /\ pinged' = SetIf(pinged, n, s = "OutgoingInit")
        /\ UNCHANGED ackDue
     \/ /\ Pausable(c)
        /\ ~CanAddCall
        /\ Hold(c)
        /\ UNCHANGED <<calls, media_pending, ackDue, pinged>>
     \/ /\ ~Pausable(c)
        /\ current_call = NoCall
        /\ InviteAddress(n)
  /\ UNCHANGED <<mbs, ending>>

(***************************************************************************)
(* BYE or CANCEL.  The stack has closed the dialog: nothing more is        *)
(* reported of this call.  A call in the conference leaves it, and the     *)
(* handler iterates the core before it goes on.                            *)
(***************************************************************************)
CallTerminated(c) ==
  /\ Reported(c)
  /\ state[c] # "OutgoingInit"
  /\ \/ /\ InTheConference(c)
        /\ RemoveMb(c)
        /\ ending' = Append(ending, c)
        /\ UNCHANGED <<calls, media_pending, ackDue, pinged>>
     \/ /\ ~InTheConference(c)
        /\ SetTerminated(c, "End", current_call)
        /\ UNCHANGED <<mbs, ending>>

(* The handler of the latest BYE comes back from linphone_core_iterate.    *)
Ended ==
  /\ ending # <<>>
  /\ LET c == ending[Len(ending)]
     IN SetTerminated(c, "End", current_call)
  /\ ending' = SubSeq(ending, 1, Len(ending) - 1)
  /\ UNCHANGED mbs

-----------------------------------------------------------------------------
Init ==
  /\ state = [c \in Calls |-> "Idle"]
  /\ calls = {}
  /\ current_call = NoCall
  /\ media_pending = {}
  /\ invite = [c \in Calls |-> "none"]
  /\ ackDue = {}
  /\ pinged = {}
  /\ mbs = [c \in Calls |-> 0]
  /\ ending = <<>>

Request(c) ==
  \/ Invite(c) \/ TerminateCall(c) \/ PauseCall(c) \/ ResumeCall(c)
  \/ UpdateCall(c) \/ Join(c) \/ Leave(c)
  \/ AcceptCall(c, {})
  \/ \E r \in Calls : AcceptCall(c, {r})

Report(c) ==
  \/ PingReply(c) \/ CallTerminated(c)
  \/ \E md \in Media : \/ CallReceived(c, md) \/ CallRinging(c, md)
                       \/ CallAccepted(c, md) \/ CallAck(c, md)
                       \/ CallUpdating(c, md)
  \/ \E how \in {"Error", "End"} : CallFailure(c, how)
  \/ \E n \in Calls : ReferReceived(c, n)

Next ==
  \/ \E c \in Calls : Request(c) \/ Report(c) \/ StartDeferred(c)
  \/ Disconnected
  \/ Ended

(* The timer of the application iterates the core for ever.                *)
Fairness == \A c \in Calls : WF_vars(StartDeferred(c))

Spec == Init /\ [][Next]_vars /\ Fairness

-----------------------------------------------------------------------------
(***************************************************************************)
(* Properties.                                                             *)
(***************************************************************************)

TypeOK ==
  /\ state \in [Calls -> CallStates]
  /\ calls \subseteq Calls
  /\ current_call \in Calls \cup {NoCall}
  /\ media_pending \subseteq Calls
  /\ invite \in [Calls -> Invites]
  /\ ackDue \subseteq Calls
  /\ pinged \subseteq Calls
  /\ mbs \in [Calls -> Nat]
  /\ ending \in Seq(Calls)

(* The list of calls holds the calls that are under way, and nothing is    *)
(* left over from those that are not.                                      *)
ListedIsUnderWay ==
  /\ \A c \in Calls : c \in calls <=> state[c] \notin Gone
  /\ \A c \in Calls : invite[c] # "none" => c \in calls
  /\ media_pending \cup ackDue \cup pinged \subseteq calls

(* The core never holds more calls than NB_MAX_CALLS, coming in, placed by *)
(* the application or following a REFER.                                   *)
CallsFit == IsFiniteSet(calls) /\ Cardinality(calls) <= NbMaxCalls

(* An INVITE of ours is open as long as we are dialing.                    *)
DialingHasInvite ==
  \A c \in Calls : state[c] \in Dialing => invite[c] = "offer"

(* The current call is a call of the list (set_terminated frees calls that *)
(* lc->current_call may still point at), and neither one that we are       *)
(* putting on hold nor one that the conference has taken over: those must  *)
(* not keep the core from taking another call.                             *)
CurrentCallIsLive ==
  current_call # NoCall =>
    /\ current_call \in calls
    /\ state[current_call] \notin {"Pausing", "InConferencing"}

(* A call in conferencing has a member in the conference: its hang-up,     *)
(* by either side, finds the member it must remove.                        *)
InConferencingHasMember ==
  \A c \in Calls : state[c] = "InConferencing" => mbs[c] > 0

(* A call whose BYE is being handled waits on hold, in the list, for the   *)
(* handler to come back from linphone_core_iterate, and waits only once.   *)
EndingIsHeld ==
  /\ \A i \in 1 .. Len(ending) : /\ ending[i] \in calls
                                 /\ state[ending[i]] = "Pausing"
  /\ \A i, j \in 1 .. Len(ending) : ending[i] = ending[j] => i = j

CallControlInv ==
  /\ TypeOK
  /\ ListedIsUnderWay
  /\ DialingHasInvite
  /\ CurrentCallIsLive
  /\ InConferencingHasMember
  /\ EndingIsHeld

(* What the core does while call_terminated iterates it, in the middle of  *)
(* a BYE, never touches the call of that BYE: the handler that goes on     *)
(* with its pointer to the call finds it as it left it, not freed.         *)
ByeIsUndisturbed ==
  [][\A i \in 1 .. Len(ending) :
       \/ state'[ending[i]] = state[ending[i]]
       \/ i = Len(ending) /\ Len(ending') = i - 1]_vars

(* An INVITE is sent once for a call: the reply to the OPTIONS ping and    *)
(* the two seconds that linphone_core_iterate waits for it may both come,  *)
(* in either order, before or after the peer's answer.                     *)
InvitedOnce ==
  [][\A c \in Calls :
       /\ state'[c] = "OutgoingProgress"
       /\ state[c] # "OutgoingProgress"
       => state[c] \in Gone \cup {"OutgoingInit"}]_vars

(* A deferred call is placed even if the ping is never answered.           *)
DeferredCallStarts ==
  \A c \in Calls : state[c] = "OutgoingInit" ~> state[c] # "OutgoingInit"

(* linphone_call_ref: whoever retains a pointer to a call must hold a      *)
(* reference so that it remains valid.  The conference's members do not.   *)
MembersAreLive == \A c \in Calls : mbs[c] > 0 => c \in calls
=============================================================================
