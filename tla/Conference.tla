----------------------------- MODULE Conference -----------------------------
(***************************************************************************)
(* The MCU conference of libsipua3: conference.c, conf_call.c,             *)
(* conf_device.c and confstream.c, with the static-picture tee (tee.c).    *)
(*                                                                         *)
(* A conference owns numbered audio and video ports.  A port has a pair of *)
(* slot queues: slotq_in carries media from the party plugged into the     *)
(* port to the mixer, slotq_out carries the mix back.  At each end of a    *)
(* queue sits an inter-ticker (ITC) filter: a sink writes the queue, a     *)
(* source reads it, and "connecting" a filter makes it point at a queue or *)
(* at NULL.  Everything here runs on the thread that iterates the core, so *)
(* each call of the API is one step; what the ticker threads do to a queue *)
(* meanwhile is the subject of ConfItc.tla.                                *)
(***************************************************************************)
EXTENDS Integers, FiniteSets

CONSTANTS
  Calls,          (* the SIP calls of the core                              *)
  Webcams,        (* the local cameras the application may start            *)
  SndCard,        (* the local sound card                                   *)
  MaxUsers,       (* linphone_conference_new's max_user                     *)
  VideoEnabled,   (* linphone_conference_new's has_video                    *)
  MaxVideoLayout, (* NB_MAX_VIDEO_LAYOUT: 9 in conference.h                 *)
  TeeOutputs,     (* MS_TEE_NOUTPUTS: 10 in tee.c                           *)
  NoQueue         (* the NULL queue                                         *)

Parties == Calls \cup Webcams \cup {SndCard}

Media == {"audio", "video"}

(* How many ports conf_stream_start creates.                               *)
NbPorts(m) ==
  IF m = "audio" THEN MaxUsers
  ELSE IF ~VideoEnabled THEN 0
  ELSE IF MaxUsers > MaxVideoLayout THEN MaxVideoLayout ELSE MaxUsers

Ports(m) == 0 .. NbPorts(m) - 1
Slots    == UNION {{m} \X Ports(m) : m \in Media}
Ends     == Media \X Parties
CallEnds == Media \X Calls

In(s)  == <<s, "in">>
Out(s) == <<s, "out">>
Queues == Slots \X {"in", "out"}

ASSUME ConferenceAssumption ==
  /\ MaxUsers \in Nat
  /\ MaxVideoLayout \in Nat
  /\ TeeOutputs \in Nat
  /\ MaxVideoLayout < TeeOutputs
  /\ VideoEnabled \in BOOLEAN
  /\ Calls \cap Webcams = {}
  /\ SndCard \notin Calls \cup Webcams
  /\ NoQueue \notin Queues \cup Parties
  /\ NoQueue # "lost" /\ "lost" \notin Parties

(* Values of audio_port_index and video_port_index besides a port number.  *)
Unplugged == -1
NoPort    == -2

CallStates == {"Idle", "StreamsRunning", "InConferencing", "Pausing", "Paused"}

(* A call's stream of a medium does not run, runs between the network and  *)
(* filters of its own (sound card, file, camera, window), or between the   *)
(* network and the ITC filters a conference put in their place.            *)
StreamKinds == {"none", "own", "itc"}

(* What a description may start; video without audio is left out.          *)
Descriptions == {{}, {"audio"}, Media}

VARIABLES
  running,     (* the conference exists and is started                      *)
  auto_layout, (* conf_stream->auto_layout                                  *)
  port,        (* the flags of ConfAudioPort / ConfVideoPort                *)
  portSource,  (* the queue each port's itc_source reads                    *)
  portSink,    (* the queue each port's itc_sink writes                     *)
  sinkMuted,   (* the muted flag inside each port's itc_sink filter         *)
  endSource,   (* the queue each party's source filter reads                *)
  endSink,     (* the queue each party's sink filter writes                 *)
  index,       (* audio_port_index / video_port_index of each party         *)
  lost,        (* in use since a member left whose stream did not run       *)
  teeMuted,    (* muted pins of video_static_image_tee                      *)
  members,     (* the calls in conf->members                                *)
  device,      (* conf->local_sndcard and conf->local_webcams               *)
  call,        (* call->state                                               *)
  stream,      (* audiostream and videostream of each call                  *)
  inConf,      (* call->user_pointer is the conference                      *)
  aborted      (* a type check of ms_filter_call_method has ended the MCU   *)

ports == <<port, portSource, portSink, sinkMuted, endSource, endSink, index, lost>>
calls == <<call, stream, inConf>>
conf  == <<running, auto_layout, ports, teeMuted, members, device>>
vars  == <<conf, calls, aborted>>

NewPort == [source_connected |-> FALSE, sink_connected |-> FALSE, muted |-> FALSE]

InUsed(s) == port[s].sink_connected \/ port[s].source_connected

(* Mutant: the in_used test of find_free_*_slot is lost.                    *)
FreePortsUnchecked(m) == Ports(m)

FreePorts(m) == {i \in Ports(m) : ~InUsed(<<m, i>>)}

(* Mutant: any free port will do.                                          *)
FindAnyFree(m, i) == IF FreePorts(m) = {} THEN i = NoPort ELSE i \in FreePorts(m)

(* i is what looking for a free port of medium m yields.                   *)
FindFree(m, i) ==
  \/ /\ i \in FreePorts(m)
     /\ \A j \in FreePorts(m) : i <= j
  \/ /\ i = NoPort
     /\ FreePorts(m) = {}

(* The slots named by the indexes at of a party's filters.                 *)
SlotsAt(at) == {s \in Slots : at[s[1]] = s[2]}

(* Mutant: the audio index is passed for both media.                       *)
IndexOfAudio(p) == [m \in Media |-> index[<<"audio", p>>]]

(* A call whose stream does not run cannot be disconnected.                *)
Streamless(m, p) == p \in Calls /\ stream[<<m, p>>] = "none"

IndexOf(p) ==
  [m \in Media |-> IF Streamless(m, p) THEN Unplugged ELSE index[<<m, p>>]]

(***************************************************************************)
(* Wiring.  Plug connects the filters of party p to the slots its indexes  *)
(* at name; a webcam has no source, and its port's itc_sink stays on NULL. *)
(* Unplug points the filters of the parties P, and those of the slots      *)
(* their indexes name, at NULL and clears the slots' flags.  It does       *)
(* nothing to the slot of a stream that does not run: the slot is lost.    *)
(***************************************************************************)
Plug(p, at) ==
  LET S == SlotsAt(at)
      slotOf(e) == <<e[1], at[e[1]]>>
      plugged(e) == e[2] = p /\ slotOf(e) \in S
      duplex == p \notin Webcams
  IN /\ port' = [s \in Slots |->
          IF s \in S THEN [port[s] EXCEPT !.source_connected = TRUE, !.sink_connected = TRUE]
                     ELSE port[s]]
     /\ portSource' = [s \in Slots |-> IF s \in S THEN In(s) ELSE portSource[s]]
     /\ portSink'   = [s \in Slots |-> IF s \in S /\ duplex THEN Out(s) ELSE portSink[s]]
     /\ endSink'    = [e \in Ends |-> IF plugged(e) THEN In(slotOf(e)) ELSE endSink[e]]
     /\ endSource'  = [e \in Ends |->
          IF plugged(e) /\ duplex THEN Out(slotOf(e)) ELSE endSource[e]]
     /\ sinkMuted'  = [s \in Slots |->
          IF s \in S /\ p \in Calls THEN port[s].muted ELSE sinkMuted[s]]
     /\ index' = [e \in Ends |-> IF e[2] = p THEN at[e[1]] ELSE index[e]]
     /\ UNCHANGED lost

UnplugEnds(P) ==
  LET unplugged(e) == e[2] \in P /\ <<e[1], index[e]>> \in Slots
  IN /\ endSink'    = [e \in Ends |-> IF unplugged(e) THEN NoQueue ELSE endSink[e]]
     /\ endSource'  = [e \in Ends |-> IF unplugged(e) THEN NoQueue ELSE endSource[e]]
     /\ index' = [e \in Ends |-> IF e[2] \in P THEN Unplugged ELSE index[e]]

Unplug(P) ==
  LET S(Q) == UNION {SlotsAt(IndexOf(p)) : p \in Q}
  IN /\ UnplugEnds(P)
     /\ port' = [s \in Slots |->
          IF s \in S(P) THEN [port[s] EXCEPT !.source_connected = FALSE, !.sink_connected = FALSE]
                        ELSE port[s]]
     /\ portSource' = [s \in Slots |-> IF s \in S(P) THEN NoQueue ELSE portSource[s]]
     /\ portSink'   = [s \in Slots |-> IF s \in S(P \ Webcams) THEN NoQueue ELSE portSink[s]]
     /\ lost' = lost \cup {s \in Slots :
                   \E p \in P : index[<<s[1], p>>] = s[2] /\ Streamless(s[1], p)}
     /\ UNCHANGED sinkMuted

(***************************************************************************)
(* Disconnecting calls an ITC method on the filters that stand at the ends *)
(* of the call's stream.  ms_filter_call_method checks that the method is  *)
(* one of the filter's kind; if it is not, ms_fatal aborts the program.    *)
(***************************************************************************)
Misfit(C) ==
  \E c \in C, m \in Media : index[<<m, c>>] \in Ports(m) /\ stream[<<m, c>>] = "own"

Abort == aborted' = TRUE /\ UNCHANGED <<conf, calls>>

(* The conference runs, in a program that still does.                      *)
Up == running /\ ~aborted

(***************************************************************************)
(* The static picture shown while a video port has no signal goes through  *)
(* one tee pin per port.  In automatic layout only pin 0 is switched when  *)
(* a party comes or goes; the other pins then stay muted.                  *)
(***************************************************************************)

(* Mutant: the layout is not looked at.                                    *)
SwitchedPinsAnyLayout(at) == {i \in Ports("video") : i = at["video"]}

SwitchedPins(at) ==
  {i \in Ports("video") : i = at["video"] /\ (auto_layout => i = 0)}

HidePicture(at) == teeMuted' = teeMuted \cup SwitchedPins(at)
ShowPicture(at) == teeMuted' = teeMuted \ SwitchedPins(at)

-----------------------------------------------------------------------------
(***************************************************************************)
(* The conference's own operations.                                        *)
(***************************************************************************)

(* audio_slot_new/_init and video_slot_new/_init of every port.            *)
NewPorts ==
  /\ port' = [s \in Slots |-> NewPort]
  /\ portSource' = [s \in Slots |-> NoQueue]
  /\ portSink' = [s \in Slots |-> NoQueue]
  /\ sinkMuted' = [s \in Slots |-> FALSE]
  /\ lost' = {}

(* linphone_conference_new and _start.  While the ports are created in     *)
(* automatic layout, the pin after each new port's pin is muted.           *)
Start(auto) ==
  /\ ~running /\ ~aborted
  /\ running' = TRUE
  /\ auto_layout' = auto
  /\ NewPorts
  /\ teeMuted' = IF auto THEN {i + 1 : i \in Ports("video")} ELSE {}
  /\ members' = {}
  /\ device' = {}
  /\ UNCHANGED <<endSource, endSink, index, calls, aborted>>

(* Mutant: the call given back is not put on hold.                         *)
PausedForgotten(C) == call' = call

(* What linphone_core_pause_call makes of a call that was just given back  *)
(* StreamsRunning: the hold re-INVITE is out.                              *)
Paused(C) == call' = [c \in Calls |-> IF c \in C THEN "Pausing" ELSE call[c]]

(* linphone_conference_stop: sound card, webcams, then members (stopping   *)
(* the recording is in Recorder.tla).  The ports and the tee are freed and *)
(* stand for new ones until Start.                                         *)
StopAll ==
  /\ running' = FALSE
  /\ auto_layout' = FALSE
  /\ UnplugEnds(members \cup device)
  /\ NewPorts
  /\ teeMuted' = {}
  /\ members' = {}
  /\ device' = {}
  /\ Paused(members)
  /\ inConf' = [c \in Calls |-> inConf[c] /\ c \notin members]
  /\ UNCHANGED <<stream, aborted>>

Stop ==
  /\ Up
  /\ \/ Misfit(members) /\ Abort
     \/ ~Misfit(members) /\ StopAll

(* linphone_conference_new_mb and _add_mb.  A stream that does not run     *)
(* gets no port; a call that finds no free port joins all the same.  The   *)
(* filters at the ends of a stream that got a port are replaced.           *)
AddMember(c) ==
  /\ Up
  /\ call[c] = "StreamsRunning"
  /\ \E a \in Ports("audio") \cup {NoPort}, v \in Ports("video") \cup {NoPort, Unplugged} :
       LET at == [m \in Media |-> IF m = "audio" THEN a ELSE v] IN
       /\ FindFree("audio", a)
       /\ IF stream[<<"video", c>>] # "none" THEN FindFree("video", v) ELSE v = Unplugged
       /\ Plug(c, at)
       /\ HidePicture(at)
       /\ stream' = [e \in CallEnds |->
            IF e[2] = c /\ at[e[1]] \in Ports(e[1]) THEN "itc" ELSE stream[e]]
  /\ call' = [call EXCEPT ![c] = "InConferencing"]
  /\ inConf' = [inConf EXCEPT ![c] = TRUE]
  /\ members' = members \cup {c}
  /\ UNCHANGED <<running, auto_layout, device, aborted>>

(* What linphone_conference_remove_mb does to the conference.              *)
TakeOut(c) ==
  /\ Unplug({c})
  /\ ShowPicture(IndexOf(c))
  /\ members' = members \ {c}
  /\ inConf' = [inConf EXCEPT ![c] = FALSE]

(* linphone_conference_remove_mb: the call leaves and is put on hold.      *)
RemoveMember(c) ==
  /\ Up
  /\ c \in members
  /\ \/ Misfit({c}) /\ Abort
     \/ /\ ~Misfit({c})
        /\ TakeOut(c)
        /\ Paused({c})
        /\ UNCHANGED <<running, auto_layout, device, stream, aborted>>

(* linphone_conference_add_local_sndcard; refused when one is present or   *)
(* no port is free.                                                        *)
AddSndCard ==
  /\ Up
  /\ SndCard \notin device
  /\ \E i \in Ports("audio") :
       LET at == [m \in Media |-> IF m = "audio" THEN i ELSE Unplugged] IN
       /\ FindFree("audio", i)
       /\ Plug(SndCard, at)
  /\ device' = device \cup {SndCard}
  /\ UNCHANGED <<running, auto_layout, teeMuted, members, calls, aborted>>

(* linphone_conference_remove_local_sndcard.                               *)
RemoveSndCard ==
  /\ Up
  /\ SndCard \in device
  /\ Unplug({SndCard})
  /\ device' = device \ {SndCard}
  /\ UNCHANGED <<running, auto_layout, teeMuted, members, calls, aborted>>

(* linphone_conference_add_local_webcam of a camera just started.          *)
AddWebcam(w) ==
  /\ Up
  /\ w \notin device
  /\ \E i \in Ports("video") :
       LET at == [m \in Media |-> IF m = "video" THEN i ELSE Unplugged] IN
       /\ FindFree("video", i)
       /\ Plug(w, at)
       /\ HidePicture(at)
  /\ device' = device \cup {w}
  /\ UNCHANGED <<running, auto_layout, members, calls, aborted>>

(* linphone_conference_remove_local_webcam_at_index.                       *)
RemoveWebcam(w) ==
  /\ Up
  /\ w \in device
  /\ Unplug({w})
  /\ ShowPicture(IndexOf(w))
  /\ device' = device \ {w}
  /\ UNCHANGED <<running, auto_layout, members, calls, aborted>>

(* linphone_conference_remove_local_all_webcams.                           *)
RemoveAllWebcams ==
  /\ Up
  /\ device \cap Webcams # {}
  /\ Unplug(device \cap Webcams)
  /\ teeMuted' = teeMuted \ UNION {SwitchedPins(IndexOf(w)) : w \in device \cap Webcams}
  /\ device' = device \ Webcams
  /\ UNCHANGED <<running, auto_layout, members, calls, aborted>>

(* Mutant: only the sink is muted, the port does not remember it.          *)
SetMutedForgotten(S, b) ==
  /\ Up
  /\ sinkMuted' = [s \in Slots |->
       IF s \in S /\ portSink[s] # NoQueue THEN b ELSE sinkMuted[s]]
  /\ UNCHANGED <<running, auto_layout, port, portSource, portSink, endSource, endSink, index,
                 lost, teeMuted, members, device, calls, aborted>>

(***************************************************************************)
(* Muting the output of a port: the port keeps its own flag, and its       *)
(* itc_sink obeys only while it is connected to a queue.                   *)
(***************************************************************************)
SetMuted(S, b) ==
  /\ Up
  /\ port' = [s \in Slots |-> IF s \in S THEN [port[s] EXCEPT !.muted = b] ELSE port[s]]
  /\ sinkMuted' = [s \in Slots |->
       IF s \in S /\ portSink[s] # NoQueue THEN b ELSE sinkMuted[s]]
  /\ UNCHANGED <<running, auto_layout, portSource, portSink, endSource, endSink, index,
                 lost, teeMuted, members, device, calls, aborted>>

(* linphone_conference_mute_ouput and _unmute_ouput with index -1.         *)
MuteAllOutputs(b) == SetMuted(Slots, b)

(* The same with one index.  The code looks the index up in both port      *)
(* lists and uses both results, so it must name a port of each.            *)
MuteOutput(i, b) ==
  /\ \A m \in Media : i \in Ports(m)
  /\ SetMuted({<<m, i>> : m \in Media}, b)

(* linphone_conference_enable_auto_layout: pin 0 and the pins of used      *)
(* ports are left as they are.  The video mixer must exist.                *)
EnableAutoLayout(enabled) ==
  LET idle == {i \in Ports("video") \ {0} : ~InUsed(<<"video", i>>)} IN
  /\ Up
  /\ VideoEnabled
  /\ auto_layout' = enabled
  /\ teeMuted' = IF enabled THEN teeMuted \cup idle ELSE teeMuted \ idle
  /\ UNCHANGED <<running, ports, members, device, calls, aborted>>

-----------------------------------------------------------------------------
(***************************************************************************)
(* The calls, as far as the conference sees them.  CallControl.tla has     *)
(* the whole call state machine; here a call in conferencing stays so      *)
(* until it is removed or hung up.                                         *)
(***************************************************************************)

(* The streams of c as linphone_call_start_media_streams makes them: those *)
(* of the media M run, with filters of their own.                          *)
NewStreams(c, M) ==
  stream' = [e \in CallEnds |->
    IF e[2] # c THEN stream[e] ELSE IF e[1] \in M THEN "own" ELSE "none"]

(* The call gets its streams: call_accepted of an INVITE or of the         *)
(* re-INVITE that resumes a paused call.                                   *)
CallStreamsRunning(c) ==
  /\ ~aborted
  /\ call[c] \in {"Idle", "Paused"}
  /\ call' = [call EXCEPT ![c] = "StreamsRunning"]
  /\ \E M \in Descriptions \ {{}} : NewStreams(c, M)
  /\ UNCHANGED <<conf, inConf, aborted>>

(* The peer changes the session by a re-INVITE (call_updating,             *)
(* linphone_core_update_streams): the streams are stopped, which destroys  *)
(* the filters at their ends, and made anew.  A call in conferencing stays *)
(* in conferencing, and the conference is not told.                        *)
CallUpdated(c) ==
  /\ ~aborted
  /\ call[c] \in {"StreamsRunning", "InConferencing"}
  /\ \E M \in Descriptions : /\ call[c] = "StreamsRunning" => M # {}
                             /\ NewStreams(c, M)
  /\ endSource' = [e \in Ends |-> IF e[2] = c THEN NoQueue ELSE endSource[e]]
  /\ endSink'   = [e \in Ends |-> IF e[2] = c THEN NoQueue ELSE endSink[e]]
  /\ UNCHANGED <<running, auto_layout, port, portSource, portSink, sinkMuted, index, lost,
                 teeMuted, members, device, call, inConf, aborted>>

(* The peer accepts the hold, or the user holds a call outside conferences.*)
(* What streams a held call has does not matter: it gets new ones.         *)
CallPaused(c) ==
  /\ ~aborted
  /\ call[c] \in {"Pausing", "StreamsRunning"}
  /\ call' = [call EXCEPT ![c] = "Paused"]
  /\ NewStreams(c, {})
  /\ UNCHANGED <<conf, inConf, aborted>>

(* call_terminated and linphone_core_terminate_call: a call in             *)
(* conferencing is taken out first.                                        *)
CallTerminated(c) ==
  LET takenOut == call[c] = "InConferencing" /\ inConf[c] /\ c \in members IN
  /\ ~aborted
  /\ call[c] # "Idle"
  /\ \/ takenOut /\ Misfit({c}) /\ Abort
     \/ /\ takenOut => ~Misfit({c})
        /\ IF takenOut THEN TakeOut(c) ELSE UNCHANGED <<ports, teeMuted, members, inConf>>
        /\ call' = [call EXCEPT ![c] = "Idle"]
        /\ NewStreams(c, {})
        /\ UNCHANGED <<running, auto_layout, device, aborted>>

-----------------------------------------------------------------------------
Init ==
  /\ running = FALSE
  /\ auto_layout = FALSE
  /\ port = [s \in Slots |-> NewPort]
  /\ portSource = [s \in Slots |-> NoQueue]
  /\ portSink = [s \in Slots |-> NoQueue]
  /\ sinkMuted = [s \in Slots |-> FALSE]
  /\ endSource = [e \in Ends |-> NoQueue]
  /\ endSink = [e \in Ends |-> NoQueue]
  /\ index = [e \in Ends |-> Unplugged]
  /\ teeMuted = {}
  /\ members = {}
  /\ device = {}
  /\ call = [c \in Calls |-> "Idle"]
  /\ stream = [e \in CallEnds |-> "none"]
  /\ inConf = [c \in Calls |-> FALSE]
  /\ lost = {}
  /\ aborted = FALSE

Next ==
  \/ \E b \in BOOLEAN : Start(b) \/ EnableAutoLayout(b) \/ MuteAllOutputs(b)
  \/ \E i \in Ports("audio"), b \in BOOLEAN : MuteOutput(i, b)
  \/ Stop
  \/ \E c \in Calls : AddMember(c) \/ RemoveMember(c)
  \/ AddSndCard \/ RemoveSndCard
  \/ \E w \in Webcams : AddWebcam(w) \/ RemoveWebcam(w)
  \/ RemoveAllWebcams
  \/ \E c \in Calls : CallStreamsRunning(c) \/ CallUpdated(c) \/ CallPaused(c) \/ CallTerminated(c)

Spec == Init /\ [][Next]_vars

-----------------------------------------------------------------------------
(***************************************************************************)
(* Properties.                                                             *)
(***************************************************************************)

(* Every variable holds a value of its kind.                               *)
TypeOK ==
  /\ running \in BOOLEAN
  /\ auto_layout \in BOOLEAN
  /\ port \in [Slots -> [source_connected : BOOLEAN, sink_connected : BOOLEAN, muted : BOOLEAN]]
  /\ portSource \in [Slots -> Queues \cup {NoQueue}]
  /\ portSink \in [Slots -> Queues \cup {NoQueue}]
  /\ sinkMuted \in [Slots -> BOOLEAN]
  /\ endSource \in [Ends -> Queues \cup {NoQueue}]
  /\ endSink \in [Ends -> Queues \cup {NoQueue}]
  /\ index \in [Ends -> Int]
  /\ teeMuted \subseteq 0 .. TeeOutputs - 1
  /\ members \subseteq Calls
  /\ device \subseteq Webcams \cup {SndCard}
  /\ call \in [Calls -> CallStates]
  /\ stream \in [CallEnds -> StreamKinds]
  /\ inConf \in [Calls -> BOOLEAN]
  /\ lost \subseteq Slots
  /\ aborted \in BOOLEAN

Holds(p, s) == index[<<s[1], p>>] = s[2]

(* No port leaks and none is used by somebody the conference has forgotten:*)
(* while the conference runs, a port is in use exactly when a present      *)
(* member or device has its number (the flags of confstream.c against the  *)
(* indexes kept by conf_call.c and conf_device.c), except for those lost   *)
(* to members that left when their streams did not run.                    *)
UsedPortsAreHeld ==
  running => \A s \in Slots \ lost :
               InUsed(s) <=> \E p \in members \cup device : Holds(p, s)

(* No crossed lines: a queue is written by one filter and read by one      *)
(* filter at most, so nobody is heard in, or hears, another party's port.  *)
NoCrossedLines ==
  running =>
    /\ \A e, f \in Ends : e # f /\ endSink[e] # NoQueue => endSink[e] # endSink[f]
    /\ \A e, f \in Ends : e # f /\ endSource[e] # NoQueue => endSource[e] # endSource[f]
    /\ \A e \in Ends, s \in Slots :
         endSink[e] # NoQueue => endSink[e] # portSink[s] /\ endSink[e] # endSource[e]

(* A member with a port is joined to the mixer both ways: what it sends is *)
(* read by its port's source, what its port's sink writes it receives;     *)
(* until its peer changes the session, which makes it deaf and mute.       *)
MembersTalkAndListen ==
  running => \A c \in members, m \in Media :
    index[<<m, c>>] \in Ports(m) /\ stream[<<m, c>>] = "itc" =>
      LET s == <<m, index[<<m, c>>]>> IN
      /\ endSink[<<m, c>>] # NoQueue /\ endSink[<<m, c>>] = portSource[s]
      /\ endSource[<<m, c>>] # NoQueue /\ endSource[<<m, c>>] = portSink[s]

(* The wiring as a whole: the flags of the ports, the numbers that members *)
(* and devices keep and the queues of the filters at both ends fit one     *)
(* another, whoever came and went in whatever order.                       *)
LinesAreRight == UsedPortsAreHeld /\ NoCrossedLines /\ MembersTalkAndListen

(* The no-signal picture goes to a region exactly when nobody is plugged   *)
(* into its port and the layout shows it: all regions in fixed layout,     *)
(* region 0 in automatic layout, whatever the order of layout switches,    *)
(* arrivals and departures.                                                *)
PictureFillsIdleRegions ==
  running => \A i \in Ports("video") :
    i \notin teeMuted <=> ~InUsed(<<"video", i>>) /\ (auto_layout => i = 0)

(* Muting a port's output is remembered across members: the sink that      *)
(* feeds a member is muted exactly when the port is marked muted, even if  *)
(* it was marked while nobody was plugged in.                              *)
MuteReachesMembers ==
  running => \A c \in members, s \in Slots :
    Holds(c, s) => sinkMuted[s] = port[s].muted

(* A conference that has stopped has let go of everybody: no filter of a   *)
(* call or a device still points at a queue of a freed port, no call is    *)
(* left in conferencing or with a pointer to the freed conference.         *)
StoppedLeavesNothing ==
  ~running =>
    /\ \A e \in Ends : endSource[e] = NoQueue /\ endSink[e] = NoQueue
    /\ \A c \in Calls : call[c] # "InConferencing" /\ ~inConf[c]

(* A filter is only asked for what filters of its kind can do: the check   *)
(* in ms_filter_call_method, which aborts the program, never fails.        *)
MethodsFitFilters == ~aborted

(* The call and the conference agree on who is in: the state and the       *)
(* user_pointer that call_terminated consults are a member's exactly for   *)
(* the calls the conference lists.                                         *)
MembershipAgrees ==
  \A c \in Calls : /\ c \in members <=> call[c] = "InConferencing"
                   /\ c \in members <=> inConf[c]

(***************************************************************************)
(* The inductive invariant behind the properties above: a port has at most *)
(* one holder, only present parties hold ports, and flags and filters are  *)
(* what the holders' indexes say.                                          *)
(***************************************************************************)
Held(s) == \E p \in Parties : Holds(p, s)
Taken(s) == s \in lost \/ Held(s)

OneHolder == \A s \in Slots : \A p, q \in Parties : Holds(p, s) /\ Holds(q, s) => p = q

FlagsShowHolder ==
  \A s \in Slots : /\ port[s].source_connected = Taken(s)
                   /\ port[s].sink_connected = Taken(s)

PortsWired ==
  \A s \in Slots :
    /\ portSource[s] = IF Taken(s) THEN In(s) ELSE NoQueue
    /\ portSink[s] = IF s \in lost \/ \E p \in Parties \ Webcams : Holds(p, s)
                     THEN Out(s) ELSE NoQueue

(* The filters at this end are the ITC filters of a conference.            *)
HasItc(e) == e[2] \in Calls => stream[e] = "itc"

EndsWired ==
  \A e \in Ends :
    LET s == <<e[1], index[e]>> IN
    /\ endSink[e] = IF s \in Slots /\ HasItc(e) THEN In(s) ELSE NoQueue
    /\ endSource[e] = IF s \in Slots /\ HasItc(e) /\ e[2] \notin Webcams
                      THEN Out(s) ELSE NoQueue

LostAreNobodys == \A s \in lost : ~Held(s)

Wired == OneHolder /\ FlagsShowHolder /\ PortsWired /\ EndsWired /\ LostAreNobodys

Presence ==
  /\ \A e \in Ends : index[e] # Unplugged => e[2] \in members \cup device
  /\ ~running => members = {} /\ device = {}
  /\ MembershipAgrees

ConferenceInv == TypeOK /\ Wired /\ Presence

(* The audio ports and the video ports are each a pool as PortPool says.   *)
Nobody == NoQueue
Lost == "lost"
Holder(m) ==
  [i \in Ports(m) |->
     IF <<m, i>> \in lost THEN Lost
     ELSE IF Held(<<m, i>>) THEN CHOOSE p \in Parties : Holds(p, <<m, i>>)
     ELSE Nobody]
AudioPool == INSTANCE PortPool WITH Numbers <- Ports("audio"), holder <- Holder("audio")
VideoPool == INSTANCE PortPool WITH Numbers <- Ports("video"), holder <- Holder("video")
PortsArePools == AudioPool!Spec /\ VideoPool!Spec
=============================================================================
