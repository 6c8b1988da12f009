-------------------------- MODULE ConferenceProofs --------------------------
(***************************************************************************)
(* Proofs about Conference.tla for every number of calls, webcams and      *)
(* ports.                                                                  *)
(***************************************************************************)
EXTENDS Conference, TLAPS

(* The ports of either medium are numbered by naturals, and the video      *)
(* ports fit the mixer layouts.                                            *)
LEMMA PortsAreNumbers ==
  ASSUME NEW m \in Media
  PROVE  /\ NbPorts(m) \in Nat
         /\ Ports(m) \subseteq Nat
         /\ NbPorts("video") <= MaxVideoLayout
BY ConferenceAssumption DEF NbPorts, Ports, Media

(* A slot is a medium and a port number of that medium.                    *)
LEMMA SlotShape ==
  /\ \A s \in Slots : s = <<s[1], s[2]>> /\ s[1] \in Media /\ s[2] \in Ports(s[1])
  /\ \A m \in Media : \A i \in Ports(m) : <<m, i>> \in Slots
BY DEF Slots

(* The queues of a slot are queues of the conference.                      *)
LEMMA QueueShape ==
  ASSUME NEW s \in Slots
  PROVE  In(s) \in Queues /\ Out(s) \in Queues
BY DEF In, Out, Queues

(* Plugging a party in keeps the types.                                    *)
LEMMA PlugType ==
  ASSUME TypeOK, NEW p \in Parties, NEW at \in [Media -> Int], Plug(p, at)
  PROVE  /\ port' \in [Slots -> [source_connected : BOOLEAN, sink_connected : BOOLEAN, muted : BOOLEAN]]
         /\ portSource' \in [Slots -> Queues \cup {NoQueue}]
         /\ portSink' \in [Slots -> Queues \cup {NoQueue}]
         /\ sinkMuted' \in [Slots -> BOOLEAN]
         /\ endSource' \in [Ends -> Queues \cup {NoQueue}]
         /\ endSink' \in [Ends -> Queues \cup {NoQueue}]
         /\ index' \in [Ends -> Int]
         /\ lost' \subseteq Slots
<1>1. \A e \in Ends : e[1] \in Media /\ e[2] \in Parties
  BY DEF Ends
<1>2. \A s \in SlotsAt(at) : s \in Slots
  BY DEF SlotsAt
<1>3. port' \in [Slots -> [source_connected : BOOLEAN, sink_connected : BOOLEAN, muted : BOOLEAN]]
  BY DEF TypeOK, Plug
<1>4. portSource' \in [Slots -> Queues \cup {NoQueue}]
  BY QueueShape DEF TypeOK, Plug
<1>5. portSink' \in [Slots -> Queues \cup {NoQueue}]
  BY QueueShape DEF TypeOK, Plug
<1>6. sinkMuted' \in [Slots -> BOOLEAN]
  BY DEF TypeOK, Plug
<1>7. endSource' \in [Ends -> Queues \cup {NoQueue}]
  BY <1>2, QueueShape DEF TypeOK, Plug
<1>8. endSink' \in [Ends -> Queues \cup {NoQueue}]
  BY <1>2, QueueShape DEF TypeOK, Plug
<1>9. index' \in [Ends -> Int]
  BY <1>1 DEF TypeOK, Plug
<1>10. lost' \subseteq Slots
  BY DEF TypeOK, Plug
<1>11. QED BY <1>3, <1>4, <1>5, <1>6, <1>7, <1>8, <1>9, <1>10

(* So does taking parties out.                                             *)
LEMMA UnplugEndsType ==
  ASSUME TypeOK, NEW P, UnplugEnds(P)
  PROVE  /\ endSource' \in [Ends -> Queues \cup {NoQueue}]
         /\ endSink' \in [Ends -> Queues \cup {NoQueue}]
         /\ index' \in [Ends -> Int]
BY DEF TypeOK, UnplugEnds, Unplugged

LEMMA UnplugType ==
  ASSUME TypeOK, NEW P, Unplug(P)
  PROVE  /\ port' \in [Slots -> [source_connected : BOOLEAN, sink_connected : BOOLEAN, muted : BOOLEAN]]
         /\ portSource' \in [Slots -> Queues \cup {NoQueue}]
         /\ portSink' \in [Slots -> Queues \cup {NoQueue}]
         /\ sinkMuted' \in [Slots -> BOOLEAN]
         /\ endSource' \in [Ends -> Queues \cup {NoQueue}]
         /\ endSink' \in [Ends -> Queues \cup {NoQueue}]
         /\ index' \in [Ends -> Int]
         /\ lost' \subseteq Slots
<1>1. UnplugEnds(P)
  BY DEF Unplug
<1>2. port' \in [Slots -> [source_connected : BOOLEAN, sink_connected : BOOLEAN, muted : BOOLEAN]]
  BY DEF TypeOK, Unplug
<1>3. portSource' \in [Slots -> Queues \cup {NoQueue}]
  BY DEF TypeOK, Unplug
<1>4. portSink' \in [Slots -> Queues \cup {NoQueue}]
  BY DEF TypeOK, Unplug
<1>5. sinkMuted' \in [Slots -> BOOLEAN]
  BY DEF TypeOK, Unplug
<1>6. lost' \subseteq Slots
  BY DEF TypeOK, Unplug
<1>7. QED BY <1>1, <1>2, <1>3, <1>4, <1>5, <1>6, UnplugEndsType

(* New streams are streams.                                                *)
LEMMA NewStreamsType ==
  ASSUME TypeOK, NEW c \in Calls, NEW M, NewStreams(c, M)
  PROVE  stream' \in [CallEnds -> StreamKinds]
BY DEF TypeOK, NewStreams, StreamKinds

(* Whatever ends the program leaves the types as they are.                 *)
LEMMA AbortType ==
  ASSUME TypeOK, Abort
  PROVE  TypeOK'
BY DEF Abort, TypeOK, conf, ports, calls

-----------------------------------------------------------------------------
(* Every reachable state of the conference, its ports, devices and calls   *)
(* has the types the code declares.                                        *)
THEOREM ConferenceTypeOK == Spec => []TypeOK
<1>1. Init => TypeOK
  <2> SUFFICES ASSUME Init PROVE TypeOK
    OBVIOUS
  <2>1. port \in [Slots -> [source_connected : BOOLEAN, sink_connected : BOOLEAN, muted : BOOLEAN]]
    BY DEF Init, NewPort
  <2>2. index \in [Ends -> Int]
    BY DEF Init, Unplugged
  <2>3. call \in [Calls -> CallStates]
    BY DEF Init, CallStates
  <2>4. stream \in [CallEnds -> StreamKinds]
    BY DEF Init, StreamKinds
  <2>5. QED BY <2>1, <2>2, <2>3, <2>4 DEF Init, TypeOK
<1>2. TypeOK /\ [Next]_vars => TypeOK'
  <2> SUFFICES ASSUME TypeOK, [Next]_vars PROVE TypeOK'
    OBVIOUS
  <2>1. ASSUME NEW b \in BOOLEAN, Start(b) PROVE TypeOK'
    <3>1. {i + 1 : i \in Ports("video")} \subseteq 0 .. TeeOutputs - 1
      <4>1. "video" \in Media
        BY DEF Media
      <4>2. NbPorts("video") \in Nat /\ NbPorts("video") < TeeOutputs
        BY <4>1, PortsAreNumbers, ConferenceAssumption
      <4>3. QED BY <4>2, ConferenceAssumption DEF Ports
    <3>2. teeMuted' \subseteq 0 .. TeeOutputs - 1
      BY <2>1, <3>1, ConferenceAssumption DEF Start
    <3>3. QED BY <2>1, <3>2 DEF Start, NewPorts, NewPort, TypeOK, calls
  <2>2. ASSUME NEW b \in BOOLEAN, EnableAutoLayout(b) PROVE TypeOK'
    <3>1. Ports("video") \subseteq 0 .. TeeOutputs - 1
      BY PortsAreNumbers, ConferenceAssumption DEF Ports, Media
    <3>2. teeMuted' \subseteq 0 .. TeeOutputs - 1
      BY <2>2, <3>1 DEF EnableAutoLayout, TypeOK
    <3>3. QED BY <2>2, <3>2 DEF EnableAutoLayout, TypeOK, ports, calls
  <2>3. ASSUME NEW S, NEW b \in BOOLEAN, SetMuted(S, b) PROVE TypeOK'
    <3>1. port' \in [Slots -> [source_connected : BOOLEAN, sink_connected : BOOLEAN, muted : BOOLEAN]]
      BY <2>3 DEF SetMuted, TypeOK
    <3>2. sinkMuted' \in [Slots -> BOOLEAN]
      BY <2>3 DEF SetMuted, TypeOK
    <3>3. QED BY <2>3, <3>1, <3>2 DEF SetMuted, TypeOK, calls
  <2>4. ASSUME StopAll PROVE TypeOK'
    <3>1. UnplugEnds(members \cup device)
      BY <2>4 DEF StopAll
    <3>2. teeMuted' \subseteq 0 .. TeeOutputs - 1
      BY <2>4 DEF StopAll
    <3>3. call' \in [Calls -> CallStates] /\ inConf' \in [Calls -> BOOLEAN]
      BY <2>4 DEF StopAll, Paused, TypeOK, CallStates
    <3>4. QED
      BY <2>4, <3>1, <3>2, <3>3, UnplugEndsType DEF StopAll, NewPorts, NewPort, TypeOK
  <2>5. ASSUME NEW c \in Calls, AddMember(c) PROVE TypeOK'
    <3>1. PICK a \in Ports("audio") \cup {NoPort}, v \in Ports("video") \cup {NoPort, Unplugged} :
             /\ Plug(c, [m \in Media |-> IF m = "audio" THEN a ELSE v])
             /\ HidePicture([m \in Media |-> IF m = "audio" THEN a ELSE v])
      BY <2>5 DEF AddMember
    <3> DEFINE at == [m \in Media |-> IF m = "audio" THEN a ELSE v]
    <3>2. at \in [Media -> Int]
      BY PortsAreNumbers DEF Media, NoPort, Unplugged
    <3>3. teeMuted' \subseteq 0 .. TeeOutputs - 1
      <4>1. SwitchedPins(at) \subseteq 0 .. TeeOutputs - 1
        BY PortsAreNumbers, ConferenceAssumption DEF SwitchedPins, Ports, Media
      <4>2. QED BY <3>1, <4>1 DEF HidePicture, TypeOK
    <3>4. c \in Parties
      BY DEF Parties
    <3>5. call' \in [Calls -> CallStates] /\ inConf' \in [Calls -> BOOLEAN] /\ members' \subseteq Calls
      BY <2>5 DEF AddMember, TypeOK, CallStates
    <3> HIDE DEF at
    <3>6. Plug(c, at)
      BY <3>1 DEF at
    <3>7. stream' \in [CallEnds -> StreamKinds]
      BY <2>5 DEF AddMember, TypeOK, StreamKinds
    <3>8. QED BY <2>5, <3>2, <3>3, <3>4, <3>5, <3>6, <3>7, PlugType DEF AddMember, TypeOK
  <2>6. ASSUME NEW c \in Calls, TakeOut(c) PROVE
          /\ port' \in [Slots -> [source_connected : BOOLEAN, sink_connected : BOOLEAN, muted : BOOLEAN]]
          /\ portSource' \in [Slots -> Queues \cup {NoQueue}]
          /\ portSink' \in [Slots -> Queues \cup {NoQueue}]
          /\ sinkMuted' \in [Slots -> BOOLEAN]
          /\ endSource' \in [Ends -> Queues \cup {NoQueue}]
          /\ endSink' \in [Ends -> Queues \cup {NoQueue}]
          /\ index' \in [Ends -> Int]
          /\ lost' \subseteq Slots
          /\ teeMuted' \subseteq 0 .. TeeOutputs - 1
          /\ members' \subseteq Calls
          /\ inConf' \in [Calls -> BOOLEAN]
    <3>1. teeMuted' \subseteq 0 .. TeeOutputs - 1 /\ members' \subseteq Calls
      BY <2>6 DEF TakeOut, ShowPicture, TypeOK
    <3>2. inConf' \in [Calls -> BOOLEAN]
      BY <2>6 DEF TakeOut, TypeOK
    <3>3. Unplug({c})
      BY <2>6 DEF TakeOut
    <3>4. QED BY <3>1, <3>2, <3>3, UnplugType
  <2>7. ASSUME NEW c \in Calls, RemoveMember(c) PROVE TypeOK'
    <3>1. CASE Abort
      BY <3>1, AbortType
    <3>2. CASE ~Abort
      <4>1. TakeOut(c) /\ Paused({c}) /\ UNCHANGED <<running, auto_layout, device, stream, aborted>>
        BY <2>7, <3>2 DEF RemoveMember
      <4>2. call' \in [Calls -> CallStates]
        BY <4>1 DEF Paused, TypeOK, CallStates
      <4>3. QED BY <2>6, <4>1, <4>2 DEF TypeOK
    <3>3. QED BY <3>1, <3>2
  <2>8. CASE AddSndCard
    <3>1. PICK i \in Ports("audio") :
             Plug(SndCard, [m \in Media |-> IF m = "audio" THEN i ELSE Unplugged])
      BY <2>8 DEF AddSndCard
    <3> DEFINE at == [m \in Media |-> IF m = "audio" THEN i ELSE Unplugged]
    <3>2. at \in [Media -> Int]
      BY PortsAreNumbers DEF Media, Unplugged
    <3>3. SndCard \in Parties
      BY DEF Parties
    <3> HIDE DEF at
    <3>4. Plug(SndCard, at)
      BY <3>1 DEF at
    <3>5. QED BY <2>8, <3>2, <3>3, <3>4, PlugType DEF AddSndCard, TypeOK, calls
  <2>9. CASE RemoveSndCard
    BY <2>9, UnplugType DEF RemoveSndCard, TypeOK, calls
  <2>10. ASSUME NEW w \in Webcams, AddWebcam(w) PROVE TypeOK'
    <3>1. PICK i \in Ports("video") :
             /\ Plug(w, [m \in Media |-> IF m = "video" THEN i ELSE Unplugged])
             /\ HidePicture([m \in Media |-> IF m = "video" THEN i ELSE Unplugged])
      BY <2>10 DEF AddWebcam
    <3> DEFINE at == [m \in Media |-> IF m = "video" THEN i ELSE Unplugged]
    <3>2. at \in [Media -> Int]
      BY PortsAreNumbers DEF Media, Unplugged
    <3>3. teeMuted' \subseteq 0 .. TeeOutputs - 1
      <4>1. SwitchedPins(at) \subseteq 0 .. TeeOutputs - 1
        BY PortsAreNumbers, ConferenceAssumption DEF SwitchedPins, Ports, Media
      <4>2. QED BY <3>1, <4>1 DEF HidePicture, TypeOK
    <3>4. w \in Parties
      BY DEF Parties
    <3> HIDE DEF at
    <3>5. Plug(w, at)
      BY <3>1 DEF at
    <3>6. QED BY <2>10, <3>2, <3>3, <3>4, <3>5, PlugType DEF AddWebcam, TypeOK, calls
  <2>11. ASSUME NEW w \in Webcams, RemoveWebcam(w) PROVE TypeOK'
    <3>1. teeMuted' \subseteq 0 .. TeeOutputs - 1
      BY <2>11 DEF RemoveWebcam, ShowPicture, TypeOK
    <3>2. QED BY <2>11, <3>1, UnplugType DEF RemoveWebcam, TypeOK, calls
  <2>12. CASE RemoveAllWebcams
    BY <2>12, UnplugType DEF RemoveAllWebcams, TypeOK, calls
  <2>13. ASSUME NEW c \in Calls, CallStreamsRunning(c) PROVE TypeOK'
    <3>1. stream' \in [CallEnds -> StreamKinds]
      BY <2>13, NewStreamsType DEF CallStreamsRunning
    <3>2. call' \in [Calls -> CallStates]
      BY <2>13 DEF CallStreamsRunning, TypeOK, CallStates
    <3>3. QED BY <2>13, <3>1, <3>2 DEF CallStreamsRunning, TypeOK, conf, ports
  <2>14. ASSUME NEW c \in Calls, CallUpdated(c) PROVE TypeOK'
    <3>1. stream' \in [CallEnds -> StreamKinds]
      BY <2>14, NewStreamsType DEF CallUpdated
    <3>2. QED BY <2>14, <3>1 DEF CallUpdated, TypeOK
  <2>15. ASSUME NEW c \in Calls, CallPaused(c) PROVE TypeOK'
    <3>1. stream' \in [CallEnds -> StreamKinds]
      BY <2>15, NewStreamsType DEF CallPaused
    <3>2. call' \in [Calls -> CallStates]
      BY <2>15 DEF CallPaused, TypeOK, CallStates
    <3>3. QED BY <2>15, <3>1, <3>2 DEF CallPaused, TypeOK, conf, ports
  <2>16. ASSUME NEW c \in Calls, CallTerminated(c) PROVE TypeOK'
    <3>1. CASE Abort
      BY <3>1, AbortType
    <3>2. CASE ~Abort
      <4>1. /\ call' = [call EXCEPT ![c] = "Idle"]
            /\ NewStreams(c, {})
            /\ UNCHANGED <<running, auto_layout, device, aborted>>
            /\ TakeOut(c) \/ UNCHANGED <<ports, teeMuted, members, inConf>>
        BY <2>16, <3>2 DEF CallTerminated
      <4>2. call' \in [Calls -> CallStates] /\ stream' \in [CallEnds -> StreamKinds]
        BY <4>1, NewStreamsType DEF TypeOK, CallStates
      <4>3. CASE TakeOut(c)
        BY <2>6, <4>1, <4>2, <4>3 DEF TypeOK
      <4>4. CASE UNCHANGED <<ports, teeMuted, members, inConf>>
        BY <4>1, <4>2, <4>4 DEF TypeOK, ports
      <4>5. QED BY <4>1, <4>3, <4>4
    <3>3. QED BY <3>1, <3>2
  <2>17. CASE UNCHANGED vars
    BY <2>17 DEF vars, conf, ports, calls, TypeOK
  <2>18. CASE Stop
    BY <2>4, <2>18, AbortType DEF Stop
  <2>19. QED
    BY <2>1, <2>2, <2>3, <2>5, <2>7, <2>8, <2>9, <2>10, <2>11, <2>12, <2>13, <2>14,
       <2>15, <2>16, <2>17, <2>18 DEF Next, MuteAllOutputs, MuteOutput
<1>3. QED BY <1>1, <1>2, PTL DEF Spec

-----------------------------------------------------------------------------
(***************************************************************************)
(* The wiring.  What a party's indexes name it holds; Plug adds a holder,  *)
(* Unplug takes holders away, and flags and filters follow.                *)
(***************************************************************************)

(* A slot number is never the mark of an unplugged filter.                 *)
LEMMA SlotsAreNotMarks ==
  ASSUME NEW s \in Slots
  PROVE  s[2] # Unplugged /\ s[2] # NoPort
BY SlotShape, PortsAreNumbers DEF Unplugged, NoPort

(* The ends of the parties, one per medium.                                *)
LEMMA EndShape ==
  /\ \A e \in Ends : e = <<e[1], e[2]>> /\ e[1] \in Media /\ e[2] \in Parties
  /\ \A m \in Media : \A p \in Parties : <<m, p>> \in Ends
BY DEF Ends

(* Plugging a party that holds nothing into unused ports keeps the wiring, *)
(* when its streams there get the filters of the conference.               *)
LEMMA PlugWired ==
  ASSUME TypeOK, Wired,
         NEW p \in Parties, NEW at \in [Media -> Int], Plug(p, at),
         \A m \in Media : index[<<m, p>>] = Unplugged,
         \A s \in SlotsAt(at) : ~InUsed(s),
         \A e \in Ends : e[2] # p => HasItc(e)' = HasItc(e),
         \A e \in Ends : e[2] = p /\ <<e[1], at[e[1]]>> \in Slots => HasItc(e)'
  PROVE  Wired'
<1>1. ASSUME NEW q \in Parties, NEW s \in Slots
      PROVE  Holds(q, s)' <=> IF q = p THEN s \in SlotsAt(at) ELSE Holds(q, s)
  <2>1. <<s[1], q>> \in Ends
    BY SlotShape, EndShape
  <2>2. index'[<<s[1], q>>] = IF q = p THEN at[s[1]] ELSE index[<<s[1], q>>]
    BY <2>1 DEF Plug
  <2>3. QED BY <2>2 DEF Holds, SlotsAt
<1>2. ASSUME NEW s \in Slots PROVE ~Holds(p, s)
  BY SlotsAreNotMarks, SlotShape DEF Holds
<1>3. ASSUME NEW s \in SlotsAt(at) PROVE s \in Slots /\ ~Held(s) /\ s \notin lost
  BY DEF Wired, FlagsShowHolder, Taken, InUsed, SlotsAt
<1>4. ASSUME NEW s \in Slots
      PROVE  /\ Held(s)' <=> s \in SlotsAt(at) \/ Held(s)
             /\ Taken(s)' <=> s \in SlotsAt(at) \/ Taken(s)
  <2>1. Held(s)' <=> s \in SlotsAt(at) \/ Held(s)
    BY <1>1, <1>2 DEF Held
  <2>2. lost' = lost
    BY DEF Plug
  <2>3. QED BY <2>1, <2>2 DEF Taken
<1>5. OneHolder'
  <2> SUFFICES ASSUME NEW s \in Slots, NEW q \in Parties, NEW r \in Parties,
                      Holds(q, s)', Holds(r, s)'
               PROVE  q = r
    BY DEF OneHolder
  <2>1. CASE s \in SlotsAt(at)
    BY <1>1, <1>3, <2>1 DEF Held
  <2>2. CASE s \notin SlotsAt(at)
    BY <1>1, <2>2 DEF Wired, OneHolder
  <2>3. QED BY <2>1, <2>2
<1>6. FlagsShowHolder'
  <2> SUFFICES ASSUME NEW s \in Slots
               PROVE  port'[s].source_connected = Taken(s)' /\ port'[s].sink_connected = Taken(s)'
    BY DEF FlagsShowHolder
  <2>1. port'[s] = IF s \in SlotsAt(at)
                   THEN [port[s] EXCEPT !.source_connected = TRUE, !.sink_connected = TRUE]
                   ELSE port[s]
    BY DEF Plug
  <2>2. port[s] \in [source_connected : BOOLEAN, sink_connected : BOOLEAN, muted : BOOLEAN]
    BY DEF TypeOK
  <2>3. /\ port'[s].source_connected = (s \in SlotsAt(at) \/ port[s].source_connected)
        /\ port'[s].sink_connected = (s \in SlotsAt(at) \/ port[s].sink_connected)
    BY <2>1, <2>2
  <2>4. port[s].source_connected = Taken(s) /\ port[s].sink_connected = Taken(s)
    BY DEF Wired, FlagsShowHolder
  <2>5. Taken(s)' = (s \in SlotsAt(at) \/ Taken(s))
    BY <1>4 DEF Taken
  <2>6. QED BY <2>3, <2>4, <2>5
<1>7. PortsWired'
  <2> SUFFICES ASSUME NEW s \in Slots
               PROVE  /\ portSource'[s] = IF Taken(s)' THEN In(s) ELSE NoQueue
                      /\ portSink'[s] = IF s \in lost' \/ \E q \in Parties \ Webcams : Holds(q, s)'
                                        THEN Out(s) ELSE NoQueue
    BY DEF PortsWired, In, Out
  <2>1. portSource[s] = (IF Taken(s) THEN In(s) ELSE NoQueue)
    BY DEF Wired, PortsWired
  <2>2. portSource'[s] = IF s \in SlotsAt(at) THEN In(s) ELSE portSource[s]
    BY DEF Plug
  <2>3. portSource'[s] = IF Taken(s)' THEN In(s) ELSE NoQueue
    BY <2>1, <2>2, <1>4
  <2>4. portSink[s] = (IF s \in lost \/ \E q \in Parties \ Webcams : Holds(q, s)
                       THEN Out(s) ELSE NoQueue)
    BY DEF Wired, PortsWired
  <2>5. portSink'[s] = IF s \in SlotsAt(at) /\ p \notin Webcams THEN Out(s) ELSE portSink[s]
    BY DEF Plug
  <2>6. (\E q \in Parties \ Webcams : Holds(q, s)')
          <=> (s \in SlotsAt(at) /\ p \notin Webcams) \/ \E q \in Parties \ Webcams : Holds(q, s)
    BY <1>1, <1>2
  <2>7. lost' = lost
    BY DEF Plug
  <2>8. QED BY <2>3, <2>4, <2>5, <2>6, <2>7
<1>8. EndsWired'
  <2> SUFFICES ASSUME NEW e \in Ends
               PROVE  LET s == <<e[1], index'[e]>> IN
                      /\ endSink'[e] = IF s \in Slots /\ HasItc(e)' THEN In(s) ELSE NoQueue
                      /\ endSource'[e] = IF s \in Slots /\ HasItc(e)' /\ e[2] \notin Webcams
                                         THEN Out(s) ELSE NoQueue
    BY DEF EndsWired, In, Out, Slots, Ports, NbPorts
  <2> DEFINE old == <<e[1], index[e]>>
             new == <<e[1], at[e[1]]>>
  <2>1. /\ endSink[e] = IF old \in Slots /\ HasItc(e) THEN In(old) ELSE NoQueue
        /\ endSource[e] = IF old \in Slots /\ HasItc(e) /\ e[2] \notin Webcams
                          THEN Out(old) ELSE NoQueue
    BY DEF Wired, EndsWired
  <2>2. new \in Slots <=> new \in SlotsAt(at)
    BY DEF SlotsAt
  <2>3. /\ index'[e] = IF e[2] = p THEN at[e[1]] ELSE index[e]
        /\ endSink'[e] = IF e[2] = p /\ new \in SlotsAt(at) THEN In(new) ELSE endSink[e]
        /\ endSource'[e] = IF (e[2] = p /\ new \in SlotsAt(at)) /\ p \notin Webcams
                           THEN Out(new) ELSE endSource[e]
    BY DEF Plug
  <2>4. CASE e[2] = p
    <3>1. index[e] = Unplugged
      BY <2>4, EndShape
    <3>2. old \notin Slots
      BY <3>1, SlotsAreNotMarks
    <3>3. new \in Slots => HasItc(e)'
      BY <2>4
    <3> HIDE DEF old, new
    <3>4. QED BY <2>1, <2>2, <2>3, <2>4, <3>2, <3>3 DEF new
  <2>5. CASE e[2] # p
    <3>1. HasItc(e)' = HasItc(e)
      BY <2>5
    <3>2. QED BY <2>1, <2>3, <2>5, <3>1
  <2>6. QED BY <2>4, <2>5
<1>9. LostAreNobodys'
  <2> SUFFICES ASSUME NEW s \in lost' PROVE ~Held(s)'
    BY DEF LostAreNobodys
  <2>1. s \in lost /\ s \in Slots
    BY DEF Plug, TypeOK
  <2>2. ~Held(s) /\ s \notin SlotsAt(at)
    BY <2>1, <1>3 DEF Wired, LostAreNobodys
  <2>3. QED BY <1>4, <2>1, <2>2
<1>10. QED BY <1>5, <1>6, <1>7, <1>8, <1>9 DEF Wired

(* Taking parties out, whatever they hold, keeps the wiring.               *)
LEMMA UnplugWired ==
  ASSUME TypeOK, Wired, NEW P \in SUBSET Parties, Unplug(P),
         \A e \in Ends : e[2] \notin P => HasItc(e)' = HasItc(e)
  PROVE  Wired'
<1> DEFINE S(Q) == UNION {SlotsAt(IndexOf(p)) : p \in Q}
           New == {s \in Slots : \E p \in P : Holds(p, s) /\ Streamless(s[1], p)}
<1>1. ASSUME NEW q \in Parties, NEW s \in Slots
      PROVE  Holds(q, s)' <=> q \notin P /\ Holds(q, s)
  <2>1. <<s[1], q>> \in Ends
    BY SlotShape, EndShape
  <2>2. index'[<<s[1], q>>] = IF q \in P THEN Unplugged ELSE index[<<s[1], q>>]
    BY <2>1 DEF Unplug, UnplugEnds
  <2>3. QED BY <2>2, SlotsAreNotMarks DEF Holds
<1>2. ASSUME NEW Q \in SUBSET Parties, NEW s \in Slots
      PROVE  s \in S(Q) <=> \E q \in Q : Holds(q, s) /\ ~Streamless(s[1], q)
  <2>1. ASSUME NEW q \in Parties
        PROVE  s \in SlotsAt(IndexOf(q)) <=> Holds(q, s) /\ ~Streamless(s[1], q)
    <3>1. IndexOf(q)[s[1]] = IF Streamless(s[1], q) THEN Unplugged ELSE index[<<s[1], q>>]
      BY SlotShape DEF IndexOf
    <3>2. s \in SlotsAt(IndexOf(q)) <=> IndexOf(q)[s[1]] = s[2]
      BY DEF SlotsAt
    <3>3. QED BY <3>1, <3>2, SlotsAreNotMarks DEF Holds
  <2>2. QED BY <2>1
<1>3. ASSUME NEW s \in Slots, NEW q \in P, Holds(q, s) PROVE ~Held(s)'
  BY <1>1, <1>3 DEF Held, Wired, OneHolder
<1>4. lost' = lost \cup New
  BY DEF Unplug, Holds
<1> HIDE DEF S, New
<1>5. ASSUME NEW s \in Slots
      PROVE  s \in New <=> \E p \in P : Holds(p, s) /\ Streamless(s[1], p)
  BY DEF New
<1>6. ASSUME NEW s \in Slots PROVE s \in lost => ~Held(s)
  BY DEF Wired, LostAreNobodys
<1>7. ASSUME NEW s \in Slots PROVE Taken(s)' <=> s \notin S(P) /\ Taken(s)
  <2>1. CASE s \in S(P)
    <3>1. PICK q \in P : Holds(q, s) /\ ~Streamless(s[1], q)
      BY <1>2, <2>1
    <3>2. s \notin lost
      BY <1>6, <3>1 DEF Held
    <3>3. s \notin New
      BY <1>5, <3>1 DEF Wired, OneHolder
    <3>4. QED BY <1>3, <1>4, <2>1, <3>1, <3>2, <3>3 DEF Taken
  <2>2. CASE s \notin S(P)
    <3>1. \A q \in P : Holds(q, s) => Streamless(s[1], q)
      BY <1>2, <2>2
    <3>2. s \in New <=> \E q \in P : Holds(q, s)
      BY <1>5, <3>1
    <3>3. Held(s)' <=> \E q \in Parties \ P : Holds(q, s)
      BY <1>1 DEF Held
    <3>4. Held(s) <=> s \in New \/ Held(s)'
      BY <3>2, <3>3 DEF Held
    <3>5. QED BY <1>4, <2>2, <3>4 DEF Taken
  <2>3. QED BY <2>1, <2>2
<1>8. OneHolder'
  BY <1>1 DEF OneHolder, Wired, Slots, Ports, NbPorts
<1>9. FlagsShowHolder'
  <2> SUFFICES ASSUME NEW s \in Slots
               PROVE  port'[s].source_connected = Taken(s)' /\ port'[s].sink_connected = Taken(s)'
    BY DEF FlagsShowHolder
  <2>1. port'[s] = IF s \in S(P)
                   THEN [port[s] EXCEPT !.source_connected = FALSE, !.sink_connected = FALSE]
                   ELSE port[s]
    BY DEF Unplug, S
  <2>2. port[s] \in [source_connected : BOOLEAN, sink_connected : BOOLEAN, muted : BOOLEAN]
    BY DEF TypeOK
  <2>3. /\ port'[s].source_connected = (s \notin S(P) /\ port[s].source_connected)
        /\ port'[s].sink_connected = (s \notin S(P) /\ port[s].sink_connected)
    BY <2>1, <2>2
  <2>4. port[s].source_connected = Taken(s) /\ port[s].sink_connected = Taken(s)
    BY DEF Wired, FlagsShowHolder
  <2>5. Taken(s)' = (s \notin S(P) /\ Taken(s))
    BY <1>7 DEF Taken
  <2>6. QED BY <2>3, <2>4, <2>5
<1>10. PortsWired'
  <2> SUFFICES ASSUME NEW s \in Slots
               PROVE  /\ portSource'[s] = IF Taken(s)' THEN In(s) ELSE NoQueue
                      /\ portSink'[s] = IF s \in lost' \/ \E q \in Parties \ Webcams : Holds(q, s)'
                                        THEN Out(s) ELSE NoQueue
    BY DEF PortsWired, In, Out
  <2>1. portSource[s] = (IF Taken(s) THEN In(s) ELSE NoQueue)
    BY DEF Wired, PortsWired
  <2>2. portSource'[s] = IF s \in S(P) THEN NoQueue ELSE portSource[s]
    BY DEF Unplug, S
  <2>3. portSource'[s] = IF Taken(s)' THEN In(s) ELSE NoQueue
    BY <2>1, <2>2, <1>7
  <2>4. portSink[s] = (IF s \in lost \/ \E q \in Parties \ Webcams : Holds(q, s)
                       THEN Out(s) ELSE NoQueue)
    BY DEF Wired, PortsWired
  <2>5. portSink'[s] = IF s \in S(P \ Webcams) THEN NoQueue ELSE portSink[s]
    BY DEF Unplug, S
  <2>6. (s \in lost' \/ \E q \in Parties \ Webcams : Holds(q, s)')
          <=> s \notin S(P \ Webcams) /\ (s \in lost \/ \E q \in Parties \ Webcams : Holds(q, s))
    <3>1. s \in S(P \ Webcams) <=> \E q \in P \ Webcams : Holds(q, s) /\ ~Streamless(s[1], q)
      BY <1>2
    <3>2. CASE s \in S(P \ Webcams)
      <4>1. PICK q \in P \ Webcams : Holds(q, s) /\ ~Streamless(s[1], q)
        BY <3>1, <3>2
      <4>2. s \notin lost /\ s \notin New
        BY <1>5, <1>6, <4>1 DEF Held, Wired, OneHolder
      <4>3. ~Held(s)'
        BY <1>3, <4>1
      <4>4. QED BY <1>4, <3>2, <4>2, <4>3 DEF Held
    <3>3. CASE s \notin S(P \ Webcams)
      <4>1. ASSUME NEW q \in P \ Webcams, Holds(q, s) PROVE s \in New
        BY <1>5, <3>1, <3>3, <4>1
      <4>2. s \in New => \E q \in Parties \ Webcams : Holds(q, s)
        BY <1>5, ConferenceAssumption DEF Streamless
      <4>3. ASSUME NEW q \in Parties \ Webcams, Holds(q, s) PROVE s \in New \/ Holds(q, s)'
        BY <1>1, <4>1, <4>3
      <4>4. ASSUME NEW q \in Parties \ Webcams, Holds(q, s)' PROVE Holds(q, s)
        BY <1>1, <4>4
      <4>5. QED BY <1>4, <3>3, <4>2, <4>3, <4>4
    <3>4. QED BY <3>2, <3>3
  <2>7. QED BY <2>3, <2>4, <2>5, <2>6
<1>11. EndsWired'
  <2> SUFFICES ASSUME NEW e \in Ends
               PROVE  LET s == <<e[1], index'[e]>> IN
                      /\ endSink'[e] = IF s \in Slots /\ HasItc(e)' THEN In(s) ELSE NoQueue
                      /\ endSource'[e] = IF s \in Slots /\ HasItc(e)' /\ e[2] \notin Webcams
                                         THEN Out(s) ELSE NoQueue
    BY DEF EndsWired, In, Out, Slots, Ports, NbPorts
  <2> DEFINE old == <<e[1], index[e]>>
  <2>1. /\ endSink[e] = IF old \in Slots /\ HasItc(e) THEN In(old) ELSE NoQueue
        /\ endSource[e] = IF old \in Slots /\ HasItc(e) /\ e[2] \notin Webcams
                          THEN Out(old) ELSE NoQueue
    BY DEF Wired, EndsWired
  <2>2. /\ index'[e] = IF e[2] \in P THEN Unplugged ELSE index[e]
        /\ endSink'[e] = IF e[2] \in P /\ old \in Slots THEN NoQueue ELSE endSink[e]
        /\ endSource'[e] = IF e[2] \in P /\ old \in Slots THEN NoQueue ELSE endSource[e]
    BY DEF Unplug, UnplugEnds
  <2>3. <<e[1], Unplugged>> \notin Slots
    BY SlotsAreNotMarks
  <2>4. CASE e[2] \in P
    BY <2>1, <2>2, <2>3, <2>4
  <2>5. CASE e[2] \notin P
    <3>1. HasItc(e)' = HasItc(e)
      BY <2>5
    <3>2. QED BY <2>1, <2>2, <2>5, <3>1
  <2>6. QED BY <2>4, <2>5
<1>12. LostAreNobodys'
  <2> SUFFICES ASSUME NEW s \in lost' PROVE ~Held(s)'
    BY DEF LostAreNobodys
  <2>1. s \in Slots
    BY <1>4 DEF TypeOK, New
  <2>2. CASE s \in lost
    BY <1>1, <1>6, <2>1, <2>2 DEF Held
  <2>3. CASE s \in New
    BY <1>3, <1>5, <2>1, <2>3
  <2>4. QED BY <1>4, <2>2, <2>3
<1>13. QED BY <1>8, <1>9, <1>10, <1>11, <1>12 DEF Wired

(* With nobody plugged in and new ports, everything is disconnected.       *)
NothingPlugged ==
  /\ \A e \in Ends : index[e] = Unplugged /\ endSink[e] = NoQueue /\ endSource[e] = NoQueue
  /\ \A s \in Slots : port[s] = NewPort /\ portSource[s] = NoQueue /\ portSink[s] = NoQueue
  /\ lost = {}

LEMMA NothingWired == NothingPlugged => Wired
<1> SUFFICES ASSUME NothingPlugged PROVE Wired
  OBVIOUS
<1> USE DEF NothingPlugged
<1>1. ASSUME NEW s \in Slots, NEW p \in Parties PROVE ~Holds(p, s)
  BY SlotsAreNotMarks, SlotShape, EndShape DEF Holds
<1>2. OneHolder
  BY <1>1 DEF OneHolder
<1>3. FlagsShowHolder
  <2> SUFFICES ASSUME NEW s \in Slots
               PROVE  port[s].source_connected = Taken(s) /\ port[s].sink_connected = Taken(s)
    BY DEF FlagsShowHolder
  <2>1. Taken(s) = FALSE
    BY <1>1 DEF Taken, Held
  <2>2. port[s].source_connected = FALSE /\ port[s].sink_connected = FALSE
    BY DEF NewPort
  <2>3. QED BY <2>1, <2>2
<1>4. PortsWired
  BY <1>1 DEF PortsWired, Taken, Held
<1>5. EndsWired
  BY SlotsAreNotMarks DEF EndsWired
<1>6. LostAreNobodys
  BY DEF LostAreNobodys
<1>7. QED BY <1>2, <1>3, <1>4, <1>5, <1>6 DEF Wired

(* Whoever is neither a member nor a device of the conference has no port. *)
LEMMA AbsentIsUnplugged ==
  ASSUME Presence, NEW p \in Parties, p \notin members \cup device
  PROVE  \A m \in Media : index[<<m, p>>] = Unplugged
BY EndShape DEF Presence, MembershipAgrees

(* What looking for a free port yields is a port nobody uses, or no port.  *)
LEMMA FoundIsUnused ==
  ASSUME NEW at \in [Media -> Int],
         \A m \in Media : FindFree(m, at[m]) \/ at[m] = Unplugged
  PROVE  \A s \in SlotsAt(at) : ~InUsed(s)
<1> SUFFICES ASSUME NEW s \in SlotsAt(at) PROVE ~InUsed(s)
  OBVIOUS
<1>1. s \in Slots /\ at[s[1]] = s[2]
  BY DEF SlotsAt
<1>2. at[s[1]] # Unplugged /\ at[s[1]] # NoPort
  BY <1>1, SlotsAreNotMarks
<1>3. s[2] \in FreePorts(s[1])
  BY <1>1, <1>2, SlotShape DEF FindFree
<1>4. QED BY <1>1, <1>3, SlotShape DEF FreePorts

(* Calls, webcams and the sound card are different parties.                *)
LEMMA PartiesDiffer ==
  ASSUME TypeOK
  PROVE  members \cap device = {} /\ members \cup device \subseteq Parties
BY ConferenceAssumption DEF TypeOK, Parties

(* Taking a member out leaves the others as they are.                      *)
LEMMA TakeOutPresence ==
  ASSUME TypeOK, Presence, NEW c \in Calls, TakeOut(c)
  PROVE  /\ \A e \in Ends : index'[e] # Unplugged => e[2] \in members' \cup device
         /\ members' = members \ {c}
         /\ inConf' = [inConf EXCEPT ![c] = FALSE]
<1>1. \A e \in Ends : index'[e] = IF e[2] \in {c} THEN Unplugged ELSE index[e]
  BY DEF TakeOut, Unplug, UnplugEnds
<1>2. QED BY <1>1 DEF TakeOut, Presence, MembershipAgrees

-----------------------------------------------------------------------------
(* In every reachable state each port has at most one holder, the flags    *)
(* and filters of ports and parties are what the holders' indexes say, and *)
(* only parties that are present hold ports.                               *)
THEOREM ConferenceInvariant == Spec => []ConferenceInv
<1>1. Init => Wired /\ Presence
  <2> SUFFICES ASSUME Init PROVE Wired /\ Presence
    OBVIOUS
  <2>1. Wired
    BY NothingWired DEF Init, NothingPlugged
  <2>2. Presence
    BY DEF Init, Presence, MembershipAgrees, Unplugged
  <2>3. QED BY <2>1, <2>2
<1>2. TypeOK /\ Wired /\ Presence /\ [Next]_vars => Wired' /\ Presence'
  <2> SUFFICES ASSUME TypeOK, Wired, Presence, [Next]_vars PROVE Wired' /\ Presence'
    OBVIOUS
  <2>0. NothingPlugged' => Wired'
    BY NothingWired, PTL
  <2> DEFINE SameItc(P) == \A e \in Ends : e[2] \notin P => HasItc(e)' = HasItc(e)
  <2>a. ASSUME UNCHANGED stream PROVE \A P \in SUBSET Parties : SameItc(P)
    BY <2>a DEF HasItc
  <2>b. ASSUME NEW c \in Calls, NEW M, NewStreams(c, M) PROVE SameItc({c})
    <3> SUFFICES ASSUME NEW e \in Ends, e[2] # c PROVE HasItc(e)' = HasItc(e)
      OBVIOUS
    <3>1. CASE e[2] \in Calls
      <4>1. e \in CallEnds
        BY <3>1, EndShape DEF CallEnds
      <4>2. stream'[e] = stream[e]
        BY <2>b, <4>1 DEF NewStreams
      <4>3. QED BY <4>2 DEF HasItc
    <3>2. CASE e[2] \notin Calls
      BY <3>2 DEF HasItc
    <3>3. QED BY <3>1, <3>2
  <2>1. ASSUME UNCHANGED ports, UNCHANGED stream PROVE Wired'
    BY <2>1 DEF ports, Wired, OneHolder, FlagsShowHolder, PortsWired, EndsWired, LostAreNobodys,
                Taken, Held, Holds, HasItc
  <2>c. ASSUME Abort PROVE Wired' /\ Presence'
    <3>1. UNCHANGED <<running, ports, members, device, call, stream, inConf>>
      BY <2>c DEF Abort, conf, calls
    <3>2. QED BY <2>1, <3>1 DEF ports, Presence, MembershipAgrees
  <2>d. ASSUME NEW c \in Calls, c \notin members, NEW M, NewStreams(c, M),
               UNCHANGED <<port, portSource, portSink, index, lost>>,
               UNCHANGED <<endSource, endSink>>
        PROVE  Wired'
    <3>1. OneHolder' /\ FlagsShowHolder' /\ PortsWired' /\ LostAreNobodys'
      BY <2>d DEF Wired, OneHolder, FlagsShowHolder, PortsWired, LostAreNobodys, Taken, Held, Holds
    <3>2. EndsWired'
      <4> SUFFICES ASSUME NEW e \in Ends
                   PROVE  LET s == <<e[1], index'[e]>> IN
                          /\ endSink'[e] = IF s \in Slots /\ HasItc(e)' THEN In(s) ELSE NoQueue
                          /\ endSource'[e] = IF s \in Slots /\ HasItc(e)' /\ e[2] \notin Webcams
                                             THEN Out(s) ELSE NoQueue
        BY DEF EndsWired, In, Out, Slots, Ports, NbPorts
      <4> DEFINE s == <<e[1], index[e]>>
      <4>1. /\ endSink[e] = IF s \in Slots /\ HasItc(e) THEN In(s) ELSE NoQueue
            /\ endSource[e] = IF s \in Slots /\ HasItc(e) /\ e[2] \notin Webcams
                              THEN Out(s) ELSE NoQueue
        BY DEF Wired, EndsWired
      <4>2. index'[e] = index[e]
        BY <2>d
      <4>3. CASE e[2] = c
        <5>1. index[e] = Unplugged
          BY <2>d, <4>3, ConferenceAssumption DEF Presence, TypeOK
        <5>2. s \notin Slots
          BY <5>1, SlotsAreNotMarks
        <5>3. endSink[e] = NoQueue /\ endSource[e] = NoQueue
          BY <4>1, <5>2
        <5>4. endSink'[e] = NoQueue /\ endSource'[e] = NoQueue
          BY <2>d, <5>3
        <5> HIDE DEF s
        <5>5. QED BY <4>2, <5>2, <5>4 DEF s
      <4>4. CASE e[2] # c
        <5>1. HasItc(e)' = HasItc(e)
          BY <2>b, <2>d, <4>4
        <5>2. endSource'[e] = endSource[e] /\ endSink'[e] = endSink[e]
          BY <2>d
        <5>3. QED BY <4>1, <4>2, <5>1, <5>2
      <4>5. QED BY <4>3, <4>4
    <3>3. QED BY <3>1, <3>2 DEF Wired
  <2>2. ASSUME NEW b \in BOOLEAN, Start(b) PROVE Wired' /\ Presence'
    <3>1. \A e \in Ends : index[e] = Unplugged
      BY <2>2 DEF Start, Presence, MembershipAgrees
    <3>2. \A e \in Ends : endSink[e] = NoQueue /\ endSource[e] = NoQueue
      BY <3>1, SlotsAreNotMarks DEF Wired, EndsWired
    <3>3. \A e \in Ends : /\ index'[e] = Unplugged
                          /\ endSink'[e] = NoQueue /\ endSource'[e] = NoQueue
      BY <2>2, <3>1, <3>2 DEF Start
    <3>4. /\ \A s \in Slots : /\ port'[s] = NewPort
                              /\ portSource'[s] = NoQueue /\ portSink'[s] = NoQueue
          /\ lost' = {}
      BY <2>2 DEF Start, NewPorts
    <3>5. Wired'
      BY <2>0, <3>3, <3>4 DEF NothingPlugged
    <3>6. Presence'
      BY <2>2, <3>3 DEF Start, calls, Presence, MembershipAgrees
    <3>7. QED BY <3>5, <3>6
  <2>3. ASSUME NEW b \in BOOLEAN, EnableAutoLayout(b) PROVE Wired' /\ Presence'
    BY <2>1, <2>3 DEF EnableAutoLayout, ports, calls, Up, Presence, MembershipAgrees
  <2>4. ASSUME NEW S, NEW b \in BOOLEAN, SetMuted(S, b) PROVE Wired' /\ Presence'
    <3>1. \A s \in Slots : /\ port'[s].source_connected = port[s].source_connected
                           /\ port'[s].sink_connected = port[s].sink_connected
      BY <2>4 DEF SetMuted, TypeOK
    <3>2. UNCHANGED <<portSource, portSink, endSource, endSink, index, lost, stream>>
      BY <2>4 DEF SetMuted, calls
    <3>3. OneHolder' /\ PortsWired' /\ EndsWired' /\ LostAreNobodys'
      BY <3>2 DEF Wired, OneHolder, PortsWired, EndsWired, LostAreNobodys, Taken, Held, Holds, HasItc
    <3>4. FlagsShowHolder'
      BY <3>1, <3>2 DEF Wired, FlagsShowHolder, Taken, Held, Holds
    <3>5. Presence'
      BY <2>4 DEF SetMuted, calls, Up, Presence, MembershipAgrees
    <3>6. QED BY <3>3, <3>4, <3>5 DEF Wired
  <2>5. ASSUME StopAll PROVE Wired' /\ Presence'
    <3>1. \A e \in Ends :
            /\ index'[e] = IF e[2] \in members \cup device THEN Unplugged ELSE index[e]
            /\ endSink'[e] = IF e[2] \in members \cup device /\ <<e[1], index[e]>> \in Slots
                             THEN NoQueue ELSE endSink[e]
            /\ endSource'[e] = IF e[2] \in members \cup device /\ <<e[1], index[e]>> \in Slots
                               THEN NoQueue ELSE endSource[e]
      BY <2>5 DEF StopAll, UnplugEnds
    <3>2. \A e \in Ends : index'[e] = Unplugged
      BY <3>1 DEF Presence, MembershipAgrees
    <3>3. \A e \in Ends : endSink'[e] = NoQueue /\ endSource'[e] = NoQueue
      BY <3>1, SlotsAreNotMarks DEF Presence, MembershipAgrees, Wired, EndsWired
    <3>4. /\ \A s \in Slots : /\ port'[s] = NewPort
                              /\ portSource'[s] = NoQueue /\ portSink'[s] = NoQueue
          /\ lost' = {}
      BY <2>5 DEF StopAll, NewPorts
    <3>5. Wired'
      BY <2>0, <3>2, <3>3, <3>4 DEF NothingPlugged
    <3>6. \A c \in Calls : call'[c] # "InConferencing" /\ ~inConf'[c]
      BY <2>5 DEF StopAll, Paused, Presence, MembershipAgrees
    <3>7. QED BY <2>5, <3>2, <3>5, <3>6 DEF StopAll, Presence, MembershipAgrees
  <2>6. ASSUME NEW c \in Calls, AddMember(c) PROVE Wired' /\ Presence'
    <3>1. PICK a \in Ports("audio") \cup {NoPort}, v \in Ports("video") \cup {NoPort, Unplugged} :
             LET at == [m \in Media |-> IF m = "audio" THEN a ELSE v] IN
             /\ FindFree("audio", a)
             /\ IF stream[<<"video", c>>] # "none" THEN FindFree("video", v) ELSE v = Unplugged
             /\ Plug(c, at)
             /\ HidePicture(at)
             /\ stream' = [e \in CallEnds |->
                  IF e[2] = c /\ at[e[1]] \in Ports(e[1]) THEN "itc" ELSE stream[e]]
      BY <2>6 DEF AddMember
    <3> DEFINE at == [m \in Media |-> IF m = "audio" THEN a ELSE v]
    <3>2. at \in [Media -> Int]
      BY PortsAreNumbers DEF Media, NoPort, Unplugged
    <3>3. \A m \in Media : FindFree(m, at[m]) \/ at[m] = Unplugged
      BY <3>1 DEF Media
    <3>4. Plug(c, at)
      BY <3>1
    <3>a. stream' = [e \in CallEnds |->
            IF e[2] = c /\ at[e[1]] \in Ports(e[1]) THEN "itc" ELSE stream[e]]
      BY <3>1
    <3> HIDE DEF at
    <3>b. ASSUME NEW e \in Ends
          PROVE  /\ e[2] # c => HasItc(e)' = HasItc(e)
                 /\ e[2] = c /\ <<e[1], at[e[1]]>> \in Slots => HasItc(e)'
      <4>1. CASE e[2] \in Calls
        <5>1. e \in CallEnds
          BY <4>1, EndShape DEF CallEnds
        <5>2. stream'[e] = IF e[2] = c /\ at[e[1]] \in Ports(e[1]) THEN "itc" ELSE stream[e]
          BY <3>a, <5>1
        <5>3. QED BY <5>2, SlotShape DEF HasItc
      <4>2. CASE e[2] \notin Calls
        BY <4>2 DEF HasItc
      <4>3. QED BY <4>1, <4>2
    <3>5. c \in Parties /\ c \notin members \cup device
      BY <2>6, ConferenceAssumption DEF AddMember, Up, Presence, MembershipAgrees, TypeOK, Parties
    <3>6. Wired'
      BY <3>2, <3>3, <3>4, <3>5, <3>b, PlugWired, FoundIsUnused, AbsentIsUnplugged
    <3>7. \A e \in Ends : index'[e] # Unplugged => e[2] \in members' \cup device'
      BY <2>6, <3>4 DEF AddMember, Plug, Presence, MembershipAgrees
    <3>8. running' /\ members' = members \cup {c}
      BY <2>6 DEF AddMember, Up
    <3>9. \A d \in Calls : /\ call'[d] = IF d = c THEN "InConferencing" ELSE call[d]
                           /\ inConf'[d] = IF d = c THEN TRUE ELSE inConf[d]
      BY <2>6 DEF AddMember, TypeOK
    <3>10. \A d \in Calls : /\ d \in members' <=> call'[d] = "InConferencing"
                            /\ d \in members' <=> inConf'[d]
      BY <3>8, <3>9 DEF Presence, MembershipAgrees
    <3>11. QED BY <3>6, <3>7, <3>8, <3>10 DEF Presence, MembershipAgrees
  <2>7. ASSUME NEW c \in Calls, TakeOut(c), SameItc({c}) PROVE Wired'
    <3>1. {c} \in SUBSET Parties
      BY DEF Parties
    <3>2. Unplug({c})
      BY <2>7 DEF TakeOut
    <3>3. QED BY <2>7, <3>1, <3>2, UnplugWired
  <2>8. ASSUME NEW c \in Calls, RemoveMember(c) PROVE Wired' /\ Presence'
    <3>1. CASE Abort
      BY <2>c, <3>1
    <3>2. CASE ~Abort
      <4>1. TakeOut(c) /\ UNCHANGED <<running, device, stream>>
        BY <2>8, <3>2 DEF RemoveMember
      <4>2. \A d \in Calls : call'[d] = IF d = c THEN "Pausing" ELSE call[d]
        BY <2>8, <3>2 DEF RemoveMember, Paused
      <4>3. running
        BY <2>8 DEF RemoveMember, Up
      <4>4. Presence'
        BY <4>1, <4>2, <4>3, TakeOutPresence DEF Presence, MembershipAgrees, TypeOK
      <4>5. {c} \in SUBSET Parties
        BY DEF Parties
      <4>6. QED BY <2>7, <2>a, <4>1, <4>4, <4>5
    <3>3. QED BY <3>1, <3>2
  <2>9. CASE AddSndCard
    <3>1. PICK i \in Ports("audio") :
             LET at == [m \in Media |-> IF m = "audio" THEN i ELSE Unplugged] IN
             FindFree("audio", i) /\ Plug(SndCard, at)
      BY <2>9 DEF AddSndCard
    <3> DEFINE at == [m \in Media |-> IF m = "audio" THEN i ELSE Unplugged]
    <3>2. at \in [Media -> Int]
      BY PortsAreNumbers DEF Media, Unplugged
    <3>3. \A m \in Media : FindFree(m, at[m]) \/ at[m] = Unplugged
      BY <3>1 DEF Media
    <3>4. Plug(SndCard, at)
      BY <3>1
    <3> HIDE DEF at
    <3>5. SndCard \in Parties /\ SndCard \notin members \cup device
      BY <2>9, ConferenceAssumption DEF AddSndCard, Up, TypeOK, Parties
    <3>a. \A e \in Ends : /\ e[2] # SndCard => HasItc(e)' = HasItc(e)
                          /\ e[2] = SndCard => HasItc(e)'
      BY <2>9, ConferenceAssumption DEF AddSndCard, Up, calls, HasItc
    <3>6. Wired'
      BY <3>2, <3>3, <3>4, <3>5, <3>a, PlugWired, FoundIsUnused, AbsentIsUnplugged
    <3>7. \A e \in Ends : index'[e] # Unplugged => e[2] \in members' \cup device'
      BY <2>9, <3>4 DEF AddSndCard, Up, Plug, Presence, MembershipAgrees
    <3>8. QED BY <2>9, <3>6, <3>7 DEF AddSndCard, Up, calls, Presence, MembershipAgrees
  <2>10. ASSUME NEW w \in Webcams, AddWebcam(w) PROVE Wired' /\ Presence'
    <3>1. PICK i \in Ports("video") :
             LET at == [m \in Media |-> IF m = "video" THEN i ELSE Unplugged] IN
             FindFree("video", i) /\ Plug(w, at) /\ HidePicture(at)
      BY <2>10 DEF AddWebcam
    <3> DEFINE at == [m \in Media |-> IF m = "video" THEN i ELSE Unplugged]
    <3>2. at \in [Media -> Int]
      BY PortsAreNumbers DEF Media, Unplugged
    <3>3. \A m \in Media : FindFree(m, at[m]) \/ at[m] = Unplugged
      BY <3>1 DEF Media
    <3>4. Plug(w, at)
      BY <3>1
    <3> HIDE DEF at
    <3>5. w \in Parties /\ w \notin members \cup device
      BY <2>10, ConferenceAssumption DEF AddWebcam, Up, TypeOK, Parties
    <3>a. \A e \in Ends : /\ e[2] # w => HasItc(e)' = HasItc(e)
                          /\ e[2] = w => HasItc(e)'
      BY <2>10, ConferenceAssumption DEF AddWebcam, Up, calls, HasItc
    <3>6. Wired'
      BY <3>2, <3>3, <3>4, <3>5, <3>a, PlugWired, FoundIsUnused, AbsentIsUnplugged
    <3>7. \A e \in Ends : index'[e] # Unplugged => e[2] \in members' \cup device'
      BY <2>10, <3>4 DEF AddWebcam, Up, Plug, Presence, MembershipAgrees
    <3>8. QED BY <2>10, <3>6, <3>7 DEF AddWebcam, Up, calls, Presence, MembershipAgrees
  <2>11. ASSUME NEW P \in SUBSET (Webcams \cup {SndCard}), Up, Unplug(P),
                device' = device \ P,
                UNCHANGED <<running, members, calls>>
         PROVE  Wired' /\ Presence'
    <3>0. P \in SUBSET Parties /\ running /\ UNCHANGED stream
      BY <2>11 DEF Parties, Up, calls
    <3>1. Wired'
      BY <2>11, <2>a, <3>0, UnplugWired
    <3>2. \A e \in Ends : index'[e] = IF e[2] \in P THEN Unplugged ELSE index[e]
      BY <2>11 DEF Unplug, UnplugEnds
    <3>3. QED BY <2>11, <3>0, <3>1, <3>2 DEF calls, Presence, MembershipAgrees
  <2>12. CASE RemoveSndCard
    BY <2>11, <2>12 DEF RemoveSndCard
  <2>13. ASSUME NEW w \in Webcams, RemoveWebcam(w) PROVE Wired' /\ Presence'
    BY <2>11, <2>13 DEF RemoveWebcam
  <2>14. CASE RemoveAllWebcams
    <3>1. device' = device \ (device \cap Webcams)
      BY <2>14 DEF RemoveAllWebcams
    <3>2. QED BY <2>11, <2>14, <3>1 DEF RemoveAllWebcams
  <2>15. ASSUME NEW c \in Calls, CallStreamsRunning(c) \/ CallPaused(c) PROVE Wired' /\ Presence'
    <3>1. PICK M : NewStreams(c, M)
      BY <2>15 DEF CallStreamsRunning, CallPaused
    <3>2. c \notin members
      BY <2>15 DEF CallStreamsRunning, CallPaused, Presence, MembershipAgrees
    <3>3. UNCHANGED <<running, ports, members, device, inConf>>
      BY <2>15 DEF CallStreamsRunning, CallPaused, conf
    <3>a. UNCHANGED <<port, portSource, portSink, index, lost>> /\ UNCHANGED <<endSource, endSink>>
      BY <3>3 DEF ports
    <3>4. Wired'
      BY <2>d, <3>1, <3>2, <3>a
    <3>5. \A d \in Calls : call'[d] # call[d] => d = c /\ call'[d] # "InConferencing"
      BY <2>15 DEF CallStreamsRunning, CallPaused, TypeOK
    <3>6. call[c] # "InConferencing"
      BY <2>15 DEF CallStreamsRunning, CallPaused
    <3>7. Presence'
      BY <3>2, <3>3, <3>5, <3>6 DEF ports, Presence, MembershipAgrees
    <3>8. QED BY <3>4, <3>7
  <2>16. ASSUME NEW c \in Calls, CallUpdated(c) PROVE Wired' /\ Presence'
    <3>1. PICK M \in Descriptions : NewStreams(c, M)
      BY <2>16 DEF CallUpdated
    <3>2. UNCHANGED <<running, port, portSource, portSink, index, lost, members, device, call, inConf>>
      BY <2>16 DEF CallUpdated
    <3>3. OneHolder' /\ FlagsShowHolder' /\ PortsWired' /\ LostAreNobodys'
      BY <3>2 DEF Wired, OneHolder, FlagsShowHolder, PortsWired, LostAreNobodys, Taken, Held, Holds
    <3>4. EndsWired'
      <4> SUFFICES ASSUME NEW e \in Ends
                   PROVE  LET s == <<e[1], index'[e]>> IN
                          /\ endSink'[e] = IF s \in Slots /\ HasItc(e)' THEN In(s) ELSE NoQueue
                          /\ endSource'[e] = IF s \in Slots /\ HasItc(e)' /\ e[2] \notin Webcams
                                             THEN Out(s) ELSE NoQueue
        BY DEF EndsWired, In, Out, Slots, Ports, NbPorts
      <4>1. CASE e[2] = c
        <5>1. e \in CallEnds
          BY <4>1, EndShape DEF CallEnds
        <5>2. stream'[e] # "itc"
          BY <3>1, <4>1, <5>1 DEF NewStreams
        <5>3. ~HasItc(e)'
          BY <4>1, <5>2 DEF HasItc
        <5>4. endSink'[e] = NoQueue /\ endSource'[e] = NoQueue
          BY <2>16, <4>1 DEF CallUpdated
        <5>5. QED BY <5>3, <5>4
      <4>2. CASE e[2] # c
        <5>1. HasItc(e)' = HasItc(e)
          BY <2>b, <3>1, <4>2
        <5>2. endSource'[e] = endSource[e] /\ endSink'[e] = endSink[e] /\ index'[e] = index[e]
          BY <2>16, <3>2, <4>2 DEF CallUpdated
        <5>3. QED BY <5>1, <5>2 DEF Wired, EndsWired
      <4>3. QED BY <4>1, <4>2
    <3>5. Presence'
      BY <3>2 DEF Presence, MembershipAgrees
    <3>6. QED BY <3>3, <3>4, <3>5 DEF Wired
  <2>17. ASSUME NEW c \in Calls, CallTerminated(c) PROVE Wired' /\ Presence'
    <3>1. CASE Abort
      BY <2>c, <3>1
    <3>2. CASE ~Abort
      <4>1. /\ call' = [call EXCEPT ![c] = "Idle"]
            /\ NewStreams(c, {})
            /\ UNCHANGED <<running, device>>
        BY <2>17, <3>2 DEF CallTerminated
      <4>2. CASE c \in members
        <5>1. TakeOut(c)
          BY <2>17, <3>2, <4>2 DEF CallTerminated, Presence, MembershipAgrees
        <5>2. SameItc({c})
          BY <2>b, <4>1
        <5>3. QED
          BY <2>7, <4>1, <4>2, <5>1, <5>2, TakeOutPresence DEF Presence, MembershipAgrees, TypeOK
      <4>3. CASE c \notin members
        <5>1. UNCHANGED <<ports, teeMuted, members, inConf>>
          BY <2>17, <3>2, <4>3 DEF CallTerminated
        <5>a. UNCHANGED <<port, portSource, portSink, index, lost>> /\ UNCHANGED <<endSource, endSink>>
          BY <5>1 DEF ports
        <5>2. Wired'
          BY <2>d, <4>1, <4>3, <5>a
        <5>3. Presence'
          BY <4>1, <4>3, <5>1 DEF ports, Presence, MembershipAgrees, TypeOK
        <5>4. QED BY <5>2, <5>3
      <4>4. QED BY <4>2, <4>3
    <3>3. QED BY <3>1, <3>2
  <2>18. CASE UNCHANGED vars
    BY <2>1, <2>18 DEF vars, conf, ports, calls, Presence, MembershipAgrees
  <2>19. CASE Stop
    BY <2>5, <2>c, <2>19 DEF Stop
  <2>20. QED
    BY <2>2, <2>3, <2>4, <2>6, <2>8, <2>9, <2>10, <2>12, <2>13, <2>14, <2>15, <2>16,
       <2>17, <2>18, <2>19 DEF Next, MuteAllOutputs, MuteOutput
<1>3. QED BY <1>1, <1>2, ConferenceTypeOK, PTL DEF Spec, ConferenceInv

(* A port that no streamless member left behind is in use exactly when     *)
(* somebody present has its number.                                        *)
THEOREM ConferenceUsedPortsAreHeld == Spec => []UsedPortsAreHeld
<1>1. ConferenceInv => UsedPortsAreHeld
  <2> SUFFICES ASSUME ConferenceInv, NEW s \in Slots \ lost
               PROVE  InUsed(s) <=> \E p \in members \cup device : Holds(p, s)
    BY DEF UsedPortsAreHeld
  <2>1. InUsed(s) <=> Held(s)
    BY DEF ConferenceInv, Wired, FlagsShowHolder, Taken, InUsed
  <2>2. ASSUME NEW p \in Parties, Holds(p, s) PROVE p \in members \cup device
    BY <2>2, SlotShape, EndShape, SlotsAreNotMarks DEF ConferenceInv, Presence, MembershipAgrees, Holds
  <2>3. members \cup device \subseteq Parties
    BY PartiesDiffer DEF ConferenceInv
  <2>4. QED BY <2>1, <2>2, <2>3 DEF Held
<1>2. QED BY <1>1, ConferenceInvariant, PTL

(* No two filters write, and no two filters read, the same queue.          *)
THEOREM ConferenceNoCrossedLines == Spec => []NoCrossedLines
<1>1. ConferenceInv => NoCrossedLines
  <2> SUFFICES ASSUME ConferenceInv PROVE NoCrossedLines
    OBVIOUS
  <2> DEFINE slot(e) == <<e[1], index[e]>>
  <2>1. ASSUME NEW e \in Ends
        PROVE  /\ endSink[e] # NoQueue => slot(e) \in Slots /\ endSink[e] = <<slot(e), "in">>
               /\ endSource[e] # NoQueue => slot(e) \in Slots /\ endSource[e] = <<slot(e), "out">>
    BY DEF ConferenceInv, Wired, EndsWired, In, Out
  <2>2. ASSUME NEW e \in Ends, NEW f \in Ends, slot(e) \in Slots, slot(e) = slot(f)
        PROVE  e = f
    <3>1. Holds(e[2], slot(e)) /\ Holds(f[2], slot(e)) /\ e[1] = f[1]
      BY <2>2, EndShape DEF Holds
    <3>2. e[2] = f[2]
      BY <2>2, <3>1, EndShape DEF ConferenceInv, Wired, OneHolder
    <3>3. QED BY <3>1, <3>2, EndShape
  <2>3. ASSUME NEW e \in Ends, NEW f \in Ends, endSink[e] # NoQueue, endSink[e] = endSink[f]
        PROVE  e = f
    <3>1. slot(e) \in Slots /\ <<slot(e), "in">> = <<slot(f), "in">>
      BY <2>1, <2>3
    <3>2. slot(e) = slot(f)
      BY <3>1
    <3>3. QED BY <2>2, <3>1, <3>2
  <2>4. ASSUME NEW e \in Ends, NEW f \in Ends, endSource[e] # NoQueue, endSource[e] = endSource[f]
        PROVE  e = f
    <3>1. slot(e) \in Slots /\ <<slot(e), "out">> = <<slot(f), "out">>
      BY <2>1, <2>4
    <3>2. slot(e) = slot(f)
      BY <3>1
    <3>3. QED BY <2>2, <3>1, <3>2
  <2>5. ASSUME NEW e \in Ends, NEW s \in Slots, endSink[e] # NoQueue
        PROVE  endSink[e] # portSink[s] /\ endSink[e] # endSource[e]
    <3>1. portSink[s] = <<s, "out">> \/ portSink[s] = NoQueue
      BY DEF ConferenceInv, Wired, PortsWired, Out
    <3>2. endSink[e] = <<slot(e), "in">>
      BY <2>1, <2>5
    <3>3. endSource[e] = <<slot(e), "out">> \/ endSource[e] = NoQueue
      BY <2>1
    <3>4. <<slot(e), "in">> # <<s, "out">> /\ <<slot(e), "in">> # <<slot(e), "out">>
      OBVIOUS
    <3>5. QED BY <2>5, <3>1, <3>2, <3>3, <3>4
  <2>6. QED BY <2>3, <2>4, <2>5 DEF NoCrossedLines
<1>2. QED BY <1>1, ConferenceInvariant, PTL

(* A member with a port whose streams were not restarted hears the mixer   *)
(* and is heard by it.                                                     *)
THEOREM ConferenceMembersTalkAndListen == Spec => []MembersTalkAndListen
<1>1. ConferenceInv => MembersTalkAndListen
  <2> SUFFICES ASSUME ConferenceInv, NEW c \in members, NEW m \in Media,
                      index[<<m, c>>] \in Ports(m), stream[<<m, c>>] = "itc"
               PROVE  LET s == <<m, index[<<m, c>>]>> IN
                      /\ endSink[<<m, c>>] # NoQueue /\ endSink[<<m, c>>] = portSource[s]
                      /\ endSource[<<m, c>>] # NoQueue /\ endSource[<<m, c>>] = portSink[s]
    BY DEF MembersTalkAndListen
  <2> DEFINE s == <<m, index[<<m, c>>]>>
  <2>1. s \in Slots /\ c \in Calls /\ c \in Parties \ Webcams /\ <<m, c>> \in Ends
    BY SlotShape, EndShape, ConferenceAssumption DEF ConferenceInv, TypeOK, Parties
  <2>2. Holds(c, s) /\ Held(s)
    BY <2>1 DEF Holds, Held
  <2>3. portSource[s] = In(s) /\ portSink[s] = Out(s)
    BY <2>1, <2>2 DEF ConferenceInv, Wired, PortsWired, Taken
  <2>4. endSink[<<m, c>>] = In(s) /\ endSource[<<m, c>>] = Out(s)
    BY <2>1 DEF ConferenceInv, Wired, EndsWired, HasItc
  <2>5. In(s) # NoQueue /\ Out(s) # NoQueue
    BY <2>1, QueueShape, ConferenceAssumption
  <2>6. QED BY <2>3, <2>4, <2>5
<1>2. QED BY <1>1, ConferenceInvariant, PTL

(* Ports, the numbers that members and devices keep, and the filters at    *)
(* both ends of the queues fit one another.                                *)
THEOREM ConferenceLinesAreRight == Spec => []LinesAreRight
BY ConferenceUsedPortsAreHeld, ConferenceNoCrossedLines, ConferenceMembersTalkAndListen, PTL
   DEF LinesAreRight

(* A stopped conference has let go of every call and device.               *)
THEOREM ConferenceStoppedLeavesNothing == Spec => []StoppedLeavesNothing
<1>1. ConferenceInv => StoppedLeavesNothing
  <2> SUFFICES ASSUME ConferenceInv, ~running PROVE StoppedLeavesNothing
    BY DEF StoppedLeavesNothing
  <2>1. \A e \in Ends : index[e] = Unplugged
    BY DEF ConferenceInv, Presence, MembershipAgrees
  <2>2. \A e \in Ends : endSource[e] = NoQueue /\ endSink[e] = NoQueue
    BY <2>1, SlotsAreNotMarks DEF ConferenceInv, Wired, EndsWired
  <2>3. \A c \in Calls : call[c] # "InConferencing" /\ ~inConf[c]
    BY DEF ConferenceInv, Presence, MembershipAgrees
  <2>4. QED BY <2>2, <2>3 DEF StoppedLeavesNothing
<1>2. QED BY <1>1, ConferenceInvariant, PTL

(* The call's state and user_pointer say that it is in the conference      *)
(* exactly when the conference lists it.                                   *)
THEOREM ConferenceMembershipAgrees == Spec => []MembershipAgrees
<1>1. ConferenceInv => MembershipAgrees
  BY DEF ConferenceInv, TypeOK, Presence, MembershipAgrees
<1>2. QED BY <1>1, ConferenceInvariant, PTL

(* The mute of a port reaches whoever is plugged in: its own argument      *)
(* needs ConferenceInv only for a member's port to be connected.           *)
LEMMA MutesKept ==
  ASSUME MuteReachesMembers, running' = running, members' \subseteq members,
         \A c \in members' : \A m \in Media :
           index'[<<m, c>>] = index[<<m, c>>] \/ index'[<<m, c>>] = Unplugged,
         \A s \in Slots : sinkMuted'[s] = sinkMuted[s] /\ port'[s].muted = port[s].muted
  PROVE  MuteReachesMembers'
<1> SUFFICES ASSUME running', NEW c \in members', NEW s \in Slots, Holds(c, s)'
             PROVE  sinkMuted'[s] = port'[s].muted
  BY DEF MuteReachesMembers, Slots, Ports, NbPorts
<1>1. index'[<<s[1], c>>] = s[2] /\ s[1] \in Media
  BY SlotShape DEF Holds
<1>2. Holds(c, s)
  BY <1>1, SlotsAreNotMarks DEF Holds
<1>3. QED BY <1>2 DEF MuteReachesMembers

(* What unplugging leaves alone.                                           *)
LEMMA UnplugKeepsMutes ==
  ASSUME TypeOK, members \subseteq Calls, NEW P, Unplug(P)
  PROVE  /\ \A c \in members : \A m \in Media :
              index'[<<m, c>>] = index[<<m, c>>] \/ index'[<<m, c>>] = Unplugged
         /\ \A s \in Slots : sinkMuted'[s] = sinkMuted[s] /\ port'[s].muted = port[s].muted
<1>1. \A c \in members : \A m \in Media : <<m, c>> \in Ends
  BY EndShape DEF Parties
<1>2. \A c \in members : \A m \in Media :
        index'[<<m, c>>] = index[<<m, c>>] \/ index'[<<m, c>>] = Unplugged
  BY <1>1 DEF Unplug, UnplugEnds
<1>3. \A s \in Slots : sinkMuted'[s] = sinkMuted[s] /\ port'[s].muted = port[s].muted
  BY DEF Unplug, TypeOK
<1>4. QED BY <1>2, <1>3

(* So does plugging in a device.                                           *)
LEMMA PlugDeviceKeepsMutes ==
  ASSUME TypeOK, NEW p \in Parties \ Calls, NEW at \in [Media -> Int], Plug(p, at)
  PROVE  /\ \A c \in members : \A m \in Media : index'[<<m, c>>] = index[<<m, c>>]
         /\ \A s \in Slots : sinkMuted'[s] = sinkMuted[s] /\ port'[s].muted = port[s].muted
<1>1. \A c \in members : \A m \in Media : <<m, c>> \in Ends /\ c # p
  BY EndShape DEF Parties, TypeOK
<1>2. \A c \in members : \A m \in Media : index'[<<m, c>>] = index[<<m, c>>]
  BY <1>1 DEF Plug
<1>3. \A s \in Slots : sinkMuted'[s] = sinkMuted[s] /\ port'[s].muted = port[s].muted
  BY DEF Plug, TypeOK
<1>4. QED BY <1>2, <1>3

(* A member is heard or not as its port's mark says, whenever the mark was *)
(* set.                                                                    *)
THEOREM ConferenceMuteReachesMembers == Spec => []MuteReachesMembers
<1>1. Init => MuteReachesMembers
  BY DEF Init, MuteReachesMembers
<1>2. ConferenceInv /\ MuteReachesMembers /\ [Next]_vars => MuteReachesMembers'
  <2> SUFFICES ASSUME ConferenceInv, MuteReachesMembers, [Next]_vars PROVE MuteReachesMembers'
    OBVIOUS
  <2>0. TypeOK /\ members \subseteq Calls
    BY DEF ConferenceInv, TypeOK
  <2>1. ASSUME UNCHANGED <<running, members, index, port, sinkMuted>> PROVE MuteReachesMembers'
    BY <2>1 DEF MuteReachesMembers, Holds
  <2>2. CASE Abort \/ UNCHANGED vars
    BY <2>1, <2>2 DEF Abort, vars, conf, ports
  <2>3. ASSUME NEW P, Unplug(P), UNCHANGED running, members' \subseteq members
        PROVE  MuteReachesMembers'
    BY <2>0, <2>3, UnplugKeepsMutes, MutesKept
  <2>4. ASSUME NEW b \in BOOLEAN, Start(b) PROVE MuteReachesMembers'
    BY <2>4 DEF Start, MuteReachesMembers
  <2>5. ASSUME NEW b \in BOOLEAN, EnableAutoLayout(b) PROVE MuteReachesMembers'
    BY <2>1, <2>5 DEF EnableAutoLayout, ports
  <2>6. ASSUME NEW S, NEW b \in BOOLEAN, SetMuted(S, b) PROVE MuteReachesMembers'
    <3> SUFFICES ASSUME running', NEW c \in members', NEW s \in Slots, Holds(c, s)'
                 PROVE  sinkMuted'[s] = port'[s].muted
      BY DEF MuteReachesMembers, Slots, Ports, NbPorts
    <3>1. running /\ c \in members /\ Holds(c, s)
      BY <2>6 DEF SetMuted, Up, Holds
    <3>2. c \in Parties \ Webcams
      BY <2>0, <3>1, ConferenceAssumption DEF Parties
    <3>3. portSink[s] = Out(s)
      BY <3>1, <3>2 DEF ConferenceInv, Wired, PortsWired
    <3>4. portSink[s] # NoQueue
      BY <3>3, QueueShape, ConferenceAssumption
    <3>5. sinkMuted[s] = port[s].muted
      BY <3>1 DEF MuteReachesMembers
    <3>6. QED BY <2>0, <2>6, <3>4, <3>5 DEF SetMuted, TypeOK
  <2>7. ASSUME StopAll PROVE MuteReachesMembers'
    BY <2>7 DEF StopAll, MuteReachesMembers
  <2>8. ASSUME NEW c \in Calls, AddMember(c) PROVE MuteReachesMembers'
    <3>1. PICK at \in [Media -> Int] : Plug(c, at)
      <4>1. PICK a \in Ports("audio") \cup {NoPort}, v \in Ports("video") \cup {NoPort, Unplugged} :
               Plug(c, [m \in Media |-> IF m = "audio" THEN a ELSE v])
        BY <2>8 DEF AddMember
      <4>2. [m \in Media |-> IF m = "audio" THEN a ELSE v] \in [Media -> Int]
        BY PortsAreNumbers DEF Media, NoPort, Unplugged
      <4>3. QED BY <4>1, <4>2
    <3> SUFFICES ASSUME running', NEW d \in members', NEW s \in Slots, Holds(d, s)'
                 PROVE  sinkMuted'[s] = port'[s].muted
      BY DEF MuteReachesMembers, Slots, Ports, NbPorts
    <3>2. running /\ d \in members \cup {c} /\ d \in Calls
      BY <2>0, <2>8 DEF AddMember, Up
    <3>3. s[1] \in Media /\ <<s[1], d>> \in Ends
      BY <3>2, SlotShape, EndShape DEF Parties
    <3>4. /\ sinkMuted'[s] = IF s \in SlotsAt(at) THEN port[s].muted ELSE sinkMuted[s]
          /\ port'[s].muted = port[s].muted
      BY <2>0, <3>1 DEF Plug, TypeOK
    <3>5. index'[<<s[1], d>>] = IF d = c THEN at[s[1]] ELSE index[<<s[1], d>>]
      BY <3>1, <3>3 DEF Plug
    <3>6. CASE d = c
      BY <3>4, <3>5, <3>6 DEF Holds, SlotsAt
    <3>7. CASE d # c
      <4>1. Holds(d, s)
        BY <3>5, <3>7 DEF Holds
      <4>2. QED BY <3>2, <3>4, <3>7, <4>1 DEF MuteReachesMembers
    <3>8. QED BY <3>6, <3>7
  <2>9. ASSUME NEW c \in Calls, RemoveMember(c) PROVE MuteReachesMembers'
    <3>1. CASE Abort BY <2>2, <3>1
    <3>2. CASE ~Abort
      BY <2>3, <2>9, <3>2 DEF RemoveMember, TakeOut
    <3>3. QED BY <3>1, <3>2
  <2>10. CASE AddSndCard
    <3>1. PICK at \in [Media -> Int] : Plug(SndCard, at)
      <4>1. PICK i \in Ports("audio") :
               Plug(SndCard, [m \in Media |-> IF m = "audio" THEN i ELSE Unplugged])
        BY <2>10 DEF AddSndCard
      <4>2. [m \in Media |-> IF m = "audio" THEN i ELSE Unplugged] \in [Media -> Int]
        BY PortsAreNumbers DEF Media, Unplugged
      <4>3. QED BY <4>1, <4>2
    <3>2. SndCard \in Parties \ Calls
      BY ConferenceAssumption DEF Parties
    <3>3. QED BY <2>0, <2>10, <3>1, <3>2, PlugDeviceKeepsMutes, MutesKept DEF AddSndCard
  <2>11. ASSUME NEW w \in Webcams, AddWebcam(w) PROVE MuteReachesMembers'
    <3>1. PICK at \in [Media -> Int] : Plug(w, at)
      <4>1. PICK i \in Ports("video") :
               Plug(w, [m \in Media |-> IF m = "video" THEN i ELSE Unplugged])
        BY <2>11 DEF AddWebcam
      <4>2. [m \in Media |-> IF m = "video" THEN i ELSE Unplugged] \in [Media -> Int]
        BY PortsAreNumbers DEF Media, Unplugged
      <4>3. QED BY <4>1, <4>2
    <3>2. w \in Parties \ Calls
      BY ConferenceAssumption DEF Parties
    <3>3. QED BY <2>0, <2>11, <3>1, <3>2, PlugDeviceKeepsMutes, MutesKept DEF AddWebcam
  <2>12. CASE RemoveSndCard
    BY <2>3, <2>12 DEF RemoveSndCard
  <2>13. ASSUME NEW w \in Webcams, RemoveWebcam(w) PROVE MuteReachesMembers'
    BY <2>3, <2>13 DEF RemoveWebcam
  <2>14. CASE RemoveAllWebcams
    BY <2>3, <2>14 DEF RemoveAllWebcams
  <2>15. ASSUME NEW c \in Calls, CallStreamsRunning(c) \/ CallPaused(c) \/ CallUpdated(c)
         PROVE  MuteReachesMembers'
    BY <2>1, <2>15 DEF CallStreamsRunning, CallPaused, CallUpdated, conf, ports
  <2>16. ASSUME NEW c \in Calls, CallTerminated(c) PROVE MuteReachesMembers'
    <3>1. CASE Abort BY <2>2, <3>1
    <3>2. CASE ~Abort
      <4>1. running' = running /\ (TakeOut(c) \/ UNCHANGED <<ports, members>>)
        BY <2>16, <3>2 DEF CallTerminated
      <4>2. CASE TakeOut(c)
        BY <2>3, <4>1, <4>2 DEF TakeOut
      <4>3. CASE UNCHANGED <<ports, members>>
        BY <2>1, <4>1, <4>3 DEF ports
      <4>4. QED BY <4>1, <4>2, <4>3
    <3>3. QED BY <3>1, <3>2
  <2>17. CASE Stop
    BY <2>2, <2>7, <2>17 DEF Stop
  <2>18. QED
    BY <2>2, <2>4, <2>5, <2>6, <2>8, <2>9, <2>10, <2>11, <2>12, <2>13, <2>14, <2>15, <2>16,
       <2>17 DEF Next, MuteAllOutputs, MuteOutput
<1>3. QED BY <1>1, <1>2, ConferenceInvariant, PTL DEF Spec

(* The picture at one region.                                              *)
PictureRight(i) == i \notin teeMuted <=> ~InUsed(<<"video", i>>) /\ (auto_layout => i = 0)

(* The sound card takes no video port, so that its coming and going does   *)
(* not concern the picture.                                                *)
PictureInv ==
  /\ index[<<"video", SndCard>>] = Unplugged
  /\ running => \A i \in Ports("video") : PictureRight(i)

(* A party that plugs in takes the picture off its region.                 *)
LEMMA PlugHidesPicture ==
  ASSUME TypeOK, NEW p \in Parties, NEW at \in [Media -> Int], Plug(p, at), HidePicture(at),
         auto_layout' = auto_layout, NEW i \in Ports("video"), PictureRight(i)
  PROVE  PictureRight(i)'
<1> DEFINE s == <<"video", i>>
<1>1. s \in Slots /\ s[1] = "video" /\ s[2] = i
  BY SlotShape DEF Media
<1>2. s \in SlotsAt(at) <=> at["video"] = i
  BY <1>1 DEF SlotsAt
<1>3. InUsed(s)' <=> InUsed(s) \/ at["video"] = i
  BY <1>1, <1>2 DEF Plug, InUsed, TypeOK
<1>4. i \in teeMuted' <=> i \in teeMuted \/ (at["video"] = i /\ (auto_layout => i = 0))
  BY DEF HidePicture, SwitchedPins
<1> HIDE DEF s
<1>5. QED BY <1>3, <1>4 DEF PictureRight, s

(* Parties that leave give it back.                                        *)
LEMMA UnplugShowsPicture ==
  ASSUME TypeOK, NEW P, Unplug(P), auto_layout' = auto_layout,
         teeMuted' = teeMuted \ UNION {SwitchedPins(IndexOf(p)) : p \in P},
         NEW i \in Ports("video"), PictureRight(i)
  PROVE  PictureRight(i)'
<1> DEFINE s == <<"video", i>>
           freed == \E p \in P : IndexOf(p)["video"] = i
<1>1. s \in Slots /\ s[1] = "video" /\ s[2] = i
  BY SlotShape DEF Media
<1>2. s \in UNION {SlotsAt(IndexOf(p)) : p \in P} <=> freed
  BY <1>1 DEF SlotsAt
<1>3. InUsed(s)' <=> InUsed(s) /\ ~freed
  BY <1>1, <1>2 DEF Unplug, InUsed, TypeOK
<1>4. i \in teeMuted' <=> i \in teeMuted /\ ~(freed /\ (auto_layout => i = 0))
  BY DEF SwitchedPins
<1> HIDE DEF s, freed
<1>5. QED BY <1>3, <1>4 DEF PictureRight, s

(* The picture is shown in the regions nobody uses that the layout shows.  *)
THEOREM ConferencePictureFillsIdleRegions == Spec => []PictureFillsIdleRegions
<1>1. Init => PictureInv
  <2>1. <<"video", SndCard>> \in Ends
    BY EndShape DEF Media, Parties
  <2>2. QED BY <2>1 DEF Init, PictureInv
<1>2. ConferenceInv /\ PictureInv /\ [Next]_vars => PictureInv'
  <2> SUFFICES ASSUME TypeOK, Presence, PictureInv, [Next]_vars PROVE PictureInv'
    BY DEF ConferenceInv
  <2> DEFINE card == <<"video", SndCard>>
  <2>a. card \in Ends /\ SndCard \in Parties /\ SndCard \notin Calls \cup Webcams
    BY EndShape, ConferenceAssumption DEF Media, Parties
  <2>b. index[card] = Unplugged
    BY DEF PictureInv
  <2>c. ASSUME NEW P, Unplug(P) PROVE index'[card] = Unplugged
    BY <2>a, <2>b, <2>c DEF Unplug, UnplugEnds
  <2>d. ASSUME NEW p \in Parties, NEW at, Plug(p, at), p # SndCard \/ at["video"] = Unplugged
        PROVE  index'[card] = Unplugged
    BY <2>a, <2>b, <2>d DEF Plug
  <2> HIDE DEF card
  <2>e. ASSUME index'[card] = Unplugged,
               running' => running /\ \A i \in Ports("video") : PictureRight(i) => PictureRight(i)'
        PROVE  PictureInv'
    BY <2>e DEF PictureInv, card, Ports, NbPorts
  <2>1. ASSUME UNCHANGED <<running, auto_layout, index, port, teeMuted>> PROVE PictureInv'
    BY <2>1 DEF PictureInv, PictureRight, InUsed
  <2>2. CASE Abort \/ UNCHANGED vars
    BY <2>1, <2>2 DEF Abort, vars, conf, ports
  <2>3. ASSUME NEW b \in BOOLEAN, Start(b) PROVE PictureInv'
    <3>1. \A i \in Ports("video") : <<"video", i>> \in Slots
      BY SlotShape DEF Media
    <3>2. \A i \in Ports("video") : ~InUsed(<<"video", i>>)'
      BY <2>3, <3>1 DEF Start, NewPorts, NewPort, InUsed
    <3>3. ASSUME NEW i \in Ports("video") PROVE i \in {j + 1 : j \in Ports("video")} <=> i # 0
      <4>1. NbPorts("video") \in Nat
        BY PortsAreNumbers DEF Media
      <4>2. i \in Nat /\ i < NbPorts("video")
        BY <4>1 DEF Ports
      <4>3. i # 0 => i - 1 \in Ports("video") /\ i = (i - 1) + 1
        BY <4>1, <4>2 DEF Ports
      <4>4. \A j \in Ports("video") : j + 1 # 0
        BY <4>1 DEF Ports
      <4>5. QED BY <4>3, <4>4
    <3>4. \A i \in Ports("video") : i \notin teeMuted' <=> (auto_layout' => i = 0)
      BY <2>3, <3>3 DEF Start
    <3>5. index'[card] = Unplugged
      BY <2>3, <2>b DEF Start
    <3>6. QED BY <3>2, <3>4, <3>5 DEF PictureInv, PictureRight, card, Ports, NbPorts
  <2>4. ASSUME NEW b \in BOOLEAN, EnableAutoLayout(b) PROVE PictureInv'
    <3>1. running /\ UNCHANGED <<running, index, port>> /\ auto_layout' = b
      BY <2>4 DEF EnableAutoLayout, Up, ports
    <3>2. ASSUME NEW i \in Ports("video"), PictureRight(i) PROVE PictureRight(i)'
      <4>1. InUsed(<<"video", i>>)' <=> InUsed(<<"video", i>>)
        BY <3>1 DEF InUsed
      <4>2. i \in teeMuted' <=> IF i # 0 /\ ~InUsed(<<"video", i>>) THEN b ELSE i \in teeMuted
        BY <2>4 DEF EnableAutoLayout
      <4>3. QED BY <3>1, <3>2, <4>1, <4>2 DEF PictureRight
    <3>3. QED BY <2>b, <2>e, <3>1, <3>2
  <2>5. ASSUME NEW S, NEW b \in BOOLEAN, SetMuted(S, b) PROVE PictureInv'
    <3>1. \A s \in Slots : InUsed(s)' = InUsed(s)
      BY <2>5 DEF SetMuted, InUsed, TypeOK
    <3>2. \A i \in Ports("video") : PictureRight(i) => PictureRight(i)'
      BY <2>5, <3>1, SlotShape DEF SetMuted, PictureRight, Media
    <3>3. QED BY <2>5, <2>b, <2>e, <3>2 DEF SetMuted, Up
  <2>6. ASSUME StopAll PROVE PictureInv'
    <3>1. index'[card] = Unplugged
      BY <2>6, <2>a, <2>b DEF StopAll, UnplugEnds, card
    <3>2. QED BY <2>6, <2>e, <3>1 DEF StopAll
  <2>7. ASSUME NEW p \in Parties, NEW at \in [Media -> Int], Plug(p, at), HidePicture(at),
               p # SndCard \/ at["video"] = Unplugged,
               running, UNCHANGED <<running, auto_layout>>
        PROVE  PictureInv'
    BY <2>7, <2>d, <2>e, PlugHidesPicture
  <2>8. ASSUME NEW P, Unplug(P), running, UNCHANGED <<running, auto_layout>>,
               teeMuted' = teeMuted \ UNION {SwitchedPins(IndexOf(p)) : p \in P}
        PROVE  PictureInv'
    BY <2>8, <2>c, <2>e, UnplugShowsPicture
  <2>9. ASSUME NEW c \in Calls, TakeOut(c), UNCHANGED <<running, auto_layout>>, running
        PROVE  PictureInv'
    BY <2>8, <2>9 DEF TakeOut, ShowPicture
  <2>10. ASSUME NEW c \in Calls, AddMember(c) PROVE PictureInv'
    <3>1. PICK at \in [Media -> Int] : Plug(c, at) /\ HidePicture(at)
      <4>1. PICK a \in Ports("audio") \cup {NoPort}, v \in Ports("video") \cup {NoPort, Unplugged} :
               /\ Plug(c, [m \in Media |-> IF m = "audio" THEN a ELSE v])
               /\ HidePicture([m \in Media |-> IF m = "audio" THEN a ELSE v])
        BY <2>10 DEF AddMember
      <4>2. [m \in Media |-> IF m = "audio" THEN a ELSE v] \in [Media -> Int]
        BY PortsAreNumbers DEF Media, NoPort, Unplugged
      <4>3. QED BY <4>1, <4>2
    <3>2. c \in Parties /\ c # SndCard
      BY <2>a DEF Parties
    <3>3. QED BY <2>7, <2>10, <3>1, <3>2 DEF AddMember, Up
  <2>11. CASE AddSndCard
    <3>1. PICK at \in [Media -> Int] : Plug(SndCard, at) /\ at["video"] = Unplugged
      <4>1. PICK i \in Ports("audio") :
               Plug(SndCard, [m \in Media |-> IF m = "audio" THEN i ELSE Unplugged])
        BY <2>11 DEF AddSndCard
      <4>2. [m \in Media |-> IF m = "audio" THEN i ELSE Unplugged] \in [Media -> Int]
        BY PortsAreNumbers DEF Media, Unplugged
      <4>3. QED BY <4>1, <4>2 DEF Media
    <3>2. HidePicture(at)
      <4>1. SwitchedPins(at) = {}
        BY <3>1, PortsAreNumbers DEF SwitchedPins, Unplugged, Media
      <4>2. QED BY <2>11, <4>1 DEF AddSndCard, HidePicture
    <3>3. QED BY <2>7, <2>11, <2>a, <3>1, <3>2 DEF AddSndCard, Up
  <2>12. ASSUME NEW w \in Webcams, AddWebcam(w) PROVE PictureInv'
    <3>1. PICK at \in [Media -> Int] : Plug(w, at) /\ HidePicture(at)
      <4>1. PICK i \in Ports("video") :
               /\ Plug(w, [m \in Media |-> IF m = "video" THEN i ELSE Unplugged])
               /\ HidePicture([m \in Media |-> IF m = "video" THEN i ELSE Unplugged])
        BY <2>12 DEF AddWebcam
      <4>2. [m \in Media |-> IF m = "video" THEN i ELSE Unplugged] \in [Media -> Int]
        BY PortsAreNumbers DEF Media, Unplugged
      <4>3. QED BY <4>1, <4>2
    <3>2. w \in Parties /\ w # SndCard
      BY <2>a DEF Parties
    <3>3. QED BY <2>7, <2>12, <3>1, <3>2 DEF AddWebcam, Up
  <2>13. CASE RemoveSndCard
    <3>1. IndexOf(SndCard)["video"] = Unplugged
      BY <2>a, <2>b DEF IndexOf, Streamless, Media, card
    <3>2. SwitchedPins(IndexOf(SndCard)) = {}
      BY <3>1, PortsAreNumbers DEF SwitchedPins, Unplugged, Media
    <3>3. QED BY <2>8, <2>13, <3>2 DEF RemoveSndCard, Up
  <2>14. ASSUME NEW w \in Webcams, RemoveWebcam(w) PROVE PictureInv'
    BY <2>8, <2>14 DEF RemoveWebcam, ShowPicture, Up
  <2>15. CASE RemoveAllWebcams
    BY <2>8, <2>15 DEF RemoveAllWebcams, Up
  <2>16. ASSUME NEW c \in Calls, RemoveMember(c) PROVE PictureInv'
    BY <2>2, <2>9, <2>16 DEF RemoveMember, Up
  <2>17. ASSUME NEW c \in Calls, CallStreamsRunning(c) \/ CallPaused(c) \/ CallUpdated(c)
         PROVE  PictureInv'
    BY <2>1, <2>17 DEF CallStreamsRunning, CallPaused, CallUpdated, conf, ports
  <2>18. ASSUME NEW c \in Calls, CallTerminated(c) PROVE PictureInv'
    <3>1. CASE Abort BY <2>2, <3>1
    <3>2. CASE c \in members /\ ~Abort
      BY <2>9, <2>18, <3>2 DEF CallTerminated, Presence, MembershipAgrees
    <3>3. CASE c \notin members /\ ~Abort
      BY <2>1, <2>18, <3>3 DEF CallTerminated, ports
    <3>4. QED BY <3>1, <3>2, <3>3
  <2>19. CASE Stop
    BY <2>2, <2>6, <2>19 DEF Stop
  <2>20. QED
    BY <2>2, <2>3, <2>4, <2>5, <2>10, <2>11, <2>12, <2>13, <2>14, <2>15, <2>16, <2>17,
       <2>18, <2>19 DEF Next, MuteAllOutputs, MuteOutput
<1>3. PictureInv => PictureFillsIdleRegions
  BY DEF PictureInv, PictureRight, PictureFillsIdleRegions
<1>4. QED BY <1>1, <1>2, <1>3, ConferenceInvariant, PTL DEF Spec

(* Who the holder of a port is, in terms of indexes and lost slots.        *)
HolderFacts ==
  \A m \in Media : \A i \in Ports(m) :
    /\ Holder(m)[i] \in Parties \cup {Lost, Nobody}
    /\ Holder(m)[i] = Lost <=> <<m, i>> \in lost
    /\ Holder(m)[i] = Nobody <=> ~InUsed(<<m, i>>)
    /\ \A p \in Parties : Holder(m)[i] = p <=> index[<<m, p>>] = i

(* The marks Lost and Nobody are not parties.                              *)
LEMMA MarksDiffer == Nobody # Lost /\ Nobody \notin Parties /\ Lost \notin Parties
BY ConferenceAssumption DEF Nobody, Lost

(* The holder of a port is the party whose index is the port's number.     *)
LEMMA HoldersAreIndexes == ConferenceInv => HolderFacts
<1> SUFFICES ASSUME ConferenceInv, NEW m \in Media, NEW i \in Ports(m)
             PROVE  /\ Holder(m)[i] \in Parties \cup {Lost, Nobody}
                    /\ Holder(m)[i] = Lost <=> <<m, i>> \in lost
                    /\ Holder(m)[i] = Nobody <=> ~InUsed(<<m, i>>)
                    /\ \A p \in Parties : Holder(m)[i] = p <=> index[<<m, p>>] = i
  BY DEF HolderFacts
<1> DEFINE s == <<m, i>>
           H == Holder(m)[i]
<1>1. s \in Slots /\ s[1] = m /\ s[2] = i
  BY SlotShape
<1>2. InUsed(s) <=> Taken(s)
  BY <1>1 DEF ConferenceInv, Wired, FlagsShowHolder, InUsed
<1>3. H = IF s \in lost THEN Lost
          ELSE IF Held(s) THEN CHOOSE p \in Parties : Holds(p, s) ELSE Nobody
  BY DEF Holder
<1>4. \A p \in Parties : Holds(p, s) <=> index[<<m, p>>] = i
  BY <1>1 DEF Holds
<1> HIDE DEF s, H
<1>5. CASE s \in lost
  <2>1. ~Held(s)
    BY <1>5 DEF ConferenceInv, Wired, LostAreNobodys
  <2>2. QED BY MarksDiffer, <1>2, <1>3, <1>4, <1>5, <2>1 DEF Held, Taken, H, s
<1>6. CASE s \notin lost /\ Held(s)
  <2>1. H \in Parties /\ Holds(H, s)
    BY <1>3, <1>6 DEF Held
  <2>2. \A p \in Parties : Holds(p, s) <=> p = H
    BY <1>1, <2>1 DEF ConferenceInv, Wired, OneHolder
  <2>3. QED BY MarksDiffer, <1>2, <1>4, <1>6, <2>1, <2>2 DEF Taken, H, s
<1>7. CASE s \notin lost /\ ~Held(s)
  BY MarksDiffer, <1>2, <1>3, <1>4, <1>7 DEF Held, Taken, H, s
<1>8. QED BY <1>5, <1>6, <1>7

(* What PortPool lets happen to the ports of medium m.                     *)
Acquires(m, p) ==
  /\ \A i \in Ports(m) : Holder(m)[i] # p
  /\ \E i \in Ports(m) :
       /\ Holder(m)[i] = Nobody
       /\ \A j \in Ports(m) : Holder(m)[j] = Nobody => i <= j
       /\ Holder(m)' = [Holder(m) EXCEPT ![i] = p]
Releases(m, P) ==
  Holder(m)' = [i \in Ports(m) |-> IF Holder(m)[i] \in P THEN Nobody ELSE Holder(m)[i]]
Loses(m, p) ==
  Holder(m)' = [i \in Ports(m) |-> IF Holder(m)[i] = p THEN Lost ELSE Holder(m)[i]]
Closes(m) == Holder(m)' = [i \in Ports(m) |-> Nobody]

(* One step of the pool, or none.                                          *)
PoolStep(m) ==
  \/ \E p \in Parties : Acquires(m, p) \/ Loses(m, p)
  \/ \E P \in SUBSET Parties : Releases(m, P)
  \/ Closes(m)
  \/ Holder(m)' = Holder(m)

(* The holders are a function on the ports, before and after a step.       *)
LEMMA HolderFun ==
  ASSUME NEW m \in Media
  PROVE  /\ Holder(m) = [i \in Ports(m) |-> Holder(m)[i]]
         /\ Holder(m)' = [i \in Ports(m) |-> Holder(m)'[i]]
BY DEF Holder, Ports, NbPorts

(* What the holders h of the ports of medium m are, given the numbers that *)
(* parties have and the slots that are lost.                               *)
AreKnown(m, h) == \A i \in Ports(m) : h[i] \in Parties \cup {Lost, Nobody}
AreNumbered(m, h, number) ==
  \A i \in Ports(m) : \A p \in Parties : h[i] = p <=> number[<<m, p>>] = i
AreLost(m, h, L) == \A i \in Ports(m) : h[i] = Lost <=> <<m, i>> \in L
AreFree(m, h) == \A i \in Ports(m) : h[i] = Nobody <=> i \in FreePorts(m)

(* All four hold before and after a step.                                  *)
LEMMA HoldersBeforeAndAfter ==
  ASSUME HolderFacts, HolderFacts', NEW m \in Media
  PROVE  /\ AreKnown(m, Holder(m)) /\ AreKnown(m, Holder(m)')
         /\ AreNumbered(m, Holder(m), index) /\ AreNumbered(m, Holder(m)', index')
         /\ AreLost(m, Holder(m), lost) /\ AreLost(m, Holder(m)', lost')
         /\ AreFree(m, Holder(m))
<1>0. Ports(m)' = Ports(m) /\ Media' = Media /\ Parties' = Parties
  BY DEF Ports, NbPorts, Media, Parties
<1>1. AreKnown(m, Holder(m)) /\ AreKnown(m, Holder(m)')
  BY <1>0 DEF HolderFacts, AreKnown, Lost, Nobody
<1>2. AreNumbered(m, Holder(m), index) /\ AreNumbered(m, Holder(m)', index')
  BY <1>0 DEF HolderFacts, AreNumbered
<1>3. AreLost(m, Holder(m), lost) /\ AreLost(m, Holder(m)', lost')
  BY <1>0 DEF HolderFacts, AreLost, Lost
<1>4. AreFree(m, Holder(m))
  BY DEF HolderFacts, AreFree, FreePorts
<1>5. QED BY <1>1, <1>2, <1>3, <1>4

(* A party plugs in where it found the lowest free port, or nowhere.       *)
LEMMA PlugIsPoolStep ==
  ASSUME HolderFacts, HolderFacts', NEW p \in Parties, NEW at \in [Media -> Int], Plug(p, at),
         \A m \in Media : index[<<m, p>>] = Unplugged,
         \A m \in Media : FindFree(m, at[m]) \/ at[m] = Unplugged,
         NEW m \in Media
  PROVE  PoolStep(m)
<1> DEFINE h == Holder(m)
           k == Holder(m)'
<1>0. /\ AreKnown(m, h) /\ AreKnown(m, k)
      /\ AreNumbered(m, h, index) /\ AreNumbered(m, k, index')
      /\ AreLost(m, h, lost) /\ AreLost(m, k, lost')
      /\ AreFree(m, h)
  BY HoldersBeforeAndAfter
<1> HIDE DEF h, k
<1>1. \A i \in Ports(m) : i # Unplugged /\ i # NoPort
  BY PortsAreNumbers DEF Unplugged, NoPort
<1>2. \A q \in Parties : index'[<<m, q>>] = IF q = p THEN at[m] ELSE index[<<m, q>>]
  BY EndShape DEF Plug
<1>3. lost' = lost
  BY DEF Plug
<1>4. CASE at[m] \in Ports(m)
  <2>1. at[m] \in FreePorts(m) /\ \A j \in FreePorts(m) : at[m] <= j
    BY <1>1, <1>4 DEF FindFree
  <2>2. h[at[m]] = Nobody
    BY <1>4, <2>1, <1>0 DEF AreFree
  <2>3. \A j \in Ports(m) : h[j] = Nobody => at[m] <= j
    BY <2>1, <1>0 DEF AreFree
  <2>4. ASSUME NEW i \in Ports(m) PROVE h[i] # p
    <3>1. index[<<m, p>>] # i
      BY <1>1
    <3>2. h[i] = p <=> index[<<m, p>>] = i
      BY <1>0 DEF AreNumbered
    <3>3. QED BY <3>1, <3>2
  <2>5. ASSUME NEW i \in Ports(m)
        PROVE  k[i] = IF i = at[m] THEN p ELSE h[i]
    <3>1. CASE i = at[m]
      <4>1. index'[<<m, p>>] = i
        BY <1>2, <3>1
      <4>2. k[i] = p <=> index'[<<m, p>>] = i
        BY <1>0 DEF AreNumbered
      <4>3. QED BY <3>1, <4>1, <4>2
    <3>2. CASE i # at[m]
      <4>1. ASSUME NEW q \in Parties PROVE k[i] = q <=> h[i] = q
        <5>1. index'[<<m, q>>] = i <=> index[<<m, q>>] = i
          BY <1>1, <1>2, <3>2
        <5>2. /\ h[i] = q <=> index[<<m, q>>] = i
              /\ k[i] = q <=> index'[<<m, q>>] = i
          BY <1>0 DEF AreNumbered
        <5>3. QED BY <5>1, <5>2
      <4>2. k[i] = Lost <=> h[i] = Lost
        BY <1>3, <1>0 DEF AreLost
      <4>3. QED BY <3>2, <4>1, <4>2, <1>0 DEF AreKnown
    <3>3. QED BY <3>1, <3>2
  <2>6. Holder(m)' = [Holder(m) EXCEPT ![at[m]] = p]
    BY <2>5, HolderFun DEF h, k
  <2>7. QED BY <1>4, <2>2, <2>3, <2>4, <2>6 DEF PoolStep, Acquires, h
<1>5. CASE at[m] \notin Ports(m)
  <2>1. ASSUME NEW i \in Ports(m) PROVE k[i] = h[i]
    <3>1. ASSUME NEW q \in Parties PROVE k[i] = q <=> h[i] = q
      <4>1. index'[<<m, q>>] = i <=> index[<<m, q>>] = i
        BY <1>1, <1>2, <1>5
      <4>2. /\ h[i] = q <=> index[<<m, q>>] = i
            /\ k[i] = q <=> index'[<<m, q>>] = i
        BY <1>0 DEF AreNumbered
      <4>3. QED BY <4>1, <4>2
    <3>2. k[i] = Lost <=> h[i] = Lost
      BY <1>3, <1>0 DEF AreLost
    <3>3. QED BY <3>1, <3>2, <1>0 DEF AreKnown
  <2>2. Holder(m)' = Holder(m)
    BY <2>1, HolderFun DEF h, k
  <2>3. QED BY <2>2 DEF PoolStep
<1>6. QED BY <1>4, <1>5

(* Parties that leave give back what they held; a call whose stream of the *)
(* medium does not run loses it.                                           *)
LEMMA UnplugIsPoolStep ==
  ASSUME HolderFacts, HolderFacts', NEW P \in SUBSET Parties, Unplug(P), NEW m \in Media,
         \/ \A p \in P : ~Streamless(m, p)
         \/ \E p \in P : P = {p} /\ Streamless(m, p)
  PROVE  PoolStep(m)
<1> DEFINE h == Holder(m)
           k == Holder(m)'
<1>0. /\ AreKnown(m, h) /\ AreKnown(m, k)
      /\ AreNumbered(m, h, index) /\ AreNumbered(m, k, index')
      /\ AreLost(m, h, lost) /\ AreLost(m, k, lost')
      /\ AreFree(m, h)
  BY HoldersBeforeAndAfter
<1> HIDE DEF h, k
<1>1. \A i \in Ports(m) : i # Unplugged /\ <<m, i>> \in Slots
  BY PortsAreNumbers, SlotShape DEF Unplugged
<1>2. \A q \in Parties : index'[<<m, q>>] = IF q \in P THEN Unplugged ELSE index[<<m, q>>]
  BY EndShape DEF Unplug, UnplugEnds
<1>3. \A i \in Ports(m) :
        <<m, i>> \in lost' <=> <<m, i>> \in lost \/ \E p \in P : index[<<m, p>>] = i /\ Streamless(m, p)
  BY <1>1 DEF Unplug
<1>4. ASSUME NEW i \in Ports(m), NEW q \in Parties
      PROVE  k[i] = q <=> h[i] = q /\ q \notin P
  <2>1. index'[<<m, q>>] = i <=> index[<<m, q>>] = i /\ q \notin P
    BY <1>1, <1>2
  <2>2. /\ h[i] = q <=> index[<<m, q>>] = i
        /\ k[i] = q <=> index'[<<m, q>>] = i
    BY <1>0 DEF AreNumbered
  <2>3. QED BY <2>1, <2>2
<1>5. CASE \A p \in P : ~Streamless(m, p)
  <2>1. ASSUME NEW i \in Ports(m)
        PROVE  k[i] = IF h[i] \in P THEN Nobody ELSE h[i]
    <3>1. k[i] = Lost <=> h[i] = Lost
      BY <1>3, <1>5, <1>0 DEF AreLost
    <3>2. CASE h[i] \in P
      BY <1>4, <3>1, <3>2, MarksDiffer, <1>0 DEF AreKnown
    <3>3. CASE h[i] \notin P
      BY <1>4, <3>1, <3>3, MarksDiffer, <1>0 DEF AreKnown
    <3>4. QED BY <3>2, <3>3
  <2>2. Releases(m, P)
    BY <2>1, HolderFun DEF Releases, h, k
  <2>3. QED BY <2>2 DEF PoolStep
<1>6. CASE \E p \in P : P = {p} /\ Streamless(m, p)
  <2>1. PICK p \in P : P = {p} /\ Streamless(m, p)
    BY <1>6
  <2>2. ASSUME NEW i \in Ports(m)
        PROVE  k[i] = IF h[i] = p THEN Lost ELSE h[i]
    <3>1. k[i] = Lost <=> h[i] = Lost \/ h[i] = p
      <4>1. h[i] = p <=> index[<<m, p>>] = i
        BY <1>0 DEF AreNumbered
      <4>2. <<m, i>> \in lost' <=> <<m, i>> \in lost \/ index[<<m, p>>] = i
        BY <1>3, <2>1
      <4>3. QED BY <1>0, <4>1, <4>2 DEF AreLost
    <3>2. CASE h[i] = p
      BY <3>1, <3>2
    <3>3. CASE h[i] # p
      BY <1>4, <2>1, <3>1, <3>3, MarksDiffer, <1>0 DEF AreKnown
    <3>4. QED BY <3>2, <3>3
  <2>3. Loses(m, p)
    BY <2>2, HolderFun DEF Loses, h, k
  <2>4. QED BY <2>1, <2>3 DEF PoolStep
<1>7. QED BY <1>5, <1>6

(* With no numbers given out and none lost, every port is free.            *)
LEMMA AllFree ==
  ASSUME HolderFacts, HolderFacts', lost' = {}, \A e \in Ends : index'[e] = Unplugged,
         NEW m \in Media
  PROVE  PoolStep(m)
<1> DEFINE h == Holder(m)
           k == Holder(m)'
<1>0. /\ AreKnown(m, h) /\ AreKnown(m, k)
      /\ AreNumbered(m, h, index) /\ AreNumbered(m, k, index')
      /\ AreLost(m, h, lost) /\ AreLost(m, k, lost')
      /\ AreFree(m, h)
  BY HoldersBeforeAndAfter
<1> HIDE DEF h, k
<1>1. \A i \in Ports(m) : k[i] = Nobody
  <2> SUFFICES ASSUME NEW i \in Ports(m) PROVE k[i] = Nobody
    OBVIOUS
  <2>1. i # Unplugged /\ \A p \in Parties : index'[<<m, p>>] = Unplugged
    BY EndShape, PortsAreNumbers DEF Unplugged
  <2>2. ASSUME NEW p \in Parties PROVE k[i] # p
    <3>1. k[i] = p <=> index'[<<m, p>>] = i
      BY <1>0 DEF AreNumbered
    <3>2. QED BY <2>1, <3>1
  <2>3. k[i] # Lost
    BY <1>0 DEF AreLost
  <2>4. QED BY <2>2, <2>3, <1>0 DEF AreKnown
<1>2. Closes(m)
  BY <1>1, HolderFun DEF Closes, h, k
<1>3. QED BY <1>2 DEF PoolStep

(* Every step of the conference is one of the pool, or none.               *)
LEMMA ConferenceStepsPools ==
  ASSUME ConferenceInv, ConferenceInv', [Next]_vars, NEW m \in Media
  PROVE  PoolStep(m)
<1>0. HolderFacts /\ HolderFacts' /\ TypeOK /\ Presence
  <2>1. ConferenceInv' => HolderFacts'
    BY HoldersAreIndexes, PTL
  <2>2. QED BY <2>1, HoldersAreIndexes DEF ConferenceInv
<1>1. ASSUME UNCHANGED <<index, lost>> PROVE PoolStep(m)
  BY <1>1 DEF PoolStep, Holder, Held, Holds
<1>2. CASE Abort \/ UNCHANGED vars
  BY <1>1, <1>2 DEF Abort, vars, conf, ports
<1>3. ASSUME NEW p \in Parties, NEW at \in [Media -> Int], Plug(p, at), p \notin members \cup device,
             \A n \in Media : FindFree(n, at[n]) \/ at[n] = Unplugged
      PROVE  PoolStep(m)
  BY <1>0, <1>3, PlugIsPoolStep, AbsentIsUnplugged
<1>4. ASSUME NEW P \in SUBSET (Webcams \cup {SndCard}), Unplug(P) PROVE PoolStep(m)
  <2>1. P \in SUBSET Parties /\ \A p \in P : ~Streamless(m, p)
    BY ConferenceAssumption DEF Parties, Streamless
  <2>2. QED BY <1>0, <1>4, <2>1, UnplugIsPoolStep
<1>5. ASSUME NEW c \in Calls, TakeOut(c) PROVE PoolStep(m)
  <2>1. {c} \in SUBSET Parties /\ Unplug({c})
    BY <1>5 DEF Parties, TakeOut
  <2>2. (\A p \in {c} : ~Streamless(m, p)) \/ \E p \in {c} : {c} = {p} /\ Streamless(m, p)
    OBVIOUS
  <2>3. QED BY <1>0, <2>1, <2>2, UnplugIsPoolStep
<1>6. ASSUME NEW b \in BOOLEAN, Start(b) PROVE PoolStep(m)
  <2>1. lost' = {} /\ \A e \in Ends : index'[e] = Unplugged
    BY <1>0, <1>6 DEF Start, NewPorts, Presence, MembershipAgrees
  <2>2. QED BY <1>0, <2>1, AllFree
<1>7. CASE StopAll
  <2>1. lost' = {} /\ \A e \in Ends : index'[e] = Unplugged
    BY <1>0, <1>7 DEF StopAll, UnplugEnds, NewPorts, Presence, MembershipAgrees
  <2>2. QED BY <1>0, <2>1, AllFree
<1>8. ASSUME NEW c \in Calls, AddMember(c) PROVE PoolStep(m)
  <2>1. PICK a \in Ports("audio") \cup {NoPort}, v \in Ports("video") \cup {NoPort, Unplugged} :
           /\ FindFree("audio", a)
           /\ FindFree("video", v) \/ v = Unplugged
           /\ Plug(c, [n \in Media |-> IF n = "audio" THEN a ELSE v])
    BY <1>8 DEF AddMember
  <2> DEFINE at == [n \in Media |-> IF n = "audio" THEN a ELSE v]
  <2>2. at \in [Media -> Int]
    BY PortsAreNumbers DEF Media, NoPort, Unplugged
  <2>3. \A n \in Media : FindFree(n, at[n]) \/ at[n] = Unplugged
    BY <2>1 DEF Media
  <2>4. Plug(c, at)
    BY <2>1
  <2> HIDE DEF at
  <2>5. c \in Parties /\ c \notin members \cup device
    BY <1>0, <1>8, ConferenceAssumption DEF AddMember, Presence, MembershipAgrees, TypeOK, Parties
  <2>6. QED BY <1>3, <2>2, <2>3, <2>4, <2>5
<1>9. CASE AddSndCard
  <2>1. PICK i \in Ports("audio") :
           /\ FindFree("audio", i)
           /\ Plug(SndCard, [n \in Media |-> IF n = "audio" THEN i ELSE Unplugged])
    BY <1>9 DEF AddSndCard
  <2> DEFINE at == [n \in Media |-> IF n = "audio" THEN i ELSE Unplugged]
  <2>2. at \in [Media -> Int]
    BY PortsAreNumbers DEF Media, Unplugged
  <2>3. \A n \in Media : FindFree(n, at[n]) \/ at[n] = Unplugged
    BY <2>1 DEF Media
  <2>4. Plug(SndCard, at)
    BY <2>1
  <2> HIDE DEF at
  <2>5. SndCard \in Parties /\ SndCard \notin members \cup device
    BY <1>0, <1>9, ConferenceAssumption DEF AddSndCard, TypeOK, Parties
  <2>6. QED BY <1>3, <2>2, <2>3, <2>4, <2>5
<1>10. ASSUME NEW w \in Webcams, AddWebcam(w) PROVE PoolStep(m)
  <2>1. PICK i \in Ports("video") :
           /\ FindFree("video", i)
           /\ Plug(w, [n \in Media |-> IF n = "video" THEN i ELSE Unplugged])
    BY <1>10 DEF AddWebcam
  <2> DEFINE at == [n \in Media |-> IF n = "video" THEN i ELSE Unplugged]
  <2>2. at \in [Media -> Int]
    BY PortsAreNumbers DEF Media, Unplugged
  <2>3. \A n \in Media : FindFree(n, at[n]) \/ at[n] = Unplugged
    BY <2>1 DEF Media
  <2>4. Plug(w, at)
    BY <2>1
  <2> HIDE DEF at
  <2>5. w \in Parties /\ w \notin members \cup device
    BY <1>0, <1>10, ConferenceAssumption DEF AddWebcam, TypeOK, Parties
  <2>6. QED BY <1>3, <2>2, <2>3, <2>4, <2>5
<1>11. ASSUME NEW w \in Webcams, RemoveWebcam(w) PROVE PoolStep(m)
  BY <1>4, <1>11 DEF RemoveWebcam
<1>12. CASE RemoveSndCard \/ RemoveAllWebcams
  BY <1>4, <1>12 DEF RemoveSndCard, RemoveAllWebcams
<1>13. ASSUME NEW c \in Calls, RemoveMember(c) PROVE PoolStep(m)
  BY <1>2, <1>5, <1>13 DEF RemoveMember
<1>14. ASSUME NEW c \in Calls, CallTerminated(c) PROVE PoolStep(m)
  <2>1. Abort \/ TakeOut(c) \/ UNCHANGED ports
    BY <1>14 DEF CallTerminated
  <2>2. QED BY <1>1, <1>2, <1>5, <2>1 DEF ports
<1>15. ASSUME NEW c \in Calls, CallStreamsRunning(c) \/ CallPaused(c) \/ CallUpdated(c)
       PROVE  PoolStep(m)
  BY <1>1, <1>15 DEF CallStreamsRunning, CallPaused, CallUpdated, conf, ports
<1>16. ASSUME NEW b \in BOOLEAN, EnableAutoLayout(b) PROVE PoolStep(m)
  BY <1>1, <1>16 DEF EnableAutoLayout, ports
<1>17. ASSUME NEW S, NEW b \in BOOLEAN, SetMuted(S, b) PROVE PoolStep(m)
  BY <1>1, <1>17 DEF SetMuted
<1>18. CASE Stop
  BY <1>2, <1>7, <1>18 DEF Stop
<1>19. QED
  BY <1>2, <1>6, <1>8, <1>9, <1>10, <1>11, <1>12, <1>13, <1>14, <1>15, <1>16, <1>17, <1>18
     DEF Next, MuteAllOutputs, MuteOutput

(* The audio ports and the video ports are bounded pools: a party gets the *)
(* lowest free port, nobody gets one that is held, and what is given back  *)
(* or lost is what the leaver held.                                        *)
THEOREM ConferencePortsArePools == Spec => PortsArePools
<1>1. Init => AudioPool!Init /\ VideoPool!Init
  <2> SUFFICES ASSUME Init, NEW m \in Media PROVE Holder(m) = [i \in Ports(m) |-> Nobody]
    BY DEF AudioPool!Init, VideoPool!Init, Media
  <2>1. ASSUME NEW i \in Ports(m) PROVE ~Held(<<m, i>>) /\ <<m, i>> \notin lost
    BY <2>1, SlotShape, EndShape, SlotsAreNotMarks DEF Init, Held, Holds
  <2>2. QED BY <2>1 DEF Holder
<1>2. ConferenceInv /\ ConferenceInv' /\ [Next]_vars
        => [AudioPool!Next]_(Holder("audio")) /\ [VideoPool!Next]_(Holder("video"))
  <2> SUFFICES ASSUME ConferenceInv, ConferenceInv', [Next]_vars
               PROVE  /\ AudioPool!Next \/ Holder("audio")' = Holder("audio")
                      /\ VideoPool!Next \/ Holder("video")' = Holder("video")
    OBVIOUS
  <2>1. PoolStep("audio") /\ PoolStep("video")
    BY ConferenceStepsPools DEF Media
  <2>2. AudioPool!Next \/ Holder("audio")' = Holder("audio")
    BY <2>1 DEF PoolStep, Acquires, Releases, Loses, Closes, AudioPool!Next, AudioPool!Acquire,
                AudioPool!Free, AudioPool!Release, AudioPool!Lose, AudioPool!Close
  <2>3. VideoPool!Next \/ Holder("video")' = Holder("video")
    BY <2>1 DEF PoolStep, Acquires, Releases, Loses, Closes, VideoPool!Next, VideoPool!Acquire,
                VideoPool!Free, VideoPool!Release, VideoPool!Lose, VideoPool!Close
  <2>4. QED BY <2>2, <2>3
<1>3. QED BY <1>1, <1>2, ConferenceInvariant, PTL DEF Spec, PortsArePools, AudioPool!Spec, VideoPool!Spec
=============================================================================
