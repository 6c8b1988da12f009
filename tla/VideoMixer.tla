----------------------------- MODULE VideoMixer -----------------------------
(***************************************************************************)
(* The picture mixer of msvideomixer: video_mixer.c and mixer_layouts.c.   *)
(*                                                                         *)
(* Input i carries the pictures of video port i.  Each input that is       *)
(* active gets a region of the layout made for that many regions, in the   *)
(* order of the inputs, and the whole frame goes to every output, each     *)
(* time the input that delivers most pictures has delivered.  With two     *)
(* active inputs there are two frames instead: input 0 is shown to all     *)
(* outputs but 0, another one to output 0.                                 *)
(*                                                                         *)
(* The video ticker runs all of this, again and again within a tick as     *)
(* long as an input has pictures left (msticker.c, call_process).  The     *)
(* main thread mutes inputs and asks for updates under the mixer's lock,   *)
(* which mixer_process holds from start to end.                            *)
(***************************************************************************)
EXTENDS Integers, FiniteSets, FiniteSetsExt

CONSTANTS
  NInputs,      (* the inputs in use, MIXER_MAX_INPUTS at most              *)
  NLayouts,     (* the layouts of video_mixer_default_layout: 9             *)
  Timeout,      (* MIXER_INPUT_TIMEOUT, in ticks                            *)
  MaxCounter,   (* the count at which the counters start again: 20          *)
  Ahead,        (* what the pin controller keeps then: 3                    *)
  Mutable,      (* bound: the inputs that are muted and unmuted             *)
  Resizing,     (* bound: the inputs whose pictures change their size       *)
  Black,        (* no picture                                               *)
  NoScaler      (* sws_ctx is NULL                                          *)

Inputs  == 0 .. NInputs - 1
Outputs == 0 .. NInputs      (* the last one: the recorder and the display  *)
Regions == 0 .. NLayouts - 1

(* The width of region r of the layout for n regions, in percent.          *)
Width(n, r) ==
  IF n = 1 THEN 100
  ELSE IF n \in 2 .. 4 THEN 50
  ELSE IF n = 6 /\ r = 0 THEN 65
  ELSE 33

Widths == {100, 65, 50, 33}

ASSUME VideoMixerAssumption ==
  /\ NInputs \in Nat \ {0}
  /\ NLayouts \in Nat /\ NInputs <= NLayouts
  /\ Timeout \in Nat
  /\ MaxCounter \in Nat /\ Ahead \in 0 .. MaxCounter
  /\ Mutable \subseteq Inputs /\ Resizing \subseteq Inputs
  /\ Black \notin Outputs
  /\ NoScaler \notin Widths

VARIABLES
  queue,          (* the inputs whose queues hold pictures                  *)
  age,            (* input -> ticks since last_frame_time, Timeout + 1 at most *)
  active, muted,  (* the inputs with that flag                              *)
  counter,        (* input -> pictures counted                              *)
  scaler,         (* input -> the width its sws_ctx scales to, or NoScaler  *)
  nregions, pin_controller, force_update,
  frame,          (* region -> whose picture it shows                       *)
  amd,            (* whose picture frame_amd_mode shows                     *)
  sent            (* the outputs that got a frame from the last process     *)

vars == <<queue, age, active, muted, counter, scaler, nregions, pin_controller,
          force_update, frame, amd, sent>>

-----------------------------------------------------------------------------
(* check_inputs.                                                           *)

TimedOut(i) == i \notin queue /\ (age[i] > Timeout \/ force_update)

ActiveNow ==
  {i \in Inputs \ muted : i \in queue \/ (i \in active /\ ~TimedOut(i))}

(* The inputs with pictures, those of muted inputs being thrown away.      *)
Ready == queue \ muted

NActive == Cardinality(ActiveNow)

(* mixer_update_layout finds no layout for no regions.                     *)
NRegions == IF NActive \in 1 .. NLayouts THEN NActive ELSE nregions

-----------------------------------------------------------------------------
(* mixer_reset_all, when the number of active inputs is not nregions.      *)

Relayout == NActive # nregions

(* Mutant: the frames are not made black.                                  *)
CleanFrameKept == frame

CleanFrame == IF Relayout THEN [r \in Regions |-> Black] ELSE frame

CleanAmd == IF Relayout THEN Black ELSE amd

CleanCounter(i) == IF Relayout THEN 0 ELSE counter[i]

(* Mutant: the scalers are kept.                                           *)
CleanScalerKept(i) == IF TimedOut(i) THEN NoScaler ELSE scaler[i]

CleanScaler(i) == IF Relayout \/ TimedOut(i) THEN NoScaler ELSE scaler[i]

-----------------------------------------------------------------------------
(* input_info_process: a scaler is made once, and when the size of the     *)
(* pictures changes.                                                       *)
Scale(drawn, resized, to) ==
  [i \in Inputs |->
     IF i \in drawn /\ (CleanScaler(i) = NoScaler \/ i \in resized)
     THEN to[i] ELSE CleanScaler(i)]

(* Two regions: the pictures fill the frames.                              *)
Full == [i \in Inputs |-> Width(1, 0)]

Others == Ready \ {0}

TwoParties(resized) ==
  LET drawn == (Ready \cap {0}) \cup (IF Others = {} THEN {} ELSE {Min(Others)})
  IN /\ frame' = [r \in Regions |-> IF r = 0 /\ 0 \in Ready THEN 0 ELSE CleanFrame[r]]
     /\ amd' = IF Others = {} THEN CleanAmd ELSE Min(Others)
     /\ scaler' = Scale(drawn, resized, Full)
     /\ queue' = Ready \ drawn
     /\ counter' = [i \in Inputs |-> CleanCounter(i)]
     /\ pin_controller' = IF Relayout THEN 0 ELSE pin_controller
     /\ sent' = (IF Others = {} THEN {} ELSE {0})
                \cup (IF 0 \in Ready THEN Outputs \ {0} ELSE {})

(* Other layouts: region by region.                                        *)
Place(i) == Cardinality({j \in ActiveNow : j < i})

WidthOfPlace == [i \in Inputs |-> Width(NRegions, Place(i))]

Counted(i) == IF i \in Ready THEN CleanCounter(i) + 1 ELSE CleanCounter(i)

MaxCount == Max({Counted(i) : i \in Inputs})

(* Mutant: an input stays the controller for good.                         *)
FastestKept == pin_controller

Fastest == IF MaxCount = 0 THEN 0 ELSE Min({i \in Inputs : Counted(i) = MaxCount})

Composition(resized) ==
  /\ frame' = [r \in Regions |->
                 IF \E i \in Ready : Place(i) = r
                 THEN CHOOSE i \in Ready : Place(i) = r
                 ELSE CleanFrame[r]]
  /\ amd' = CleanAmd
  /\ scaler' = Scale(Ready, resized, WidthOfPlace)
  /\ queue' = {}
  /\ pin_controller' = Fastest
  /\ counter' = [i \in Inputs |-> IF MaxCount <= MaxCounter THEN Counted(i)
                                  ELSE IF i = Fastest THEN Ahead ELSE 0]
  /\ sent' = IF age'[Fastest] = 0 THEN Outputs ELSE {}

(* mixer_process.                                                          *)
Process ==
  /\ queue # {}
  /\ age' = [i \in Inputs |-> IF i \in queue THEN 0 ELSE age[i]]
  /\ active' = ActiveNow
  /\ force_update' = FALSE
  /\ nregions' = NRegions
  /\ \E resized \in SUBSET (Ready \cap Resizing) :
       IF NRegions = 2 THEN TwoParties(resized) ELSE Composition(resized)
  /\ UNCHANGED muted

-----------------------------------------------------------------------------
(* The next tick: the filters before the mixer deliver pictures.  It comes *)
(* when the mixer has none left (call_process).                            *)
Tick ==
  /\ queue = {}
  /\ queue' \in SUBSET Inputs
  /\ age' = [i \in Inputs |-> IF age[i] > Timeout THEN age[i] ELSE age[i] + 1]
  /\ sent' = {}
  /\ UNCHANGED <<active, muted, counter, scaler, nregions, pin_controller,
                 force_update, frame, amd>>

(* The calls of the main thread.                                           *)
Mute(i) ==
  /\ muted' = muted \cup {i}
  /\ UNCHANGED <<queue, age, active, counter, scaler, nregions, pin_controller,
                 force_update, frame, amd, sent>>

Unmute(i) ==
  /\ muted' = muted \ {i}
  /\ UNCHANGED <<queue, age, active, counter, scaler, nregions, pin_controller,
                 force_update, frame, amd, sent>>

RequestVfu ==
  /\ force_update' = TRUE
  /\ UNCHANGED <<queue, age, active, muted, counter, scaler, nregions,
                 pin_controller, frame, amd, sent>>

Init ==
  /\ queue = {} /\ active = {} /\ muted = {} /\ sent = {}
  /\ age = [i \in Inputs |-> Timeout + 1]
  /\ counter = [i \in Inputs |-> 0]
  /\ scaler = [i \in Inputs |-> NoScaler]
  /\ nregions = 0 /\ pin_controller = 0 /\ force_update = FALSE
  /\ frame = [r \in Regions |-> Black] /\ amd = Black

Next ==
  \/ Process \/ Tick \/ RequestVfu
  \/ \E i \in Mutable : Mute(i) \/ Unmute(i)

(* The ticker thread runs for ever.                                        *)
Spec == Init /\ [][Next]_vars /\ WF_vars(Process) /\ WF_vars(Tick)

-----------------------------------------------------------------------------
TypeOK ==
  /\ queue \in SUBSET Inputs /\ active \in SUBSET Inputs /\ muted \in SUBSET Inputs
  /\ age \in [Inputs -> 0 .. Timeout + 1]
  /\ counter \in [Inputs -> 0 .. MaxCounter]
  /\ scaler \in [Inputs -> Widths \cup {NoScaler}]
  /\ nregions \in 0 .. NLayouts
  /\ pin_controller \in Inputs
  /\ force_update \in BOOLEAN
  /\ frame \in [Regions -> Inputs \cup {Black}]
  /\ amd \in Inputs \cup {Black}
  /\ sent \in SUBSET Outputs

(* A picture is drawn in a region of the layout in use, never in one       *)
(* beyond it, and there are as many regions as active inputs.              *)
DrawsInLayout ==
  /\ \A r \in Regions : frame[r] # Black => r < nregions
  /\ active # {} => Cardinality(active) = nregions

(* "special mode to enable video conference with 1 guy: DO NOT send him    *)
(* his own picture": while two regions are in use no output gets a frame   *)
(* in which its own input is seen.                                         *)
NoOwnPicture ==
  nregions = 2 =>
    \A o \in sent : IF o = 0 THEN amd # 0 ELSE \A r \in Regions : frame[r] # o

(* What the two of them rest on: in the layout for two, the frame that all *)
(* outputs but 0 get shows input 0 only, and the other one never does.     *)
TwoFrames ==
  nregions = 2 => amd # 0 /\ \A r \in Regions : frame[r] \in {0, Black}

(* Where no layout has regions of two sizes, an input that has a scaler    *)
(* has the one for all the regions of the layout.                          *)
ScalersFit ==
  NInputs <= 5 =>
    \A i \in Inputs :
      scaler[i] \in {NoScaler, IF nregions = 2 THEN Width(1, 0) ELSE Width(nregions, 0)}

MixerInv == TypeOK /\ DrawsInLayout /\ TwoFrames /\ ScalersFit

(* A picture that is drawn has the size of its region: it is scaled to the *)
(* region it is drawn in now, not to one its input had before.             *)
PictureFitsItsRegion ==
  [][Process => \A i \in Ready \ queue' :
       scaler'[i] = IF nregions' = 2 THEN Width(1, 0) ELSE WidthOfPlace[i]]_vars

(* As long as input 0, where a picture of the conference stands in for a   *)
(* missing party, delivers, every output gets frames, whichever input is   *)
(* the pin controller, and whoever comes, goes, stops sending or is muted. *)
EveryOutputGetsFrames ==
  ([]<>(0 \in queue) /\ <>[](0 \notin muted)) => \A o \in Outputs : []<>(o \in sent)

(* The inputs seen in the frames that were sent.                           *)
Shown ==
  LET seen == {frame[r] : r \in Regions} \ {Black}
  IN IF nregions # 2 THEN (IF sent = {} THEN {} ELSE seen)
     ELSE (IF sent \ {0} = {} THEN {} ELSE seen)
          \cup (IF 0 \in sent THEN {amd} ELSE {})

(* The last picture of an input that has stopped for good is not shown for *)
(* ever, even when another input took its place in the same tick, so that  *)
(* the frame was not made black.                                           *)
GonePicturesFade ==
  \A i \in Inputs : <>[](i \notin active) => <>[](i \notin Shown)
=============================================================================
