------------------------------ MODULE MSTicker ------------------------------
(***************************************************************************)
(* The ticker of msticker.c: a thread that runs graphs of filters in each  *)
(* tick, while the main thread attaches, detaches and destroys.            *)
(*                                                                         *)
(* A graph is walked from its sources, depth first; a filter whose inputs  *)
(* have not all been filled in this tick is put off, and what is still put *)
(* off at the end is run regardless, which is how loops are run.  The      *)
(* recursion of run_graph is kept as the sequence todo of the calls that   *)
(* are still to be made.  The ticker's lock is held for the whole walk;    *)
(* filters are prepared and finished outside it.                           *)
(*                                                                         *)
(* One step is not the ticker's own: a stream that receives another        *)
(* payload type replaces its decoder from inside the process function of   *)
(* its receiver, that is, in the middle of the walk (videostream.c).       *)
(***************************************************************************)
EXTENDS Naturals, Sequences, SequencesExt

CONSTANTS
  Filters,
  Sources,    (* the filters without inputs                                 *)
  OutputPins, (* filter -> the filters its output pins are ever linked to   *)
  Receiver,   (* rtprecv of a stream                                        *)
  Decoders,   (* the decoders its stream uses, one at a time, and each      *)
              (* linked as the one before it was                            *)
  Graphs,     (* the sets of links the application makes at once            *)
  Handles,    (* the filters by which the application attaches and detaches *)
  MaxTicks    (* bound: the count starts again at 0 after it, where the     *)
              (* code's does after 2^32 ticks, that is 497 days             *)

Links == {l \in Filters \X Filters : \E i \in DOMAIN OutputPins[l[1]] : OutputPins[l[1]][i] = l[2]}

EndsOf(links) == {l[1] : l \in links} \cup {l[2] : l \in links}

ASSUME TickerAssumption ==
  /\ IsFiniteSet(Filters)
  /\ Sources \subseteq Filters /\ Decoders \subseteq Filters
  /\ Receiver \in Filters \ Decoders
  /\ Handles \subseteq Filters \ Decoders
  /\ OutputPins \in [Filters -> Seq(Filters)]
  /\ \A l \in Links : l[2] \notin Sources
  /\ \A f \in Filters, d \in Decoders : <<f, d>> \in Links <=> f = Receiver
  /\ \A d, e \in Decoders : OutputPins[d] = OutputPins[e]
  /\ MaxTicks \in Nat /\ MaxTicks > 1

(* ms_fatal ends the program if a graph has no source or a filter uses     *)
(* none of its outputs; a receiver has one decoder.                        *)
ASSUME GraphsAssumption ==
  \A G \in Graphs :
    /\ G \subseteq Links
    /\ EndsOf(G) \cap Sources # {}
    /\ \A f \in EndsOf(G) : OutputPins[f] # <<>> => \E l \in G : l[1] = f
    /\ \A f \in EndsOf(G) \ Sources : \E l \in G : l[2] = f
    /\ \A d, e \in EndsOf(G) \cap Decoders : d = e

VARIABLES
  linked,         (* the links that are made                                *)
  scheduled,      (* the filters with f->ticker # NULL                      *)
  last_tick,      (* filter -> f->last_tick                                 *)
  execution_list, (* the sources to start from                              *)
  ticks, run,     (* of the ticker                                          *)
  tpc,            (* the ticker's thread: it waits, is in a tick or is gone *)
  todo, unschedulable, force, (* of the tick                                *)
  mpc,            (* where the main thread's call is                        *)
  filters,        (* the filters it has found and not yet dealt with        *)
  sources,        (* the sources among them                                 *)
  ran             (* history: the filters run in this tick                  *)

tick == <<ticks, tpc, todo, unschedulable, force, ran>>
call == <<mpc, filters, sources>>
graphs == <<linked, scheduled, last_tick, execution_list, run>>
tickerVars == <<graphs, tick, call>>

LockIsFree == tpc # "tick"

(* The least set with S that rel does not lead out of.                     *)
Closed(S, rel) == \A l \in rel : l[1] \in S => l[2] \in S

Least(S, rel) ==
  LET closed == {T \in SUBSET Filters : S \subseteq T /\ Closed(T, rel)}
  IN  {f \in Filters : \A T \in closed : f \in T}

(* What is left of the sequence s at the places K.                         *)
Nth(K, k) == CHOOSE i \in K : Cardinality({j \in K : j <= i}) = k
Kept(s, K) == [k \in 1 .. Cardinality(K) |-> s[Nth(K, k)]]

(* find_filters goes up and down the links.                                *)
BothWays == linked \cup {<<l[2], l[1]>> : l \in linked}
Neighbours(f) == Least({f}, BothWays)

-----------------------------------------------------------------------------
(***************************************************************************)
(* The main thread.  The application makes all links of a graph before it  *)
(* attaches it, removes them when it has detached it, and destroys a       *)
(* ticker when it has detached its filters.                                *)
(***************************************************************************)
Link(G) ==
  /\ mpc = "idle" /\ EndsOf(G) \cap EndsOf(linked) = {}
  /\ linked' = linked \cup G
  /\ UNCHANGED <<scheduled, last_tick, execution_list, run, tick, call>>

Unlink(f) ==
  /\ mpc = "idle" /\ f \in EndsOf(linked) \ scheduled
  /\ \E found \in {Neighbours(f)} : linked' = {l \in linked : l[1] \notin found}
  /\ UNCHANGED <<scheduled, last_tick, execution_list, run, tick, call>>

(* The order of the sources is that of the search, here any.               *)
Attach(f) ==
  /\ mpc = "idle" /\ tpc # "off"
  /\ f \in EndsOf(linked) \ scheduled
  /\ \E found \in {Neighbours(f)} :
       /\ filters' = found
       /\ sources' \in SetToSeqs(found \cap Sources)
  /\ mpc' = "attach"
  /\ UNCHANGED <<graphs, tick>>

(* The next of a list whose order does not matter.                         *)
IsFirst(f, S) == S # {} /\ f = CHOOSE g \in S : TRUE

(* Mutant: ms_filter_preprocess does not reset last_tick.                  *)
PreprocessedKept(ticked, f) == ticked

Preprocessed(ticked, f) == [ticked EXCEPT ![f] = 0]

Preprocess(f) ==
  /\ mpc = "attach" /\ IsFirst(f, filters)
  /\ last_tick' = Preprocessed(last_tick, f)
  /\ scheduled' = scheduled \cup {f}
  /\ filters' = filters \ {f}
  /\ UNCHANGED <<linked, execution_list, run, tick, mpc, sources>>

AttachSources ==
  /\ mpc = "attach" /\ filters = {}
  /\ LockIsFree
  /\ execution_list' = execution_list \o sources
  /\ mpc' = "idle"
  /\ UNCHANGED <<linked, scheduled, last_tick, run, tick, filters, sources>>

(* f is kept in filters until the lock is taken.                           *)
Detach(f) ==
  /\ mpc = "idle" /\ f \in scheduled
  /\ mpc' = "detach"
  /\ filters' = {f}
  /\ UNCHANGED <<graphs, tick, sources>>

(* Mutant: only the first source is taken off the list.                    *)
RemoveOne(list, S) == IF S = {} THEN list ELSE RemoveFirst(list, CHOOSE f \in S : TRUE)

RemoveAll(list, S) ==
  Kept(list, {i \in DOMAIN list : list[i] \in S => \E j \in 1 .. i - 1 : list[j] = list[i]})

DetachSources ==
  /\ mpc = "detach"
  /\ LockIsFree
  /\ \E f \in filters : filters' = Neighbours(f)
  /\ execution_list' = RemoveAll(execution_list, filters' \cap Sources)
  /\ mpc' = "postprocess"
  /\ UNCHANGED <<linked, scheduled, last_tick, run, tick, sources>>

Postprocess(f) ==
  /\ mpc = "postprocess" /\ IsFirst(f, filters)
  /\ scheduled' = scheduled \ {f}
  /\ filters' = filters \ {f}
  /\ mpc' = IF filters' = {} THEN "idle" ELSE "postprocess"
  /\ UNCHANGED <<linked, last_tick, execution_list, run, tick, sources>>

New ==
  /\ mpc = "idle" /\ tpc = "off"
  /\ run' = TRUE /\ ticks' = 1 /\ tpc' = "wait"
  /\ execution_list' = <<>>
  /\ UNCHANGED <<linked, scheduled, last_tick, todo, unschedulable, force, ran, call>>

Destroy ==
  /\ mpc = "idle" /\ tpc # "off" /\ scheduled = {}
  /\ mpc' = "stop"
  /\ UNCHANGED <<graphs, tick, filters, sources>>

StopRun ==
  /\ mpc = "stop" /\ LockIsFree
  /\ run' = FALSE
  /\ mpc' = "join"
  /\ UNCHANGED <<linked, scheduled, last_tick, execution_list, tick, filters, sources>>

Join ==
  /\ mpc = "join" /\ tpc = "off"
  /\ mpc' = "idle"
  /\ UNCHANGED <<graphs, tick, filters, sources>>

InCall ==
  \/ \E f \in Filters : Preprocess(f) \/ Postprocess(f)
  \/ AttachSources \/ DetachSources \/ StopRun \/ Join

Main ==
  \/ \E G \in Graphs : Link(G)
  \/ \E f \in Handles : Unlink(f) \/ Attach(f) \/ Detach(f)
  \/ New \/ Destroy \/ InCall

-----------------------------------------------------------------------------
(***************************************************************************)
(* The ticker's thread.                                                    *)
(***************************************************************************)
BeginTick ==
  /\ tpc = "wait" /\ run
  /\ tpc' = "tick"
  /\ ticks' = IF ticks = MaxTicks THEN 0 ELSE ticks + 1
  /\ todo' = execution_list
  /\ unschedulable' = <<>>
  /\ force' = FALSE
  /\ ran' = {}
  /\ UNCHANGED <<graphs, call>>

(* Mutant: one input that was filled is enough.                            *)
CanProcessSome(f) ==
  f \in Sources \/ \E g \in Filters : <<g, f>> \in linked /\ last_tick[g] = ticks

CanProcess(f) == \A g \in Filters : <<g, f>> \in linked => last_tick[g] = ticks

OutputsOf(f, links) ==
  Kept(OutputPins[f], {i \in DOMAIN OutputPins[f] : <<f, OutputPins[f][i]>> \in links})

IsNext(f) == tpc = "tick" /\ todo # <<>> /\ f = Head(todo)

Skip(f) ==
  /\ IsNext(f) /\ last_tick[f] = ticks
  /\ todo' = Tail(todo)
  /\ UNCHANGED <<graphs, ticks, tpc, unschedulable, force, ran, call>>

(* Mutant: what cannot be run yet is not remembered.                       *)
PutOffForgotten(list, f) == list

PutOff(list, f) == <<f>> \o list

Postpone(f) ==
  /\ IsNext(f) /\ last_tick[f] # ticks /\ ~CanProcess(f) /\ ~force
  /\ unschedulable' = PutOff(unschedulable, f)
  /\ todo' = Tail(todo)
  /\ UNCHANGED <<graphs, ticks, tpc, force, ran, call>>

MayRun(f) == IsNext(f) /\ last_tick[f] # ticks /\ (CanProcess(f) \/ force)

Run(f) ==
  /\ MayRun(f)
  /\ last_tick' = [last_tick EXCEPT ![f] = ticks]
  /\ ran' = ran \cup {f}
  /\ todo' = OutputsOf(f, linked) \o Tail(todo)
  /\ UNCHANGED <<linked, scheduled, execution_list, run, ticks, tpc, unschedulable, force, call>>

(* The receiver finds another payload type: decoder d makes way for e.     *)
Replaced(links, d, e) ==
  {<<IF l[1] = d THEN e ELSE l[1], IF l[2] = d THEN e ELSE l[2]>> : l \in links}

RunAndChangeDecoder(d, e) ==
  LET f == Receiver IN
  /\ MayRun(f) /\ <<f, d>> \in linked
  /\ e \notin EndsOf(linked)
  /\ linked' = Replaced(linked, d, e)
  /\ scheduled' = (scheduled \ {d}) \cup {e}
  /\ last_tick' = Preprocessed([last_tick EXCEPT ![f] = ticks], e)
  /\ ran' = ran \cup {f}
  /\ todo' = OutputsOf(f, linked') \o Tail(todo)
  /\ UNCHANGED <<execution_list, run, ticks, tpc, unschedulable, force, call>>

(* Mutant: the forced round puts off again what was put off.               *)
LeftOverKept(list) == list

LeftOver(list) == <<>>

ForceRound ==
  /\ tpc = "tick" /\ todo = <<>> /\ unschedulable # <<>>
  /\ force' = TRUE
  /\ todo' = unschedulable
  /\ unschedulable' = LeftOver(unschedulable)
  /\ UNCHANGED <<graphs, ticks, tpc, ran, call>>

EndTick ==
  /\ tpc = "tick" /\ todo = <<>> /\ unschedulable = <<>>
  /\ tpc' = "wait"
  /\ UNCHANGED <<graphs, ticks, todo, unschedulable, force, ran, call>>

Exit ==
  /\ tpc = "wait" /\ ~run
  /\ tpc' = "off"
  /\ UNCHANGED <<graphs, ticks, todo, unschedulable, force, ran, call>>

Ticker ==
  \/ BeginTick \/ ForceRound \/ EndTick \/ Exit
  \/ \E f \in Filters : Skip(f) \/ Postpone(f) \/ Run(f)
  \/ \E d, e \in Decoders : RunAndChangeDecoder(d, e)

TickerInit ==
  /\ linked = {} /\ scheduled = {}
  /\ last_tick = [f \in Filters |-> 0]
  /\ execution_list = <<>>
  /\ ticks = 1 /\ run = TRUE /\ tpc = "wait"
  /\ todo = <<>> /\ unschedulable = <<>> /\ force = FALSE
  /\ mpc = "idle" /\ filters = {} /\ sources = <<>>
  /\ ran = {}

TickerNext == Main \/ Ticker

(* The ticker's thread runs for ever.  It leaves the lock between ticks    *)
(* and mostly sleeps then, so that a call that waits for the lock gets it. *)
TickerFairness == WF_tickerVars(Ticker) /\ SF_tickerVars(InCall)

TickerSpec == TickerInit /\ [][TickerNext]_tickerVars /\ TickerFairness

-----------------------------------------------------------------------------
TickerTypeOK ==
  /\ linked \in SUBSET Links
  /\ scheduled \in SUBSET Filters
  /\ last_tick \in [Filters -> 0 .. MaxTicks]
  /\ execution_list \in Seq(Filters)
  /\ ticks \in 0 .. MaxTicks /\ run \in BOOLEAN
  /\ tpc \in {"wait", "tick", "off"}
  /\ todo \in Seq(Filters) /\ unschedulable \in Seq(Filters) /\ force \in BOOLEAN
  /\ mpc \in {"idle", "attach", "detach", "postprocess", "stop", "join"}
  /\ filters \in SUBSET Filters /\ sources \in Seq(Filters)
  /\ ran \in SUBSET Filters

(* The thread is never led to a filter that is not prepared, is finished   *)
(* or was replaced: what it will start from, call or come back to is       *)
(* scheduled, although filters are prepared and finished outside the lock. *)
OnlyScheduledRun ==
  /\ Range(execution_list) \subseteq scheduled
  /\ tpc = "tick" => Range(todo) \cup Range(unschedulable) \subseteq scheduled

(* Both: the state of the ticker and of its callers is sound.              *)
TickerInv == TickerTypeOK /\ OnlyScheduledRun

(* In the tick counted 0, that a filter has the last_tick it was prepared  *)
(* with says that it has run: those that are new since the tick before     *)
(* miss it, and with them what only they lead to.                          *)
Fresh == {f \in Filters \ ran : ticks = 0 /\ last_tick[f] = 0}
Missing == Least(Fresh, linked)

(* Each filter that the sources lead to runs exactly once in each tick, in *)
(* a loop or not, whether it was run by another ticker before, and even if *)
(* decoders are replaced under way.  In the tick counted 0 only those do   *)
(* that the sources lead to without passing a new filter.                  *)
RunsOncePerTick ==
  [][/\ \A f \in Filters : MayRun(f) => f \notin ran
     /\ EndTick => Least(Range(execution_list) \ Fresh, {l \in linked : l[2] \notin Fresh}) \subseteq ran
    ]_tickerVars

(* Frames pass a graph in one tick: a filter runs after all filters before *)
(* it, unless it is in a loop or behind one or those before it miss the    *)
(* tick.                                                                   *)
InOrBehindLoop(f) ==
  \E S \in SUBSET Filters : f \in S /\ \A g \in S : \E h \in S : <<h, g>> \in linked

UpstreamFirst ==
  [][\A f, g \in Filters :
       MayRun(f) /\ <<g, f>> \in linked => g \in ran \cup Missing \/ InOrBehindLoop(f)]_tickerVars

(* Attaching, detaching and destroying return.                             *)
CallsReturn == mpc # "idle" ~> mpc = "idle"
=============================================================================
