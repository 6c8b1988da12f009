------------------------------ MODULE ConfItc -------------------------------
(***************************************************************************)
(* The inter-ticker filters of conf_itc.c around one slot queue.           *)
(*                                                                         *)
(* The writers are the sink filters that are connected to the queue one    *)
(* after the other as parties come and go, each run by the ticker thread   *)
(* of its party; the reader is the source filter run by the mixer's ticker *)
(* thread.  The main thread connects and disconnects filters by writing    *)
(* their conf_slot_q pointer, without a lock, while the ticker threads run *)
(* them; the threads load that pointer again for every use.  A list        *)
(* operation on the queue is a load and a store of the list.               *)
(***************************************************************************)
EXTENDS Naturals, Sequences

CONSTANTS
  Writers,    (* the sink filters                                           *)
  Reader,     (* the source filter                                          *)
  Nobody,     (* the owner of a free lock                                   *)
  NoFrame,    (* a thread has no frame in hand                              *)
  MaxFrames   (* bound: frames each writer's graph produces                 *)

Frames == Writers \X (1 .. MaxFrames)

ASSUME ItcAssumption ==
  /\ Reader \notin Writers
  /\ Nobody \notin Writers \cup {Reader}
  /\ NoFrame \notin Frames
  /\ MaxFrames \in Nat

VARIABLES
  connected, (* filter -> its conf_slot_q is the queue; FALSE: it is NULL   *)
  muted,     (* writer -> the muted flag of the sink                        *)
  produced,  (* writer -> number of frames its graph has produced           *)
  input,     (* writer -> the frames on the sink's input                    *)
  q,         (* the list of the slot queue                                  *)
  lock,      (* the owner of the queue's mutex                              *)
  pc,        (* filter -> where its process call is                         *)
  seen,      (* filter -> the list as its list operation loaded it          *)
  hand,      (* filter -> the mblk_t in a local variable                    *)
  written,   (* history: the frames put into the queue                      *)
  delivered, (* the frames the source has passed on                         *)
  crashed    (* a thread has used a NULL conf_slot_q                        *)

vars == <<connected, muted, produced, input, q, lock, pc, seen, hand, written, delivered, crashed>>

Filters == Writers \cup {Reader}

Goto(f, l) == pc' = [pc EXCEPT ![f] = l]

(* The thread of filter f dereferences conf_slot_q; what it does with a    *)
(* NULL pointer is to crash the process.                                   *)
NullDereference(f) ==
  /\ pc[f] \in {"lock", "load", "unlock", "unlockGot"}
  /\ ~connected[f]
  /\ crashed' = TRUE
  /\ UNCHANGED <<connected, muted, produced, input, q, lock, pc, seen, hand, written, delivered>>

(* Mutant: the lock is taken whoever has it.                               *)
LockBarging(f) ==
  /\ pc[f] = "lock" /\ connected[f]
  /\ lock' = f
  /\ Goto(f, "load")
  /\ UNCHANGED <<connected, muted, produced, input, q, seen, hand, written, delivered, crashed>>

Lock(f) ==
  /\ pc[f] = "lock" /\ connected[f]
  /\ lock = Nobody
  /\ lock' = f
  /\ Goto(f, "load")
  /\ UNCHANGED <<connected, muted, produced, input, q, seen, hand, written, delivered, crashed>>

Load(f) ==
  /\ pc[f] = "load" /\ connected[f]
  /\ seen' = [seen EXCEPT ![f] = q]
  /\ Goto(f, "store")
  /\ UNCHANGED <<connected, muted, produced, input, q, lock, hand, written, delivered, crashed>>

(* Mutant: the lock is not given back.                                     *)
UnlockForgotten(f, l, next) ==
  /\ pc[f] = l /\ connected[f]
  /\ Goto(f, next)
  /\ UNCHANGED <<connected, muted, produced, input, q, lock, seen, hand, written, delivered, crashed>>

Unlock(f, l, next) ==
  /\ pc[f] = l /\ connected[f]
  /\ lock' = Nobody
  /\ Goto(f, next)
  /\ UNCHANGED <<connected, muted, produced, input, q, seen, hand, written, delivered, crashed>>

-----------------------------------------------------------------------------
(* conf_tic_sink_process.                                                  *)

(* The ticker has run the graph up to the sink: a tick brings one or two   *)
(* frames.                                                                 *)
Tick(w) ==
  /\ pc[w] = "idle"
  /\ \E n \in 1 .. 2 :
       /\ produced[w] + n <= MaxFrames
       /\ produced' = [produced EXCEPT ![w] = @ + n]
       /\ input' = [input EXCEPT ![w] = @ \o [i \in 1 .. n |-> <<w, produced[w] + i>>]]
  /\ Goto(w, "check")
  /\ UNCHANGED <<connected, muted, q, lock, seen, hand, written, delivered, crashed>>

(* A sink that is not connected or muted drops its input.                  *)
SinkCheck(w) ==
  /\ pc[w] = "check"
  /\ IF ~connected[w] \/ muted[w]
     THEN input' = [input EXCEPT ![w] = <<>>] /\ Goto(w, "idle")
     ELSE UNCHANGED input /\ Goto(w, "get")
  /\ UNCHANGED <<connected, muted, produced, q, lock, seen, hand, written, delivered, crashed>>

SinkGet(w) ==
  /\ pc[w] = "get"
  /\ IF input[w] = <<>>
     THEN Goto(w, "idle") /\ UNCHANGED <<input, hand>>
     ELSE /\ hand' = [hand EXCEPT ![w] = Head(input[w])]
          /\ input' = [input EXCEPT ![w] = Tail(@)]
          /\ Goto(w, "lock")
  /\ UNCHANGED <<connected, muted, produced, q, lock, seen, written, delivered, crashed>>

(* ms_queue_put of a copy of the frame.                                    *)
SinkStore(w) ==
  /\ pc[w] = "store"
  /\ q' = Append(seen[w], hand[w])
  /\ written' = Append(written, hand[w])
  /\ hand' = [hand EXCEPT ![w] = NoFrame]
  /\ Goto(w, "unlock")
  /\ UNCHANGED <<connected, muted, produced, input, lock, seen, delivered, crashed>>

Sink(w) ==
  \/ SinkCheck(w) \/ SinkGet(w)
  \/ Lock(w) \/ Load(w) \/ SinkStore(w) \/ Unlock(w, "unlock", "get")
  \/ NullDereference(w)

-----------------------------------------------------------------------------
(* conf_tic_source_process.                                                *)

SourceCheck ==
  /\ pc[Reader] = "idle" /\ connected[Reader]
  /\ Goto(Reader, "lock")
  /\ UNCHANGED <<connected, muted, produced, input, q, lock, seen, hand, written, delivered, crashed>>

(* Mutant: the frame is looked at and left on the list.                    *)
SourceStorePeeks ==
  /\ pc[Reader] = "store" /\ seen[Reader] # <<>>
  /\ hand' = [hand EXCEPT ![Reader] = Head(seen[Reader])]
  /\ Goto(Reader, "unlockGot")
  /\ UNCHANGED <<connected, muted, produced, input, q, lock, seen, written, delivered, crashed>>

(* ms_queue_get; the loop ends when the list is empty.                     *)
SourceStore ==
  /\ pc[Reader] = "store"
  /\ IF seen[Reader] = <<>>
     THEN Goto(Reader, "unlock") /\ UNCHANGED <<q, hand>>
     ELSE /\ hand' = [hand EXCEPT ![Reader] = Head(seen[Reader])]
          /\ q' = Tail(seen[Reader])
          /\ Goto(Reader, "unlockGot")
  /\ UNCHANGED <<connected, muted, produced, input, lock, seen, written, delivered, crashed>>

(* The frame goes downstream outside the lock.                             *)
SourceDeliver ==
  /\ pc[Reader] = "deliver"
  /\ delivered' = Append(delivered, hand[Reader])
  /\ hand' = [hand EXCEPT ![Reader] = NoFrame]
  /\ Goto(Reader, "lock")
  /\ UNCHANGED <<connected, muted, produced, input, q, lock, seen, written, crashed>>

Source ==
  \/ SourceCheck
  \/ Lock(Reader) \/ Load(Reader) \/ SourceStore
  \/ Unlock(Reader, "unlock", "idle") \/ Unlock(Reader, "unlockGot", "deliver")
  \/ SourceDeliver
  \/ NullDereference(Reader)

-----------------------------------------------------------------------------
(* The main thread.  A port serves one party at a time.                    *)

Connect(f) ==
  /\ ~connected[f]
  /\ f \in Writers => \A w \in Writers : ~connected[w]
  /\ connected' = [connected EXCEPT ![f] = TRUE]
  /\ UNCHANGED <<muted, produced, input, q, lock, pc, seen, hand, written, delivered, crashed>>

Disconnect(f) ==
  /\ connected[f]
  /\ connected' = [connected EXCEPT ![f] = FALSE]
  /\ UNCHANGED <<muted, produced, input, q, lock, pc, seen, hand, written, delivered, crashed>>

(* sink_mute and sink_unmute refuse while the sink is not connected.       *)
SetSinkMuted(w, b) ==
  /\ connected[w]
  /\ muted[w] # b
  /\ muted' = [muted EXCEPT ![w] = b]
  /\ UNCHANGED <<connected, produced, input, q, lock, pc, seen, hand, written, delivered, crashed>>

-----------------------------------------------------------------------------
Init ==
  /\ connected = [f \in Filters |-> FALSE]
  /\ muted = [w \in Writers |-> FALSE]
  /\ produced = [w \in Writers |-> 0]
  /\ input = [w \in Writers |-> <<>>]
  /\ q = <<>>
  /\ lock = Nobody
  /\ pc = [f \in Filters |-> "idle"]
  /\ seen = [f \in Filters |-> <<>>]
  /\ hand = [f \in Filters |-> NoFrame]
  /\ written = <<>>
  /\ delivered = <<>>
  /\ crashed = FALSE

Threads ==
  \/ \E w \in Writers : Tick(w) \/ Sink(w)
  \/ Source

Main ==
  \/ \E f \in Filters : Connect(f) \/ Disconnect(f)
  \/ \E w \in Writers, b \in BOOLEAN : SetSinkMuted(w, b)

Next == ~crashed /\ (Threads \/ Main)

(* Each ticker thread goes on with a process call it has begun, and the    *)
(* mixer's ticker comes back every tick; nothing makes a party send.       *)
Fairness == /\ \A w \in Writers : WF_vars(~crashed /\ Sink(w))
            /\ WF_vars(~crashed /\ Source)

Spec == Init /\ [][Next]_vars /\ Fairness

-----------------------------------------------------------------------------
Labels == {"idle", "check", "get", "lock", "load", "store", "unlock", "unlockGot", "deliver"}

(* Every variable holds a value of its kind.                               *)
TypeOK ==
  /\ connected \in [Filters -> BOOLEAN]
  /\ muted \in [Writers -> BOOLEAN]
  /\ produced \in [Writers -> 0 .. MaxFrames]
  /\ input \in [Writers -> Seq(Frames)]
  /\ q \in Seq(Frames)
  /\ lock \in Filters \cup {Nobody}
  /\ pc \in [Filters -> Labels]
  /\ seen \in [Filters -> Seq(Frames)]
  /\ hand \in [Filters -> Frames \cup {NoFrame}]
  /\ written \in Seq(Frames)
  /\ delivered \in Seq(Frames)
  /\ crashed \in BOOLEAN

(* The frame the source has taken off the queue and not yet passed on.     *)
Taken == IF hand[Reader] = NoFrame THEN <<>> ELSE <<hand[Reader]>>

(* Nothing put into the queue is lost, repeated or overtaken on its way    *)
(* through the two threads, although put and get are several steps, the    *)
(* source leaves the lock between frames and filters come and go.          *)
FramesInOrder == written = delivered \o Taken \o q

(* The same as a refinement: the queue is a FrameChannel.                  *)
Channel == INSTANCE FrameChannel WITH transit <- Taken \o q
QueueIsChannel == Channel!Spec

(* What has been queued reaches the mixer, unless the port is unplugged.   *)
FramesGetThrough == q # <<>> ~> q = <<>> \/ ~connected[Reader] \/ crashed

(* The inductive invariant: a thread between lock and unlock owns the      *)
(* lock, what it has loaded is the list, and frames are accounted for.     *)
Critical == {"load", "store", "unlock", "unlockGot"}

OwnerInside == \A f \in Filters : pc[f] \in Critical <=> lock = f

LoadedIsCurrent == \A f \in Filters : pc[f] = "store" => seen[f] = q

HandsHold ==
  /\ \A w \in Writers : pc[w] \in {"lock", "load", "store"} => hand[w] \in Frames
  /\ hand[Reader] # NoFrame <=> pc[Reader] \in {"unlockGot", "deliver"}

LockInv == OwnerInside /\ LoadedIsCurrent /\ HandsHold

ItcInv == TypeOK /\ LockInv /\ FramesInOrder
=============================================================================
