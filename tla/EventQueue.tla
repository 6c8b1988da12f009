----------------------------- MODULE EventQueue -----------------------------
(***************************************************************************)
(* The queue of eventqueue.c by which the filters, run by ticker threads,  *)
(* notify the main thread, which runs the callbacks from                   *)
(* linphone_core_iterate.  It is a ring of bytes: an event lies in one     *)
(* piece, and one that does not fit before the end is put at the start.    *)
(* Only freeroom is updated under the mutex.  All tickers share the queue, *)
(* and their events have different sizes.                                  *)
(*                                                                         *)
(* An event that does not find enough room is dropped, which changes       *)
(* nothing: it is a stuttering step.                                       *)
(***************************************************************************)
EXTENDS Integers, Sequences

CONSTANTS
  Tickers,    (* the threads whose filters notify                           *)
  Sizes,      (* the sizes of events, with their header                     *)
  BufSize,    (* MS_EVENT_BUF_SIZE                                          *)
  Garbage,    (* what the reader makes of bytes that are not an event       *)
  MaxEvents   (* bound: events that are accepted                            *)

Events == [from : Tickers, id : 1 .. MaxEvents, size : Sizes]

ASSUME EventQueueAssumption ==
  /\ BufSize \in Nat \ {0}
  /\ Sizes \subseteq 1 .. BufSize
  /\ MaxEvents \in Nat
  /\ Garbage \notin Events

VARIABLES
  buffer,    (* offset -> <<event, how far into it>>, or Garbage            *)
  wptr, rptr, endptr, freeroom,
  wpc, hand, (* ticker -> where its write_event is; the event it writes     *)
  nextpos,   (* ticker -> its local variable nextpos                        *)
  rpc,       (* where read_event is                                         *)
  accepted,  (* history: the events that were put into the queue            *)
  upto,      (* history: upto[n] is what the first n of them take           *)
  delivered, (* history: the events whose callbacks have run                *)
  orderly    (* history: no two tickers have written at the same time, and  *)
             (* the writer has gone back to the start from the end only     *)

writer == <<wptr, endptr, wpc, hand, nextpos, accepted, upto>>
reader == <<rptr, rpc, delivered>>
vars   == <<buffer, freeroom, writer, reader, orderly>>

Offsets == 0 .. BufSize - 1
Cells   == (Events \X Offsets) \cup {Garbage}

(* The event under way, or the next one, of a ticker that is at l.         *)
At(w, l) == wpc[w] = l
Goto(w, l) == wpc' = [wpc EXCEPT ![w] = l]

-----------------------------------------------------------------------------
(* write_event.                                                            *)

(* Whether an event of this ticker is written alone, and either fits       *)
(* before the end or finds the writer there.                               *)
InOrder(w, size) ==
  /\ \A v \in Tickers \ {w} : At(v, "idle")
  /\ wptr + size <= BufSize \/ wptr = BufSize

(* Mutant: the header is forgotten.                                        *)
FitsWithoutHeader(size) == freeroom >= size - 1

Fits(size) == freeroom >= size

Notify(w, size) ==
  /\ At(w, "idle")
  /\ Len(accepted) < MaxEvents
  /\ Fits(size)
  /\ hand' = [hand EXCEPT ![w] = [from |-> w, id |-> Len(accepted) + 1, size |-> size]]
  /\ nextpos' = [nextpos EXCEPT ![w] = wptr + size]
  /\ Goto(w, IF wptr + size > BufSize THEN "wrap" ELSE "fill")
  /\ orderly' = (orderly /\ InOrder(w, size))
  /\ UNCHANGED <<buffer, wptr, endptr, freeroom, accepted, upto, reader>>

Wrap(w) ==
  /\ At(w, "wrap")
  /\ endptr' = wptr
  /\ wptr' = 0
  /\ nextpos' = [nextpos EXCEPT ![w] = hand[w].size]
  /\ Goto(w, "fill")
  /\ UNCHANGED <<buffer, freeroom, hand, accepted, upto, reader, orderly>>

(* What two tickers may write past the end does not come back.             *)
Fill(w) ==
  /\ At(w, "fill")
  /\ buffer' = [x \in Offsets |-> IF x \in wptr .. wptr + hand[w].size - 1
                                  THEN <<hand[w], x - wptr>>
                                  ELSE buffer[x]]
  /\ wptr' = nextpos[w]
  /\ accepted' = Append(accepted, hand[w])
  /\ upto' = [n \in 0 .. Len(accepted) + 1 |->
               IF n <= Len(accepted) THEN upto[n] ELSE upto[n - 1] + hand[w].size]
  /\ Goto(w, "account")
  /\ UNCHANGED <<endptr, freeroom, hand, nextpos, reader, orderly>>

Account(w) ==
  /\ At(w, "account")
  /\ freeroom' = freeroom - hand[w].size
  /\ Goto(w, "idle")
  /\ UNCHANGED <<buffer, wptr, endptr, hand, nextpos, accepted, upto, reader, orderly>>

-----------------------------------------------------------------------------
(* read_event, again and again by ms_event_queue_pump.                     *)

(* The event that lies whole at offset p, or Garbage.                      *)
EventAt(p) ==
  IF \E e \in Events : \A k \in 0 .. e.size - 1 :
       p + k \in Offsets /\ buffer[p + k] = <<e, k>>
  THEN CHOOSE e \in Events : \A k \in 0 .. e.size - 1 :
         p + k \in Offsets /\ buffer[p + k] = <<e, k>>
  ELSE Garbage

(* Mutant: an event that is only a header does not count.                  *)
AvailableLate == BufSize - freeroom > 1

Available == BufSize - freeroom > 0

(* After a callback on bytes that are not an event all is lost.            *)
Callback ==
  /\ rpc = "idle"
  /\ Available
  /\ delivered' = Append(delivered, EventAt(rptr))
  /\ rpc' = IF EventAt(rptr) = Garbage THEN "lost" ELSE "step"
  /\ UNCHANGED <<buffer, freeroom, writer, rptr, orderly>>

(* Mutant: the reader does not go back to the start.                       *)
NextReadOn(p) == p

NextRead(p) == IF p >= endptr THEN 0 ELSE p

Latest == delivered[Len(delivered)]

Step ==
  /\ rpc = "step"
  /\ rptr' = NextRead(rptr + Latest.size)
  /\ rpc' = "release"
  /\ UNCHANGED <<buffer, freeroom, writer, delivered, orderly>>

Release ==
  /\ rpc = "release"
  /\ freeroom' = freeroom + Latest.size
  /\ rpc' = "idle"
  /\ UNCHANGED <<buffer, writer, rptr, delivered, orderly>>

-----------------------------------------------------------------------------
Init ==
  /\ buffer = [x \in Offsets |-> Garbage]
  /\ wptr = 0 /\ rptr = 0 /\ endptr = BufSize /\ freeroom = BufSize
  /\ wpc = [w \in Tickers |-> "idle"]
  /\ hand = [w \in Tickers |-> Garbage]
  /\ nextpos = [w \in Tickers |-> 0]
  /\ rpc = "idle"
  /\ accepted = <<>> /\ upto = [n \in {0} |-> 0] /\ delivered = <<>>
  /\ orderly = TRUE

Write(w) ==
  \/ \E size \in Sizes : Notify(w, size)
  \/ Wrap(w) \/ Fill(w) \/ Account(w)

Read == Callback \/ Step \/ Release

Next == Read \/ \E w \in Tickers : Write(w)

(* linphone_core_iterate pumps the queue for ever, until it is empty, and  *)
(* a ticker that has begun to write an event goes on.                      *)
Fairness ==
  /\ WF_vars(Read)
  /\ \A w \in Tickers : WF_vars(Wrap(w) \/ Fill(w) \/ Account(w))

Spec == Init /\ [][Next]_vars /\ Fairness

-----------------------------------------------------------------------------
TypeOK ==
  /\ buffer \in [Offsets -> Cells]
  /\ wptr \in 0 .. BufSize /\ rptr \in 0 .. BufSize
  /\ endptr \in 0 .. BufSize /\ freeroom \in 0 .. BufSize
  /\ wpc \in [Tickers -> {"idle", "wrap", "fill", "account"}]
  /\ hand \in [Tickers -> Events \cup {Garbage}]
  /\ nextpos \in [Tickers -> 0 .. 2 * BufSize]
  /\ rpc \in {"idle", "step", "release", "lost"}
  /\ accepted \in Seq(Events)
  /\ upto \in [0 .. Len(accepted) -> Nat]
  /\ delivered \in Seq(Events \cup {Garbage})

(* The callbacks that have run are those of the events received, in the    *)
(* order they were received: none is run twice, skipped or made up, even   *)
(* when the ring wraps around or is full.                                  *)
CallbacksMatchEvents ==
  /\ Len(delivered) <= Len(accepted)
  /\ \A i \in 1 .. Len(delivered) : delivered[i] = accepted[i]

(* The ring is this good as long as the writes are orderly: then endptr is *)
(* the end, no room is left over, and the positions line up.  How many     *)
(* events the reader has freed, and how many it has passed:                *)
Released == IF rpc \in {"step", "release"} THEN Len(delivered) - 1 ELSE Len(delivered)
Passed   == IF rpc = "step" THEN Len(delivered) - 1 ELSE Len(delivered)

(* the events that count,                                                  *)
Counted == IF \E w \in Tickers : At(w, "account") THEN Len(accepted) - 1 ELSE Len(accepted)

(* the place of the event after the n-th, which may be a lap ahead.        *)
Place(n) == rptr + (upto[n] - upto[Passed])
Slot(x) == IF x < BufSize THEN x ELSE x - BufSize

(* The sizes add up,                                                       *)
SizesAddUp ==
  /\ upto[0] = 0
  /\ \A n \in 1 .. Len(accepted) : upto[n] = upto[n - 1] + accepted[n].size
  /\ \A m, n \in 0 .. Len(accepted) : m <= n => upto[m] <= upto[n]

(* the reader's position is sound,                                         *)
ReaderInv ==
  /\ rpc # "lost"
  /\ rpc # "idle" => Len(delivered) > 0
  /\ rptr < BufSize
  /\ endptr = BufSize
  /\ Len(delivered) <= Counted

(* and that of the one ticker that writes, which has the room it needs;    *)
WriterInv(w) ==
  /\ \A v \in Tickers \ {w} : At(v, "idle") \/ At(w, "idle")
  /\ ~At(w, "idle") => hand[w] \in Events
  /\ At(w, "account") => Len(accepted) > 0 /\ hand[w] = accepted[Len(accepted)]
  /\ At(w, "wrap") => wptr = BufSize
  /\ At(w, "fill") => nextpos[w] = wptr + hand[w].size /\ nextpos[w] <= BufSize
  /\ At(w, "wrap") \/ At(w, "fill") => hand[w].size <= freeroom

(* what is taken from freeroom is what the events take that count and are  *)
(* not released, and all that are not released have room in the ring;      *)
RoomInv ==
  /\ freeroom = BufSize - (upto[Counted] - upto[Released])
  /\ upto[Len(accepted)] - upto[Released] <= BufSize

(* the events to come lie in the ring one after the other, in one piece.   *)
RingHolds ==
  /\ \E lap \in {0, BufSize, -BufSize} : wptr = Place(Len(accepted)) + lap
  /\ \A n \in Passed + 1 .. Len(accepted) :
       /\ Place(n) <= BufSize \/ Place(n - 1) >= BufSize
       /\ \A k \in 0 .. accepted[n].size - 1 :
            buffer[Slot(Place(n - 1) + k)] = <<accepted[n], k>>

(* As long as the writes are orderly no event is lost, made up or          *)
(* overwritten, whatever its size, whoever sends it, however often the     *)
(* ring wraps around or is full (write_event, read_event).                 *)
Sound ==
  /\ TypeOK
  /\ CallbacksMatchEvents
  /\ SizesAddUp
  /\ ReaderInv
  /\ \A w \in Tickers : WriterInv(w)
  /\ RoomInv
  /\ RingHolds

RingInv == orderly => Sound

OnTheirWay == SubSeq(accepted, Len(delivered) + 1, Len(accepted))

Channel == INSTANCE FrameChannel WITH Frames <- Events, transit <- OnTheirWay

(* To the tickers and to the main thread the ring is a channel, until the  *)
(* writes are no longer orderly.                                           *)
RingIsChannel ==
  Channel!Init /\ [][orderly => Channel!Next]_<<OnTheirWay, delivered>>

(* An event that was accepted gets its callback, unless writes come that   *)
(* are not orderly.                                                        *)
EventsAreDelivered ==
  \A n \in 1 .. MaxEvents : Len(accepted) >= n ~> (Len(delivered) >= n \/ ~orderly)
=============================================================================
