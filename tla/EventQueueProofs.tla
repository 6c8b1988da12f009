-------------------------- MODULE EventQueueProofs --------------------------
(***************************************************************************)
(* Proofs about EventQueue.tla, for any tickers, any sizes of events and   *)
(* any size of the ring: as long as the writes are orderly the ring is     *)
(* sound, and a channel.  Sound is inductive; what makes it so is that the *)
(* places of the events follow from their sizes added up.                  *)
(***************************************************************************)
EXTENDS EventQueue, SequenceTheorems, TLAPS

(* Every event takes some room, at most the whole ring.                    *)
LEMMA EventFacts ==
  /\ BufSize \in Nat /\ BufSize > 0 /\ MaxEvents \in Nat
  /\ Offsets = 0 .. BufSize - 1
  /\ Garbage \notin Events
  /\ \A e \in Events : e.size \in Nat /\ 0 < e.size /\ e.size <= BufSize
<1>1. /\ BufSize \in Nat /\ BufSize > 0 /\ MaxEvents \in Nat
      /\ \A s \in Sizes : s \in Nat /\ 0 < s /\ s <= BufSize
  BY EventQueueAssumption
<1>2. \A e \in Events : e.size \in Sizes
  BY DEF Events
<1>3. QED BY <1>1, <1>2, EventQueueAssumption DEF Offsets

(* What lies whole at an offset.                                           *)
LEMMA EventAtWhole ==
  ASSUME NEW p \in Offsets, NEW e \in Events,
         \A k \in 0 .. e.size - 1 : p + k \in Offsets /\ buffer[p + k] = <<e, k>>
  PROVE  EventAt(p) = e
<1>1. ASSUME NEW f \in Events,
             \A k \in 0 .. f.size - 1 : p + k \in Offsets /\ buffer[p + k] = <<f, k>>
      PROVE  f = e
  <2>1. 0 \in 0 .. f.size - 1 /\ 0 \in 0 .. e.size - 1
    BY EventFacts
  <2>2. buffer[p + 0] = <<f, 0>> /\ buffer[p + 0] = <<e, 0>>
    BY <1>1, <2>1
  <2>3. QED BY <2>2
<1>2. QED BY <1>1 DEF EventAt

-----------------------------------------------------------------------------
(* The arithmetic of the ring: of its B places t are in use from r on, and *)
(* w is the next one.  Going back to the start,                            *)
LEMMA WrapArithmetic ==
  ASSUME NEW B \in Nat, NEW r \in Nat, NEW t \in Nat, NEW s \in Nat,
         r < B, 0 < s, t + s <= B, B \in {r + t, r + t - B, r + t + B}
  PROVE  0 \in {r + t, r + t - B, r + t + B}
OBVIOUS

(* using s more of them,                                                   *)
LEMMA FillArithmetic ==
  ASSUME NEW B \in Nat, NEW r \in Nat, NEW w \in Nat, NEW t \in Nat, NEW s \in Nat,
         r < B, 0 < s, w + s <= B, t + s <= B, w \in {r + t, r + t - B, r + t + B}
  PROVE  /\ w + s \in {r + (t + s), r + (t + s) - B, r + (t + s) + B}
         /\ r + (t + s) <= B \/ r + t >= B
         /\ \A k \in 0 .. s - 1 :
              (IF r + t + k < B THEN r + t + k ELSE r + t + k - B) = w + k
         /\ \A y \in 0 .. t - 1 :
              /\ (IF r + y < B THEN r + y ELSE r + y - B) \notin w .. w + s - 1
              /\ (IF r + y < B THEN r + y ELSE r + y - B) \in 0 .. B - 1
<1>1. w = r + t \/ w = r + t - B
  OBVIOUS
<1>2. QED BY <1>1

(* and releasing the first s: the next one, an event between a and b, and  *)
(* the place of y.                                                         *)
LEMMA StepArithmetic ==
  ASSUME NEW B \in Nat, NEW r \in Nat, NEW s \in Nat, NEW q \in Nat,
         r < B, r + s <= B, q = IF r + s >= B THEN 0 ELSE r + s
  PROVE  /\ q < B
         /\ \A w, t \in Nat :
              s <= t /\ t <= B /\ w <= B /\ 0 < s /\ w \in {r + t, r + t - B, r + t + B}
              => w \in {q + (t - s), q + (t - s) - B, q + (t - s) + B}
         /\ \A a, b \in Nat :
              s <= a /\ a < b /\ b <= B /\ (r + b <= B \/ r + a >= B)
              => q + (b - s) <= B \/ q + (a - s) >= B
         /\ \A y \in Nat : s <= y /\ y < B =>
              (IF r + y < B THEN r + y ELSE r + y - B)
                = IF q + (y - s) < B THEN q + (y - s) ELSE q + (y - s) - B
<1>1. CASE r + s = B
  <2>1. q = 0
    BY <1>1
  <2>2. QED BY <1>1, <2>1
<1>2. CASE r + s < B
  <2>1. q = r + s
    BY <1>2
  <2>2. QED BY <1>2, <2>1
<1>3. QED BY <1>1, <1>2

-----------------------------------------------------------------------------
(* The counts of events, in their order, and what those before them take.  *)
LEMMA Numbers ==
  ASSUME Sound
  PROVE  /\ Len(accepted) \in Nat /\ Len(delivered) \in Nat
         /\ Released \in Nat /\ Passed \in Nat /\ Counted \in Nat
         /\ Released <= Passed /\ Passed <= Len(delivered) /\ Len(delivered) <= Counted
         /\ Counted <= Len(accepted)
         /\ \A n \in 0 .. Len(accepted) : upto[n] \in Nat
         /\ upto[Released] \in Nat /\ upto[Passed] \in Nat /\ upto[Counted] \in Nat
         /\ upto[Len(accepted)] \in Nat
         /\ upto[Released] <= upto[Passed] /\ upto[Passed] <= upto[Counted]
         /\ upto[Counted] <= upto[Len(accepted)]
<1> USE DEF Sound
<1>1. Len(accepted) \in Nat /\ Len(delivered) \in Nat
  BY LenProperties DEF TypeOK
<1>2. Released \in Nat /\ Passed \in Nat /\ Released <= Passed /\ Passed <= Len(delivered)
  BY <1>1 DEF Released, Passed, ReaderInv
<1>3. Counted \in Int /\ Counted <= Len(accepted) /\ Len(delivered) <= Counted
  BY <1>1 DEF Counted, ReaderInv
<1>4. Counted \in Nat
  BY <1>1, <1>3
<1>5. {Released, Passed, Counted, Len(accepted)} \subseteq 0 .. Len(accepted)
  BY <1>1, <1>2, <1>3, <1>4
<1>6. \A n \in 0 .. Len(accepted) : upto[n] \in Nat
  BY DEF TypeOK
<1>7. Released <= Passed /\ Passed <= Counted /\ Counted <= Len(accepted)
  BY <1>1, <1>2, <1>3
<1>8. \A m, n \in 0 .. Len(accepted) : m <= n => upto[m] <= upto[n]
  BY DEF SizesAddUp
<1>9. QED BY <1>1, <1>2, <1>3, <1>4, <1>5, <1>6, <1>7, <1>8

LEMMA Accepted ==
  ASSUME Sound
  PROVE  /\ accepted \in Seq(Events)
         /\ \A n \in 1 .. Len(accepted) :
              /\ accepted[n] \in Events /\ accepted[n].size \in Nat /\ 0 < accepted[n].size
              /\ n - 1 \in 0 .. Len(accepted) /\ n \in 0 .. Len(accepted)
              /\ upto[n] = upto[n - 1] + accepted[n].size
<1>1. accepted \in Seq(Events) /\ Len(accepted) \in Nat
  BY LenProperties DEF Sound, TypeOK
<1>2. \A n \in 1 .. Len(accepted) : accepted[n] \in Events
  BY <1>1, ElementOfSeq
<1>3. \A n \in 1 .. Len(accepted) : upto[n] = upto[n - 1] + accepted[n].size
  BY DEF Sound, SizesAddUp
<1>4. QED BY <1>1, <1>2, <1>3, EventFacts

(* A ticker that writes is the only one.                                   *)
LEMMA Alone ==
  ASSUME Sound, NEW w \in Tickers, ~At(w, "idle")
  PROVE  /\ \A v \in Tickers \ {w} : wpc[v] = "idle"
         /\ Counted = IF At(w, "account") THEN Len(accepted) - 1 ELSE Len(accepted)
<1>1. \A v \in Tickers \ {w} : wpc[v] = "idle"
  BY DEF Sound, WriterInv, At
<1>2. (\E v \in Tickers : At(v, "account")) <=> At(w, "account")
  BY <1>1 DEF At
<1>3. QED BY <1>1, <1>2 DEF Counted

LEMMA SoundInit == Init => Sound
<1> SUFFICES ASSUME Init PROVE Sound
  OBVIOUS
<1>1. Len(accepted) = 0 /\ Len(delivered) = 0 /\ upto = [n \in {0} |-> 0]
  BY EmptySeq DEF Init
<1>2. 0 .. Len(accepted) = {0} /\ 0 .. 0 = {0}
  BY <1>1
<1>3. Released = 0 /\ Passed = 0 /\ Counted = 0
  BY <1>1 DEF Init, Released, Passed, Counted, At
<1>4. TypeOK
  BY <1>1, <1>2, EventFacts, EmptySeq DEF Init, TypeOK, Cells
<1>5. CallbacksMatchEvents /\ SizesAddUp
  BY <1>1, <1>2 DEF CallbacksMatchEvents, SizesAddUp
<1>6. ReaderInv /\ RoomInv
  BY <1>1, <1>3, EventFacts DEF Init, ReaderInv, RoomInv
<1>7. \A w \in Tickers : WriterInv(w)
  BY DEF Init, WriterInv, At
<1>8. RingHolds
  BY <1>1, <1>3, EventFacts DEF Init, RingHolds, Place
<1>9. QED BY <1>4, <1>5, <1>6, <1>7, <1>8 DEF Sound

-----------------------------------------------------------------------------
(* Starting to write, alone, before the end or at it: there is room.       *)
LEMMA NotifySound ==
  ASSUME Sound, NEW w \in Tickers, NEW size \in Sizes, Notify(w, size), InOrder(w, size)
  PROVE  Sound'
<1> DEFINE e == [from |-> w, id |-> Len(accepted) + 1, size |-> size]
<1>1. UNCHANGED <<buffer, wptr, endptr, freeroom, accepted, upto, rptr, rpc, delivered>>
  BY DEF Notify, reader
<1>2. /\ wpc[w] = "idle" /\ \A v \in Tickers \ {w} : wpc[v] = "idle"
      /\ hand' = [hand EXCEPT ![w] = e]
      /\ nextpos' = [nextpos EXCEPT ![w] = wptr + size]
      /\ wpc' = [wpc EXCEPT ![w] = IF wptr + size > BufSize THEN "wrap" ELSE "fill"]
      /\ wptr + size <= BufSize \/ wptr = BufSize
      /\ freeroom >= size
  BY DEF Notify, InOrder, At, Goto, Fits
<1>3. TypeOK /\ Len(accepted) \in Nat
  BY Numbers DEF Sound
<1>4. e \in Events /\ e.size = size /\ size \in Nat /\ size <= BufSize
  <2>1. size \in Nat /\ size <= BufSize
    BY EventQueueAssumption
  <2>2. Len(accepted) < MaxEvents
    BY DEF Notify
  <2>3. Len(accepted) + 1 \in 1 .. MaxEvents
    BY <1>3, <2>2, EventFacts
  <2>4. QED BY <2>1, <2>3 DEF Events
<1>5. wptr + size \in 0 .. 2 * BufSize
  BY <1>3, <1>4, EventFacts DEF TypeOK
<1>6. TypeOK'
  BY <1>1, <1>2, <1>3, <1>4, <1>5 DEF TypeOK
<1>7. /\ hand'[w] = e /\ nextpos'[w] = wptr + size
      /\ wpc'[w] = IF wptr + size > BufSize THEN "wrap" ELSE "fill"
      /\ \A v \in Tickers \ {w} : wpc'[v] = "idle"
  BY <1>2, <1>3 DEF TypeOK
<1>8. ASSUME NEW v \in Tickers PROVE WriterInv(v)'
  <2>1. CASE v = w
    <3>1. hand'[w].size = size
      BY <1>4, <1>7
    <3>2. wptr + size > BufSize => wptr = BufSize
      BY <1>2, <1>3, <1>4, EventFacts DEF TypeOK
    <3>3. ~(wptr + size > BufSize) => wptr + size <= BufSize
      BY <1>5, EventFacts
    <3>4. size <= freeroom
      BY <1>2, <1>3, <1>4 DEF TypeOK
    <3>5. /\ wpc'[w] = "wrap" => wptr' = BufSize
          /\ wpc'[w] = "fill" => nextpos'[w] = wptr' + hand'[w].size /\ nextpos'[w] <= BufSize
          /\ hand'[w].size <= freeroom'
      BY <1>1, <1>7, <3>1, <3>2, <3>3, <3>4
    <3>6. wpc'[w] \in {"wrap", "fill"} /\ hand'[w] \in Events
      BY <1>4, <1>7
    <3>7. QED BY <1>7, <2>1, <3>5, <3>6 DEF WriterInv, At
  <2>2. CASE v # w
    BY <1>7, <2>2 DEF WriterInv, At
  <2>3. QED BY <2>1, <2>2
<1>9. Counted' = Counted /\ Released' = Released /\ Passed' = Passed
  BY <1>1, <1>2, <1>7 DEF Counted, Released, Passed, At
<1>10. CallbacksMatchEvents' /\ SizesAddUp' /\ ReaderInv' /\ RoomInv' /\ RingHolds'
  BY <1>1, <1>9
  DEF Sound, CallbacksMatchEvents, SizesAddUp, ReaderInv, RoomInv, RingHolds, Place, Slot
<1>11. QED BY <1>6, <1>8, <1>10 DEF Sound

(* Going back to the start, from the end.                                  *)
LEMMA WrapSound ==
  ASSUME Sound, NEW w \in Tickers, Wrap(w)
  PROVE  Sound'
<1>1. UNCHANGED <<buffer, freeroom, hand, accepted, upto, rptr, rpc, delivered>>
  BY DEF Wrap, reader
<1>2. /\ wpc[w] = "wrap" /\ wptr = BufSize /\ wptr' = 0 /\ endptr' = BufSize
      /\ nextpos' = [nextpos EXCEPT ![w] = hand[w].size]
      /\ wpc' = [wpc EXCEPT ![w] = "fill"]
      /\ hand[w] \in Events /\ hand[w].size <= freeroom
  BY DEF Wrap, Goto, At, Sound, WriterInv
<1>3. TypeOK /\ endptr = BufSize
  BY DEF Sound, ReaderInv
<1>4. hand[w].size \in Nat /\ 0 < hand[w].size /\ hand[w].size <= BufSize
  BY <1>2, EventFacts
<1>5. TypeOK'
  BY <1>1, <1>2, <1>3, <1>4, EventFacts DEF TypeOK
<1>6. /\ \A v \in Tickers \ {w} : wpc[v] = "idle" /\ wpc'[v] = "idle"
      /\ Counted = Len(accepted)
      /\ wpc'[w] = "fill" /\ nextpos'[w] = hand[w].size
  BY <1>2, <1>3, Alone DEF At, TypeOK
<1>7. ASSUME NEW v \in Tickers PROVE WriterInv(v)'
  <2>1. CASE v = w
    BY <1>1, <1>2, <1>4, <1>6, <2>1 DEF WriterInv, At
  <2>2. CASE v # w
    BY <1>6, <2>2 DEF WriterInv, At
  <2>3. QED BY <2>1, <2>2
<1>8. Counted' = Counted /\ Released' = Released /\ Passed' = Passed
  BY <1>1, <1>6 DEF Counted, Released, Passed, At
<1>9. CallbacksMatchEvents' /\ SizesAddUp' /\ ReaderInv' /\ RoomInv'
  BY <1>1, <1>2, <1>8
  DEF Sound, CallbacksMatchEvents, SizesAddUp, ReaderInv, RoomInv
<1>10. RingHolds'
  <2>1. PICK t \in Nat : t = upto[Len(accepted)] - upto[Passed]
    BY Numbers
  <2>2. rptr \in Nat /\ rptr < BufSize
    BY <1>3 DEF Sound, ReaderInv, TypeOK
  <2>3. PICK x \in Int : x = rptr + (upto[Len(accepted)] - upto[Passed])
    BY <2>2, Numbers
  <2>4. x = rptr + t
    BY <2>1, <2>2, <2>3, Numbers
  <2>5. t + hand[w].size <= BufSize
    <3>1. freeroom = BufSize - (upto[Len(accepted)] - upto[Released])
      BY <1>6 DEF Sound, RoomInv
    <3>2. freeroom \in Int /\ BufSize \in Int /\ upto[Released] <= upto[Passed]
      BY <1>3, EventFacts, Numbers DEF TypeOK
    <3>3. PICK a \in Int, b \in Int, c \in Int, h \in Int :
            a = upto[Len(accepted)] /\ b = upto[Released] /\ c = upto[Passed] /\ h = hand[w].size
      BY <1>4, Numbers
    <3>4. freeroom = BufSize - (a - b) /\ b <= c /\ h <= freeroom
      BY <1>2, <3>1, <3>2, <3>3
    <3>5. a - c + h <= BufSize
      BY <3>2, <3>4
    <3>6. QED BY <2>1, <3>3, <3>5
  <2>6. BufSize \in {rptr + t, rptr + t - BufSize, rptr + t + BufSize}
    <3>1. PICK lap \in {0, BufSize, -BufSize} : BufSize = x + lap
      BY <1>2, <2>3 DEF Sound, RingHolds, Place
    <3>2. QED BY <2>2, <2>4, <3>1, EventFacts
  <2>7. 0 \in {rptr + t, rptr + t - BufSize, rptr + t + BufSize}
    BY <1>4, <2>2, <2>5, <2>6, EventFacts, WrapArithmetic
  <2>8. \E lap \in {0, BufSize, -BufSize} : 0 = x + lap
    BY <2>2, <2>4, <2>7, EventFacts
  <2>9. QED BY <1>1, <1>2, <1>8, <2>3, <2>8 DEF Sound, RingHolds, Place, Slot
<1>11. QED BY <1>5, <1>7, <1>9, <1>10 DEF Sound

(* The places of the events to come, written out.                          *)
LEMMA Places ==
  ASSUME Sound
  PROVE  /\ rptr \in Nat /\ rptr < BufSize /\ wptr \in Nat /\ wptr <= BufSize
         /\ upto[Len(accepted)] - upto[Passed] \in Nat
         /\ upto[Len(accepted)] - upto[Passed] <= upto[Len(accepted)] - upto[Released]
         /\ upto[Len(accepted)] - upto[Passed] <= BufSize
         /\ wptr \in {rptr + (upto[Len(accepted)] - upto[Passed]),
                      rptr + (upto[Len(accepted)] - upto[Passed]) - BufSize,
                      rptr + (upto[Len(accepted)] - upto[Passed]) + BufSize}
<1>1. rptr \in Nat /\ rptr < BufSize /\ wptr \in Nat /\ wptr <= BufSize
  BY EventFacts DEF Sound, ReaderInv, TypeOK
<1>2. PICK a \in Nat, b \in Nat, c \in Nat :
        a = upto[Len(accepted)] /\ b = upto[Passed] /\ c = upto[Released]
  BY Numbers
<1>3. c <= b /\ b <= a /\ a - c <= BufSize
  <2>1. upto[Released] <= upto[Passed] /\ upto[Passed] <= upto[Counted]
        /\ upto[Counted] <= upto[Len(accepted)] /\ upto[Counted] \in Nat
    BY Numbers
  <2>2. upto[Len(accepted)] - upto[Released] <= BufSize
    BY DEF Sound, RoomInv
  <2>3. QED BY <1>2, <2>1, <2>2
<1>4. a - b \in Nat /\ a - b <= a - c /\ a - b <= BufSize
  BY <1>2, <1>3, EventFacts
<1>5. PICK x \in Int : x = rptr + (upto[Len(accepted)] - upto[Passed])
  BY <1>1, <1>2
<1>6. wptr \in {x, x - BufSize, x + BufSize}
  <2>1. PICK lap \in {0, BufSize, -BufSize} : wptr = x + lap
    BY <1>5 DEF Sound, RingHolds, Place
  <2>2. QED BY <1>1, <2>1, EventFacts
<1>7. /\ upto[Len(accepted)] - upto[Passed] = a - b
      /\ upto[Len(accepted)] - upto[Released] = a - c
  BY <1>2
<1>8. PICK d \in Nat : d = upto[Len(accepted)] - upto[Passed]
  BY <1>4, <1>7
<1>9. x = rptr + d
  BY <1>5, <1>8
<1>10. wptr \in {rptr + d, rptr + d - BufSize, rptr + d + BufSize}
  BY <1>1, <1>6, <1>9, EventFacts
<1>11. d <= BufSize /\ d <= upto[Len(accepted)] - upto[Released]
  BY <1>4, <1>7, <1>8
<1>12. QED BY <1>1, <1>8, <1>10, <1>11

(* The n-th event to come takes the places from that of its predecessor,   *)
(* as many as its size.                                                    *)
LEMMA EventLies ==
  ASSUME Sound, NEW n \in Passed + 1 .. Len(accepted)
  PROVE  /\ n \in 1 .. Len(accepted) /\ n - 1 \in 0 .. Len(accepted)
         /\ upto[n - 1] - upto[Passed] \in Nat
         /\ upto[n] - upto[Passed] \in Nat
         /\ upto[n] - upto[Passed] = upto[n - 1] - upto[Passed] + accepted[n].size
         /\ upto[n] - upto[Passed] <= upto[Len(accepted)] - upto[Passed]
         /\ \/ rptr + (upto[n] - upto[Passed]) <= BufSize
            \/ rptr + (upto[n - 1] - upto[Passed]) >= BufSize
         /\ \A k \in 0 .. accepted[n].size - 1 :
              buffer[Slot(rptr + (upto[n - 1] - upto[Passed]) + k)] = <<accepted[n], k>>
<1>1. Passed \in Nat /\ Len(accepted) \in Nat /\ Passed <= Len(accepted)
  BY Numbers
<1>2. n \in 1 .. Len(accepted) /\ n - 1 \in Passed .. Len(accepted) /\ n \in 0 .. Len(accepted)
      /\ n - 1 \in 0 .. Len(accepted) /\ Passed \in 0 .. Len(accepted)
      /\ Len(accepted) \in 0 .. Len(accepted)
  BY <1>1
<1>3. \A i, j \in 0 .. Len(accepted) : i <= j => upto[i] <= upto[j]
  BY DEF Sound, SizesAddUp
<1>4. upto[Passed] <= upto[n - 1] /\ upto[n] <= upto[Len(accepted)]
  BY <1>1, <1>2, <1>3
<1>5. PICK a \in Nat, b \in Nat, p \in Nat, s \in Nat, l \in Nat :
        /\ a = upto[n - 1] /\ b = upto[n] /\ p = upto[Passed] /\ s = accepted[n].size
        /\ l = upto[Len(accepted)]
  BY <1>2, Numbers, Accepted
<1>6. b = a + s
  BY <1>2, <1>5, Accepted
<1>7. /\ rptr + (upto[n] - upto[Passed]) <= BufSize
           \/ rptr + (upto[n - 1] - upto[Passed]) >= BufSize
      /\ \A k \in 0 .. accepted[n].size - 1 :
           buffer[Slot(rptr + (upto[n - 1] - upto[Passed]) + k)] = <<accepted[n], k>>
  BY DEF Sound, RingHolds, Place
<1>8. p <= a /\ b <= l
  BY <1>4, <1>5
<1>9. a - p \in Nat /\ b - p \in Nat /\ b - p = a - p + s /\ b - p <= l - p
  BY <1>6, <1>8
<1>10. QED BY <1>2, <1>5, <1>7, <1>9

(* Writing the event: it lies behind those to come, and on none of them.   *)
LEMMA FillSound ==
  ASSUME Sound, NEW w \in Tickers, Fill(w)
  PROVE  Sound'
<1> DEFINE L == Len(accepted)
<1>s. PICK s \in Nat : s = hand[w].size
  BY EventFacts DEF Fill, Sound, WriterInv, At
<1>t. PICK t \in Nat : t = upto[L] - upto[Passed]
  BY Places
<1>1. UNCHANGED <<endptr, freeroom, hand, nextpos, rptr, rpc, delivered>>
  BY DEF Fill, reader
<1>2. /\ wpc[w] = "fill" /\ wptr' = nextpos[w] /\ nextpos[w] = wptr + s /\ wptr + s <= BufSize
      /\ wpc' = [wpc EXCEPT ![w] = "account"]
      /\ accepted' = Append(accepted, hand[w])
      /\ hand[w] \in Events /\ s <= freeroom
  BY <1>s DEF Fill, Goto, At, Sound, WriterInv
<1>3. /\ s \in Nat /\ 0 < s /\ s <= BufSize
      /\ TypeOK /\ L \in Nat /\ accepted \in Seq(Events)
  BY <1>s, <1>2, EventFacts, Numbers, Accepted DEF Sound
<1>4. /\ accepted' \in Seq(Events) /\ Len(accepted') = L + 1
      /\ accepted'[L + 1] = hand[w]
      /\ \A n \in 1 .. L : accepted'[n] = accepted[n]
  BY <1>2, <1>3, AppendProperties
<1>5. /\ \A n \in 0 .. L : upto'[n] = upto[n]
      /\ upto'[L + 1] = upto[L] + s
      /\ DOMAIN upto' = 0 .. L + 1
      /\ upto' = [n \in 0 .. L + 1 |-> IF n <= L THEN upto[n] ELSE upto[n - 1] + s]
  <2>1. upto' = [n \in 0 .. L + 1 |-> IF n <= L THEN upto[n] ELSE upto[n - 1] + s]
    BY <1>s DEF Fill
  <2>2. QED BY <1>3, <2>1
<1>6. /\ \A v \in Tickers \ {w} : wpc[v] = "idle" /\ wpc'[v] = "idle"
      /\ wpc'[w] = "account" /\ Counted = L
  BY <1>2, <1>3, Alone DEF At, TypeOK
<1>7. Released' = Released /\ Passed' = Passed /\ Counted' = L
  <2>1. Released' = Released /\ Passed' = Passed
    BY <1>1 DEF Released, Passed
  <2>2. Counted' = Len(accepted') - 1
    BY <1>6 DEF Counted, At
  <2>3. QED BY <1>3, <1>4, <2>1, <2>2
<1>8. TypeOK'
  <2>1. buffer' \in [Offsets -> Cells]
    <3>1. \A x \in Offsets : x \in wptr .. wptr + s - 1 => x - wptr \in Offsets
      BY <1>3, Places, EventFacts
    <3>2. \A x \in Offsets : buffer[x] \in Cells
      BY <1>3 DEF TypeOK
    <3>3. buffer' = [x \in Offsets |-> IF x \in wptr .. wptr + s - 1 THEN <<hand[w], x - wptr>>
                                       ELSE buffer[x]]
      BY <1>s DEF Fill
    <3>4. QED BY <1>2, <3>1, <3>2, <3>3 DEF Cells
  <2>2. wptr' \in 0 .. BufSize
    BY <1>2, <1>3, Places, EventFacts
  <2>3. upto' \in [0 .. Len(accepted') -> Nat]
    <3>1. \A n \in 0 .. L : upto[n] \in Nat
      BY Numbers
    <3>2. \A n \in 0 .. L + 1 : (IF n <= L THEN upto[n] ELSE upto[n - 1] + s) \in Nat
      BY <1>3, <3>1
    <3>3. QED BY <1>4, <1>5, <3>2
  <2>4. wpc' \in [Tickers -> {"idle", "wrap", "fill", "account"}]
    BY <1>2, <1>3 DEF TypeOK
  <2>5. QED BY <1>1, <1>3, <1>4, <2>1, <2>2, <2>3, <2>4 DEF TypeOK
<1>9. CallbacksMatchEvents'
  <2>1. Len(delivered) \in Nat /\ Len(delivered) <= L
        /\ \A i \in 1 .. Len(delivered) : delivered[i] = accepted[i]
    BY Numbers DEF Sound, CallbacksMatchEvents
  <2>2. QED BY <1>1, <1>3, <1>4, <2>1 DEF CallbacksMatchEvents
<1>10. SizesAddUp'
  <2>1. /\ upto[0] = 0
        /\ \A n \in 1 .. L : upto[n] = upto[n - 1] + accepted[n].size
        /\ \A m, n \in 0 .. L : m <= n => upto[m] <= upto[n]
        /\ \A n \in 0 .. L : upto[n] \in Nat
    BY Numbers DEF Sound, SizesAddUp
  <2>2. upto'[0] = 0
    BY <1>3, <1>5, <2>1
  <2>3. ASSUME NEW n \in 1 .. L + 1 PROVE upto'[n] = upto'[n - 1] + accepted'[n].size
    <3>1. CASE n = L + 1
      BY <1>s, <1>3, <1>4, <1>5, <3>1
    <3>2. CASE n # L + 1
      <4>1. n \in 1 .. L /\ n \in 0 .. L /\ n - 1 \in 0 .. L
        BY <1>3, <3>2
      <4>2. QED BY <1>4, <1>5, <2>1, <4>1
    <3>3. QED BY <3>1, <3>2
  <2>4. ASSUME NEW m \in 0 .. L + 1, NEW n \in 0 .. L + 1, m <= n
        PROVE  upto'[m] <= upto'[n]
    <3>1. CASE n \in 0 .. L
      <4>1. m \in 0 .. L
        BY <1>3, <2>4, <3>1
      <4>2. QED BY <1>5, <2>1, <2>4, <3>1, <4>1
    <3>2. CASE n = L + 1 /\ m \in 0 .. L
      <4>1. L \in 0 .. L /\ m <= L
        BY <1>3, <3>2
      <4>2. upto[m] <= upto[L] /\ upto[m] \in Nat /\ upto[L] \in Nat
        BY <2>1, <3>2, <4>1
      <4>3. QED BY <1>3, <1>5, <3>2, <4>2
    <3>3. CASE n = L + 1 /\ m = L + 1
      <4>1. upto[L] \in Nat
        BY <1>3, <2>1
      <4>2. QED BY <1>3, <1>5, <3>3, <4>1
    <3>4. QED BY <1>3, <2>4, <3>1, <3>2, <3>3
  <2>5. QED BY <1>4, <2>2, <2>3, <2>4 DEF SizesAddUp
<1>11. ReaderInv'
  <2>1. Len(delivered) <= L
    BY <1>6 DEF Sound, ReaderInv
  <2>2. QED BY <1>1, <1>7, <2>1 DEF Sound, ReaderInv
<1>12. ASSUME NEW v \in Tickers PROVE WriterInv(v)'
  <2>1. CASE v = w
    <3>1. Len(accepted') > 0 /\ hand'[w] = accepted'[Len(accepted')] /\ hand'[w] \in Events
      BY <1>1, <1>2, <1>3, <1>4
    <3>2. QED BY <1>6, <2>1, <3>1 DEF WriterInv, At
  <2>2. CASE v # w
    BY <1>6, <2>2 DEF WriterInv, At
  <2>3. QED BY <2>1, <2>2
<1>13. RoomInv'
  <2>1. Released \in 0 .. L /\ L \in 0 .. L
    BY Numbers
  <2>2. upto'[Counted'] = upto[L] /\ upto'[Released'] = upto[Released]
        /\ upto'[Len(accepted')] = upto[L] + s
    BY <1>4, <1>5, <1>7, <2>1
  <2>3. freeroom = BufSize - (upto[L] - upto[Released])
    BY <1>6 DEF Sound, RoomInv
  <2>4. PICK a \in Nat, b \in Nat : a = upto[L] /\ b = upto[Released]
    BY Numbers
  <2>5. a + s - b <= BufSize
    BY <1>2, <1>3, <2>3, <2>4, EventFacts
  <2>6. upto'[Len(accepted')] - upto'[Released'] <= BufSize
    BY <2>2, <2>4, <2>5
  <2>7. freeroom' = BufSize - (upto'[Counted'] - upto'[Released'])
    BY <1>1, <2>2, <2>3
  <2>8. QED BY <2>6, <2>7 DEF RoomInv
<1>14. /\ t + s <= BufSize
       /\ upto[Passed] \in Nat /\ upto[L] \in Nat /\ upto[L] = upto[Passed] + t
  <2>1. freeroom = BufSize - (upto[L] - upto[Released])
    BY <1>6 DEF Sound, RoomInv
  <2>2. PICK a \in Nat, b \in Nat, c \in Nat :
          a = upto[L] /\ b = upto[Released] /\ c = upto[Passed]
    BY Numbers
  <2>3. a - c \in Nat /\ a - c <= a - b
    BY <2>2, Places
  <2>4. a - c + s <= BufSize
    BY <1>2, <1>3, <2>1, <2>2, <2>3, EventFacts
  <2>5. QED BY <1>t, <2>2, <2>3, <2>4
<1>15. /\ wptr + s \in {rptr + (t + s), rptr + (t + s) - BufSize, rptr + (t + s) + BufSize}
       /\ rptr + (t + s) <= BufSize \/ rptr + t >= BufSize
       /\ \A k \in 0 .. s - 1 :
            (IF rptr + t + k < BufSize THEN rptr + t + k ELSE rptr + t + k - BufSize) = wptr + k
       /\ \A y \in 0 .. t - 1 :
            /\ (IF rptr + y < BufSize THEN rptr + y ELSE rptr + y - BufSize)
                 \notin wptr .. wptr + s - 1
            /\ (IF rptr + y < BufSize THEN rptr + y ELSE rptr + y - BufSize) \in 0 .. BufSize - 1
  <2>1. rptr \in Nat /\ rptr < BufSize /\ wptr \in Nat
        /\ wptr \in {rptr + t, rptr + t - BufSize, rptr + t + BufSize}
    BY <1>t, Places
  <2>2. QED BY <1>2, <1>3, <1>14, <2>1, EventFacts, FillArithmetic
<1>16. /\ \A x \in 0 .. BufSize - 1 : x \notin wptr .. wptr + s - 1 => buffer'[x] = buffer[x]
       /\ \A k \in 0 .. s - 1 : buffer'[wptr + k] = <<hand[w], k>>
  <2>1. buffer' = [x \in Offsets |-> IF x \in wptr .. wptr + s - 1 THEN <<hand[w], x - wptr>>
                                     ELSE buffer[x]]
    BY <1>s DEF Fill
  <2>2. wptr \in Nat
    BY Places
  <2>3. \A k \in 0 .. s - 1 : /\ wptr + k \in Offsets /\ wptr + k \in wptr .. wptr + s - 1
                              /\ wptr + k - wptr = k
    BY <1>2, <1>3, <2>2, EventFacts
  <2>4. \A x \in Offsets : buffer'[x] = IF x \in wptr .. wptr + s - 1 THEN <<hand[w], x - wptr>>
                                        ELSE buffer[x]
    BY <2>1
  <2>5. Offsets = 0 .. BufSize - 1
    BY EventFacts
  <2>6. \A x \in 0 .. BufSize - 1 : x \notin wptr .. wptr + s - 1 => buffer'[x] = buffer[x]
    BY <2>4, <2>5
  <2>7. ASSUME NEW k \in 0 .. s - 1 PROVE buffer'[wptr + k] = <<hand[w], k>>
    <3>1. PICK x \in Offsets : x = wptr + k /\ x \in wptr .. wptr + s - 1 /\ x - wptr = k
      BY <2>2, <2>3
    <3>2. buffer'[x] = <<hand[w], x - wptr>>
      BY <2>4, <3>1
    <3>3. QED BY <3>1, <3>2
  <2>8. QED BY <2>6, <2>7
<1>17. ASSUME NEW n \in Passed + 1 .. L
       PROVE  /\ rptr + (upto'[n] - upto'[Passed]) <= BufSize
                   \/ rptr + (upto'[n - 1] - upto'[Passed]) >= BufSize
              /\ \A k \in 0 .. accepted'[n].size - 1 :
                   buffer'[Slot(rptr + (upto'[n - 1] - upto'[Passed]) + k)] = <<accepted'[n], k>>
  <2>1. /\ Passed \in 0 .. L /\ n \in 0 .. L /\ n - 1 \in 0 .. L /\ n \in 1 .. L
    BY Numbers, EventLies
  <2>2. /\ upto'[n] = upto[n] /\ upto'[n - 1] = upto[n - 1] /\ upto'[Passed] = upto[Passed]
        /\ accepted'[n] = accepted[n]
    BY <1>4, <1>5, <2>1
  <2>3. PICK a \in Nat, b \in Nat, m \in Nat :
          /\ a = upto[n - 1] - upto[Passed] /\ b = upto[n] - upto[Passed]
          /\ m = accepted[n].size
    BY <2>1, EventLies, Accepted
  <2>4. /\ b = a + m /\ b <= t
        /\ rptr + b <= BufSize \/ rptr + a >= BufSize
        /\ \A k \in 0 .. m - 1 :
             buffer[Slot(rptr + a + k)] = <<accepted[n], k>>
    BY <1>t, <2>3, EventLies
  <2>5. ASSUME NEW k \in 0 .. m - 1
        PROVE  buffer'[Slot(rptr + a + k)] = <<accepted[n], k>>
    <3>1. rptr \in Nat /\ BufSize \in Nat
      BY Places, EventFacts
    <3>2. a + k \in 0 .. t - 1 /\ rptr + a + k = rptr + (a + k)
      BY <2>4, <3>1
    <3>3. Slot(rptr + a + k) =
            IF rptr + (a + k) < BufSize THEN rptr + (a + k) ELSE rptr + (a + k) - BufSize
      BY <3>1, <3>2 DEF Slot
    <3>4. /\ Slot(rptr + a + k) \notin wptr .. wptr + s - 1
          /\ Slot(rptr + a + k) \in 0 .. BufSize - 1
      BY <1>15, <3>2, <3>3
    <3>5. QED BY <1>16, <2>4, <3>4
  <2>6. QED BY <2>2, <2>3, <2>4, <2>5
<1>18. /\ rptr + (upto'[L + 1] - upto'[Passed]) <= BufSize
            \/ rptr + (upto'[(L + 1) - 1] - upto'[Passed]) >= BufSize
       /\ \A k \in 0 .. accepted'[L + 1].size - 1 :
            buffer'[Slot(rptr + (upto'[(L + 1) - 1] - upto'[Passed]) + k)] = <<accepted'[L + 1], k>>
       /\ \E lap \in {0, BufSize, -BufSize} :
            wptr' = rptr + (upto'[L + 1] - upto'[Passed]) + lap
  <2>1. Passed \in 0 .. L /\ L \in 0 .. L /\ rptr \in Nat /\ wptr \in Nat
    BY Numbers, Places
  <2>2. PICK c \in Nat : c = upto[Passed]
    BY <1>14
  <2>3. upto'[L + 1] = c + t + s /\ upto'[Passed] = c /\ upto'[(L + 1) - 1] = c + t
    <3>1. (L + 1) - 1 = L
      BY <1>3
    <3>2. QED BY <1>5, <1>14, <2>1, <2>2, <3>1
  <2>4. upto'[L + 1] - upto'[Passed] = t + s /\ upto'[(L + 1) - 1] - upto'[Passed] = t
    BY <2>3
  <2>5. ASSUME NEW k \in 0 .. s - 1
        PROVE  buffer'[Slot(rptr + t + k)] = <<hand[w], k>>
    <3>1. Slot(rptr + t + k) = wptr + k
      <4>1. (IF rptr + t + k < BufSize THEN rptr + t + k ELSE rptr + t + k - BufSize) = wptr + k
        BY <1>15
      <4>2. PICK y \in Int : y = rptr + t + k
        BY <2>1
      <4>3. Slot(y) = wptr + k
        BY <2>1, <4>1, <4>2, EventFacts DEF Slot
      <4>4. QED BY <4>2, <4>3
    <3>2. QED BY <1>16, <3>1
  <2>6. wptr' = wptr + s /\ accepted'[L + 1].size = s
    BY <1>s, <1>2, <1>4
  <2>7. \E lap \in {0, BufSize, -BufSize} : wptr + s = rptr + (t + s) + lap
    BY <1>15, <2>1, EventFacts
  <2>8. QED BY <1>4, <1>15, <2>4, <2>5, <2>6, <2>7
<1>19. RingHolds'
  <2>1. Passed \in Nat
    BY Numbers
  <2>2. \A n \in Passed + 1 .. L + 1 : n \in Passed + 1 .. L \/ n = L + 1
    BY <1>3, <2>1
  <2>3. \A n \in Passed + 1 .. L + 1 :
          /\ rptr + (upto'[n] - upto'[Passed]) <= BufSize
               \/ rptr + (upto'[n - 1] - upto'[Passed]) >= BufSize
          /\ \A k \in 0 .. accepted'[n].size - 1 :
               buffer'[Slot(rptr + (upto'[n - 1] - upto'[Passed]) + k)] = <<accepted'[n], k>>
    BY <1>17, <1>18, <2>2
  <2>4. /\ \A n \in Passed' + 1 .. Len(accepted') :
             /\ rptr' + (upto'[n] - upto'[Passed']) <= BufSize
                  \/ rptr' + (upto'[n - 1] - upto'[Passed']) >= BufSize
             /\ \A k \in 0 .. accepted'[n].size - 1 :
                  buffer'[Slot(rptr' + (upto'[n - 1] - upto'[Passed']) + k)] = <<accepted'[n], k>>
        /\ \E lap \in {0, BufSize, -BufSize} :
             wptr' = rptr' + (upto'[Len(accepted')] - upto'[Passed']) + lap
    BY <1>1, <1>4, <1>7, <1>18, <2>3
  <2>5. QED BY <2>4 DEF RingHolds, Place, Slot
<1>20. QED BY <1>8, <1>9, <1>10, <1>11, <1>12, <1>13, <1>19 DEF Sound

(* The event counts: the reader may take it.                               *)
LEMMA AccountSound ==
  ASSUME Sound, NEW w \in Tickers, Account(w)
  PROVE  Sound'
<1> DEFINE L == Len(accepted)
<1>1. UNCHANGED <<buffer, wptr, endptr, hand, nextpos, accepted, upto, rptr, rpc, delivered>>
  BY DEF Account, reader
<1>2. /\ wpc[w] = "account" /\ wpc' = [wpc EXCEPT ![w] = "idle"]
      /\ freeroom' = freeroom - hand[w].size
      /\ L > 0 /\ hand[w] = accepted[L]
  BY DEF Account, Goto, At, Sound, WriterInv
<1>3. TypeOK /\ L \in Nat
  BY Numbers DEF Sound
<1>4. /\ \A v \in Tickers \ {w} : wpc[v] = "idle" /\ wpc'[v] = "idle"
      /\ wpc'[w] = "idle" /\ Counted = L - 1
  BY <1>2, <1>3, Alone DEF At, TypeOK
<1>5. Released' = Released /\ Passed' = Passed /\ Counted' = L
  <2>1. Released' = Released /\ Passed' = Passed
    BY <1>1 DEF Released, Passed
  <2>2. Counted' = Len(accepted')
    BY <1>4 DEF Counted, At
  <2>3. QED BY <1>1, <2>1, <2>2
<1>6. freeroom' = BufSize - (upto[L] - upto[Released]) /\ freeroom' \in 0 .. BufSize
  <2>1. L \in 1 .. L
    BY <1>2, <1>3
  <2>2. PICK s \in Nat, a \in Nat, b \in Nat, c \in Nat :
          /\ s = hand[w].size /\ a = upto[L] /\ b = upto[L - 1] /\ c = upto[Released]
          /\ a = b + s
    BY <1>2, <2>1, Accepted, Numbers
  <2>3. freeroom = BufSize - (b - c) /\ a - c <= BufSize
    BY <1>4, <2>2 DEF Sound, RoomInv
  <2>4. c <= a
    <3>1. upto[Released] <= upto[Passed] /\ upto[Passed] <= upto[Counted]
          /\ upto[Counted] <= upto[Len(accepted)]
          /\ upto[Passed] \in Nat /\ upto[Counted] \in Nat
      BY Numbers
    <3>2. QED BY <2>2, <3>1
  <2>5. freeroom' = BufSize - (a - c) /\ freeroom' \in 0 .. BufSize
    <3>1. freeroom' = freeroom - s /\ freeroom \in Int /\ BufSize \in Nat
      BY <1>2, <1>3, <2>2, EventFacts DEF TypeOK
    <3>2. PICK f \in Int : f = freeroom
      BY <3>1
    <3>3. f = BufSize - (b - c) /\ a = b + s /\ c <= a /\ a - c <= BufSize
      BY <2>2, <2>3, <2>4, <3>2
    <3>4. f - s = BufSize - (a - c) /\ f - s \in 0 .. BufSize
      BY <3>1, <3>3
    <3>5. QED BY <3>1, <3>2, <3>4
  <2>6. QED BY <2>2, <2>5
<1>7. TypeOK'
  BY <1>1, <1>2, <1>3, <1>6 DEF TypeOK
<1>8. ASSUME NEW v \in Tickers PROVE WriterInv(v)'
  BY <1>4 DEF WriterInv, At
<1>9. ReaderInv'
  <2>1. Len(delivered) <= L - 1 /\ Len(delivered) \in Nat
    BY <1>4, Numbers DEF Sound, ReaderInv
  <2>2. Len(delivered) <= L
    BY <1>3, <2>1
  <2>3. QED BY <1>1, <1>5, <2>2 DEF Sound, ReaderInv
<1>10. RoomInv'
  BY <1>1, <1>5, <1>6 DEF Sound, RoomInv
<1>11. CallbacksMatchEvents' /\ SizesAddUp' /\ RingHolds'
  BY <1>1, <1>5 DEF Sound, CallbacksMatchEvents, SizesAddUp, RingHolds, Place, Slot
<1>12. QED BY <1>7, <1>8, <1>9, <1>10, <1>11 DEF Sound

(* What counts and has no callback yet lies whole where the reader is.     *)
LEMMA HeadIsWhole ==
  ASSUME Sound, Callback
  PROVE  /\ Len(delivered) + 1 \in 1 .. Counted
         /\ EventAt(rptr) = accepted[Len(delivered) + 1]
         /\ accepted[Len(delivered) + 1] \in Events
<1>1. PICK D \in Nat : D = Len(delivered)
  BY Numbers
<1>2. rpc = "idle" /\ BufSize - freeroom > 0 /\ Released = D /\ Passed = D
  BY <1>1 DEF Callback, Available, Released, Passed
<1>3. D + 1 <= Counted /\ Counted \in Nat /\ Counted <= Len(accepted)
  <2>1. freeroom = BufSize - (upto[Counted] - upto[D])
    BY <1>2 DEF Sound, RoomInv
  <2>2. PICK a \in Nat, b \in Nat : a = upto[Counted] /\ b = upto[D]
    BY <1>2, Numbers
  <2>3. a # b
    BY <1>2, <2>1, <2>2, EventFacts
  <2>4. Counted # D
    BY <2>2, <2>3
  <2>5. D <= Counted /\ Counted \in Nat /\ Counted <= Len(accepted)
    BY <1>1, Numbers
  <2>6. QED BY <2>4, <2>5
<1>4. PICK n \in Nat : n = D + 1
  OBVIOUS
<1>5. n \in Passed + 1 .. Len(accepted) /\ n \in 1 .. Counted /\ n - 1 = D
  BY <1>2, <1>3, <1>4, Numbers
<1>6. accepted[n] \in Events
  BY <1>5, EventLies, Accepted
<1>7. PICK s \in Nat : s = accepted[n].size /\ 0 < s
  BY <1>6, EventFacts
<1>8. rptr \in Nat /\ rptr < BufSize
  BY Places
<1>9. /\ rptr + (upto[n] - upto[Passed]) <= BufSize
           \/ rptr + (upto[n - 1] - upto[Passed]) >= BufSize
      /\ upto[n] - upto[Passed] = upto[n - 1] - upto[Passed] + s
      /\ \A k \in 0 .. s - 1 :
           buffer[Slot(rptr + (upto[n - 1] - upto[Passed]) + k)] = <<accepted[n], k>>
  BY <1>5, <1>7, EventLies
<1>10. upto[n - 1] - upto[Passed] = 0
  <2>1. upto[Passed] \in Nat
    BY Numbers
  <2>2. QED BY <1>2, <1>5, <2>1
<1>11. rptr + s <= BufSize /\ \A k \in 0 .. s - 1 : buffer[Slot(rptr + 0 + k)] = <<accepted[n], k>>
  BY <1>7, <1>8, <1>9, <1>10, EventFacts
<1>12. ASSUME NEW k \in 0 .. s - 1
       PROVE  rptr + k \in Offsets /\ buffer[rptr + k] = <<accepted[n], k>>
  <2>1. rptr + k \in Offsets /\ rptr + 0 + k = rptr + k /\ rptr + k < BufSize
    BY <1>8, <1>11, EventFacts
  <2>2. Slot(rptr + k) = rptr + k
    BY <2>1 DEF Slot
  <2>3. QED BY <1>11, <2>1, <2>2
<1>13. rptr \in Offsets
  BY <1>8, EventFacts
<1>14. EventAt(rptr) = accepted[n]
  BY <1>6, <1>7, <1>12, <1>13, EventAtWhole
<1>15. QED BY <1>1, <1>4, <1>5, <1>6, <1>14

(* So its callback is the one that runs.                                   *)
LEMMA CallbackSound ==
  ASSUME Sound, Callback
  PROVE  Sound'
<1>1. PICK D \in Nat : D = Len(delivered)
  BY Numbers
<1>2. UNCHANGED <<buffer, freeroom, wptr, endptr, wpc, hand, nextpos, accepted, upto, rptr>>
  BY DEF Callback, writer
<1>3. /\ rpc = "idle"
      /\ D + 1 \in 1 .. Counted /\ EventAt(rptr) = accepted[D + 1] /\ accepted[D + 1] \in Events
  BY <1>1, HeadIsWhole DEF Callback
<1>4. rpc' = "step" /\ delivered' = Append(delivered, accepted[D + 1])
  BY <1>3, EventFacts DEF Callback
<1>5. TypeOK /\ delivered \in Seq(Events \cup {Garbage})
  BY DEF Sound, TypeOK
<1>6. /\ delivered' \in Seq(Events \cup {Garbage}) /\ Len(delivered') = D + 1
      /\ delivered'[D + 1] = accepted[D + 1]
      /\ \A i \in 1 .. D : delivered'[i] = delivered[i]
  BY <1>1, <1>3, <1>4, <1>5, AppendProperties
<1>7. Released' = Released /\ Passed' = Passed /\ Counted' = Counted
  <2>1. Released = D /\ Passed = D
    BY <1>1, <1>3 DEF Released, Passed
  <2>2. Released' = D + 1 - 1 /\ Passed' = D + 1 - 1
    BY <1>4, <1>6 DEF Released, Passed
  <2>3. Counted' = Counted
    BY <1>2 DEF Counted, At
  <2>4. QED BY <2>1, <2>2, <2>3
<1>8. TypeOK'
  BY <1>2, <1>4, <1>5, <1>6 DEF TypeOK
<1>9. CallbacksMatchEvents'
  <2>1. \A i \in 1 .. D : delivered[i] = accepted[i]
    BY <1>1 DEF Sound, CallbacksMatchEvents
  <2>2. D + 1 <= Len(accepted)
    BY <1>3, Numbers
  <2>3. \A i \in 1 .. D + 1 : delivered'[i] = accepted[i]
    BY <1>6, <2>1
  <2>4. QED BY <1>2, <1>6, <2>2, <2>3 DEF CallbacksMatchEvents
<1>10. ReaderInv'
  <2>1. D + 1 <= Counted /\ D + 1 > 0
    BY <1>3, Numbers
  <2>2. QED BY <1>2, <1>4, <1>6, <1>7, <2>1 DEF Sound, ReaderInv
<1>11. ASSUME NEW v \in Tickers PROVE WriterInv(v)'
  BY <1>2 DEF Sound, WriterInv, At
<1>12. SizesAddUp' /\ RoomInv' /\ RingHolds'
  BY <1>2, <1>7 DEF Sound, SizesAddUp, RoomInv, RingHolds, Place, Slot
<1>13. QED BY <1>8, <1>9, <1>10, <1>11, <1>12 DEF Sound

(* What the last callback was for.                                         *)
LEMMA LatestIs ==
  ASSUME Sound, rpc # "idle"
  PROVE  /\ Len(delivered) \in 1 .. Len(accepted)
         /\ Latest = accepted[Len(delivered)]
         /\ Latest.size \in Nat /\ 0 < Latest.size
         /\ upto[Len(delivered)] = upto[Len(delivered) - 1] + Latest.size
         /\ upto[Len(delivered)] \in Nat /\ upto[Len(delivered) - 1] \in Nat
<1>1. PICK D \in Nat : D = Len(delivered)
  BY Numbers
<1>2. D > 0 /\ D <= Len(accepted) /\ \A i \in 1 .. D : delivered[i] = accepted[i]
  BY <1>1 DEF Sound, ReaderInv, CallbacksMatchEvents
<1>3. D \in 1 .. D /\ D \in 1 .. Len(accepted) /\ D \in 0 .. Len(accepted)
      /\ D - 1 \in 0 .. Len(accepted)
  BY <1>2, Numbers
<1>4. Latest = accepted[D]
  BY <1>1, <1>2, <1>3 DEF Latest
<1>5. QED BY <1>1, <1>3, <1>4, Accepted, Numbers

(* The reader goes past the event; its room is not released yet.           *)
LEMMA StepSound ==
  ASSUME Sound, Step
  PROVE  Sound'
<1> DEFINE L == Len(accepted)
<1>1. PICK D \in Nat : D = Len(delivered)
  BY Numbers
<1>2. UNCHANGED <<buffer, freeroom, wptr, endptr, wpc, hand, nextpos, accepted, upto, delivered>>
  BY DEF Step, writer
<1>3. rpc = "step" /\ rpc' = "release" /\ rptr' = NextRead(rptr + Latest.size) /\ TypeOK
  BY DEF Step, Sound
<1>4. PICK s \in Nat : /\ s = Latest.size /\ 0 < s /\ s = accepted[D].size
                       /\ upto[D] = upto[D - 1] + s
                       /\ upto[D] \in Nat /\ upto[D - 1] \in Nat /\ D \in 1 .. L
  BY <1>1, <1>3, LatestIs
<1>5. Passed = D - 1 /\ Released = D - 1 /\ D \in Passed + 1 .. L
  BY <1>1, <1>3, <1>4 DEF Passed, Released
<1>6. Passed' = D /\ Released' = Released /\ Counted' = Counted
  <2>1. Passed' = D /\ Released' = D - 1
    BY <1>1, <1>2, <1>3 DEF Passed, Released
  <2>2. Counted' = Counted
    BY <1>2 DEF Counted, At
  <2>3. QED BY <1>5, <2>1, <2>2
<1>7. PICK p \in Nat : p = upto[Passed] /\ upto[D] = p + s
  BY <1>4, <1>5
<1>8. rptr \in Nat /\ rptr < BufSize /\ wptr \in Nat /\ wptr <= BufSize
  BY Places
<1>9. rptr + s <= BufSize
  <2>1. /\ rptr + (upto[D] - upto[Passed]) <= BufSize
             \/ rptr + (upto[D - 1] - upto[Passed]) >= BufSize
    BY <1>5, EventLies
  <2>2. upto[D] - upto[Passed] = s /\ upto[D - 1] - upto[Passed] = 0
    BY <1>4, <1>5, <1>7
  <2>3. QED BY <1>8, <2>1, <2>2, EventFacts
<1>10. PICK t \in Nat : /\ t = upto[L] - p /\ t <= BufSize /\ s <= t
                        /\ wptr \in {rptr + t, rptr + t - BufSize, rptr + t + BufSize}
  <2>1. PICK t \in Nat : /\ t = upto[L] - p /\ t <= BufSize
                         /\ wptr \in {rptr + t, rptr + t - BufSize, rptr + t + BufSize}
    BY <1>7, Places
  <2>2. upto[D] - upto[Passed] <= upto[L] - upto[Passed]
    BY <1>5, EventLies
  <2>3. upto[D] - upto[Passed] = s
    BY <1>7
  <2>4. QED BY <1>7, <2>1, <2>2, <2>3
<1>11. rptr' = IF rptr + s >= BufSize THEN 0 ELSE rptr + s
  BY <1>3, <1>4 DEF NextRead, Sound, ReaderInv
<1>12. PICK q \in Nat : /\ q = rptr' /\ q = IF rptr + s >= BufSize THEN 0 ELSE rptr + s
                        /\ BufSize \in Nat
  BY <1>8, <1>11, EventFacts
<1>13. /\ q < BufSize
       /\ \A v, u \in Nat :
            s <= u /\ u <= BufSize /\ v <= BufSize /\ 0 < s
            /\ v \in {rptr + u, rptr + u - BufSize, rptr + u + BufSize}
            => v \in {q + (u - s), q + (u - s) - BufSize, q + (u - s) + BufSize}
  BY <1>8, <1>9, <1>12, StepArithmetic
<1>14. \A a, b \in Nat :
         s <= a /\ a < b /\ b <= BufSize /\ (rptr + b <= BufSize \/ rptr + a >= BufSize)
         => q + (b - s) <= BufSize \/ q + (a - s) >= BufSize
  BY <1>8, <1>9, <1>12, StepArithmetic
<1>15. \A y \in Nat : s <= y /\ y < BufSize =>
         (IF rptr + y < BufSize THEN rptr + y ELSE rptr + y - BufSize)
           = IF q + (y - s) < BufSize THEN q + (y - s) ELSE q + (y - s) - BufSize
  BY <1>8, <1>9, <1>12, StepArithmetic
<1>16. ASSUME NEW n \in D + 1 .. L
       PROVE  /\ q + (upto[n] - upto[D]) <= BufSize
                   \/ q + (upto[n - 1] - upto[D]) >= BufSize
              /\ \A k \in 0 .. accepted[n].size - 1 :
                   buffer[Slot(q + (upto[n - 1] - upto[D]) + k)] = <<accepted[n], k>>
  <2>1. n \in Passed + 1 .. L /\ n \in 1 .. L /\ D \in 0 .. L /\ n - 1 \in 0 .. L /\ D <= n - 1
        /\ n \in 0 .. L
    BY <1>4, <1>5, Numbers
  <2>2. PICK a \in Nat, b \in Nat, m \in Nat, d \in Nat :
          /\ a = upto[n - 1] - p /\ b = upto[n] - p /\ m = accepted[n].size
          /\ d = upto[n - 1]
    <3>1. upto[n - 1] - upto[Passed] \in Nat /\ upto[n] - upto[Passed] \in Nat
      BY <2>1, EventLies
    <3>2. accepted[n].size \in Nat /\ upto[n - 1] \in Nat
      BY <2>1, Accepted, Numbers
    <3>3. QED BY <1>7, <3>1, <3>2
  <2>3. /\ 0 < m /\ b = a + m /\ b <= t
        /\ rptr + b <= BufSize \/ rptr + a >= BufSize
        /\ \A k \in 0 .. m - 1 : buffer[Slot(rptr + a + k)] = <<accepted[n], k>>
    <3>1. 0 < m
      BY <2>1, <2>2, Accepted
    <3>2. QED BY <1>7, <1>10, <2>1, <2>2, <3>1, EventLies
  <2>4. s <= a /\ upto[n - 1] - upto[D] = a - s /\ upto[n] - upto[D] = b - s
    <3>1. upto[D] <= d
      BY <2>1, <2>2 DEF Sound, SizesAddUp
    <3>2. a = d - p /\ upto[D] = p + s
      BY <1>7, <2>2
    <3>3. PICK e \in Nat : e = upto[n]
      BY <2>1, Numbers
    <3>4. b = e - p
      BY <2>2, <3>3
    <3>5. s <= a /\ d - (p + s) = a - s /\ e - (p + s) = b - s
      BY <3>1, <3>2, <3>4
    <3>6. QED BY <2>2, <3>2, <3>3, <3>5
  <2>5. q + (b - s) <= BufSize \/ q + (a - s) >= BufSize
    <3>1. a < b
      BY <2>3
    <3>2. s <= a /\ b <= BufSize /\ (rptr + b <= BufSize \/ rptr + a >= BufSize)
      BY <1>10, <1>12, <2>3, <2>4
    <3>3. QED BY <1>14, <3>1, <3>2
  <2>6. ASSUME NEW k \in 0 .. m - 1
        PROVE  buffer[Slot(q + (a - s) + k)] = <<accepted[n], k>>
    <3>1. PICK y \in Nat : y = a + k
      OBVIOUS
    <3>2. s <= y /\ y < BufSize
      BY <1>10, <1>12, <2>3, <2>4, <3>1
    <3>3. rptr + a + k = rptr + y /\ q + (a - s) + k = q + (y - s)
      BY <1>8, <3>1
    <3>4. PICK i \in Int, j \in Int : i = rptr + y /\ j = q + (y - s)
      <4>1. rptr + y \in Int /\ q + (y - s) \in Int
        BY <1>8
      <4>2. QED BY <4>1, Zenon
    <3>5. (IF i < BufSize THEN i ELSE i - BufSize) = IF j < BufSize THEN j ELSE j - BufSize
      <4>1. (IF rptr + y < BufSize THEN rptr + y ELSE rptr + y - BufSize)
              = IF q + (y - s) < BufSize THEN q + (y - s) ELSE q + (y - s) - BufSize
        BY <1>15, <3>2, Zenon
      <4>2. \A u, v \in Int : u = rptr + y /\ v = q + (y - s) =>
              (IF u < BufSize THEN u ELSE u - BufSize) = IF v < BufSize THEN v ELSE v - BufSize
        BY <1>8, <1>12, <4>1
      <4>3. QED BY <3>4, <4>2, Zenon
    <3>6. Slot(i) = Slot(j)
      BY <3>5 DEF Slot
    <3>7. QED BY <2>3, <3>3, <3>4, <3>6
  <2>7. QED BY <2>2, <2>4, <2>5, <2>6
<1>17. \E lap \in {0, BufSize, -BufSize} : wptr = q + (upto[L] - upto[D]) + lap
  <2>1. upto[L] - upto[D] = t - s
    <3>1. upto[L] \in Nat
      BY Numbers
    <3>2. QED BY <1>7, <1>10, <3>1
  <2>2. wptr \in {q + (t - s), q + (t - s) - BufSize, q + (t - s) + BufSize}
    BY <1>13, <1>4, <1>8, <1>10
  <2>3. \E lap \in {0, BufSize, -BufSize} : wptr = q + (t - s) + lap
    BY <1>12, <2>2
  <2>4. QED BY <2>1, <2>3
<1>18. RingHolds'
  <2>1. /\ \A n \in Passed' + 1 .. Len(accepted') :
             /\ rptr' + (upto'[n] - upto'[Passed']) <= BufSize
                  \/ rptr' + (upto'[n - 1] - upto'[Passed']) >= BufSize
             /\ \A k \in 0 .. accepted'[n].size - 1 :
                  buffer'[Slot(rptr' + (upto'[n - 1] - upto'[Passed']) + k)] = <<accepted'[n], k>>
        /\ \E lap \in {0, BufSize, -BufSize} :
             wptr' = rptr' + (upto'[Len(accepted')] - upto'[Passed']) + lap
    BY <1>2, <1>6, <1>12, <1>16, <1>17
  <2>2. QED BY <2>1 DEF RingHolds, Place, Slot
<1>19. TypeOK'
  <2>1. rptr' \in 0 .. BufSize
    BY <1>13, <1>12
  <2>2. QED BY <1>2, <1>3, <2>1 DEF TypeOK
<1>20. ReaderInv'
  BY <1>13, <1>2, <1>3, <1>6, <1>12 DEF Sound, ReaderInv
<1>21. ASSUME NEW v \in Tickers PROVE WriterInv(v)'
  BY <1>2 DEF Sound, WriterInv, At
<1>22. CallbacksMatchEvents' /\ SizesAddUp' /\ RoomInv'
  BY <1>2, <1>6 DEF Sound, CallbacksMatchEvents, SizesAddUp, RoomInv
<1>23. QED BY <1>18, <1>19, <1>20, <1>21, <1>22 DEF Sound

(* The room of the event comes back.                                       *)
LEMMA ReleaseSound ==
  ASSUME Sound, Release
  PROVE  Sound'
<1>1. PICK D \in Nat : D = Len(delivered)
  BY Numbers
<1>2. UNCHANGED <<buffer, wptr, endptr, wpc, hand, nextpos, accepted, upto, rptr, delivered>>
  BY DEF Release, writer
<1>3. rpc = "release" /\ rpc' = "idle" /\ freeroom' = freeroom + Latest.size /\ TypeOK
  BY DEF Release, Sound
<1>4. PICK s \in Nat, b \in Nat, c \in Nat :
        s = Latest.size /\ b = upto[D] /\ c = upto[D - 1] /\ b = c + s
  BY <1>1, <1>3, LatestIs
<1>5. Released = D - 1 /\ Released' = D /\ Passed = D /\ Passed' = Passed /\ Counted' = Counted
  <2>1. Released = D - 1 /\ Released' = D /\ Passed = D /\ Passed' = Passed
    BY <1>1, <1>2, <1>3 DEF Passed, Released
  <2>2. Counted' = Counted
    BY <1>2 DEF Counted, At
  <2>3. QED BY <2>1, <2>2
<1>6. PICK a \in Nat, l \in Nat : a = upto[Counted] /\ l = upto[Len(accepted)]
  BY Numbers
<1>7. b <= a /\ a <= l
  BY <1>4, <1>5, <1>6, Numbers
<1>8. freeroom = BufSize - (a - c) /\ l - c <= BufSize
  BY <1>4, <1>5, <1>6 DEF Sound, RoomInv
<1>9. /\ freeroom' = BufSize - (a - b) /\ freeroom' \in 0 .. BufSize
      /\ freeroom <= freeroom' /\ l - b <= BufSize
  <2>1. freeroom \in Nat /\ freeroom' = freeroom + s /\ BufSize \in Nat
    BY <1>3, <1>4, EventFacts DEF TypeOK
  <2>2. QED BY <1>4, <1>7, <1>8, <2>1
<1>10. TypeOK'
  BY <1>2, <1>3, <1>9 DEF TypeOK
<1>11. ASSUME NEW v \in Tickers PROVE WriterInv(v)'
  <2>1. ASSUME At(v, "wrap") \/ At(v, "fill") PROVE hand[v].size <= freeroom'
    <3>1. hand[v].size <= freeroom /\ hand[v] \in Events
      BY <2>1 DEF Sound, WriterInv, At
    <3>2. PICK h \in Nat : h = hand[v].size
      BY <3>1, EventFacts
    <3>3. freeroom \in Nat
      BY <1>3 DEF TypeOK
    <3>4. QED BY <1>9, <3>1, <3>2, <3>3
  <2>2. QED BY <1>2, <2>1 DEF Sound, WriterInv, At
<1>12. RoomInv'
  <2>1. upto'[Counted'] = a /\ upto'[Released'] = b /\ upto'[Len(accepted')] = l
    BY <1>2, <1>4, <1>5, <1>6
  <2>2. QED BY <1>9, <2>1 DEF RoomInv
<1>13. ReaderInv'
  BY <1>2, <1>3, <1>5 DEF Sound, ReaderInv
<1>14. CallbacksMatchEvents' /\ SizesAddUp' /\ RingHolds'
  BY <1>2, <1>5 DEF Sound, CallbacksMatchEvents, SizesAddUp, RingHolds, Place, Slot
<1>15. QED BY <1>10, <1>11, <1>12, <1>13, <1>14 DEF Sound

(* Every step keeps the ring sound, as long as it is orderly.              *)
LEMMA SoundNext ==
  ASSUME Sound, [Next]_vars, orderly'
  PROVE  Sound'
<1>1. CASE UNCHANGED vars
  <2>1. UNCHANGED <<buffer, freeroom, wptr, endptr, wpc, hand, nextpos, accepted, upto,
                    rptr, rpc, delivered>>
    BY <1>1 DEF vars, writer, reader
  <2>2. TypeOK' /\ CallbacksMatchEvents' /\ SizesAddUp'
    BY <2>1 DEF Sound, TypeOK, CallbacksMatchEvents, SizesAddUp
  <2>3. Released' = Released /\ Passed' = Passed /\ Counted' = Counted
    BY <2>1 DEF Released, Passed, Counted, At
  <2>4. ReaderInv' /\ RoomInv' /\ RingHolds'
    BY <2>1, <2>3 DEF Sound, ReaderInv, RoomInv, RingHolds, Place, Slot
  <2>5. ASSUME NEW w \in Tickers PROVE WriterInv(w)'
    BY <2>1 DEF Sound, WriterInv, At
  <2>6. QED BY <2>2, <2>4, <2>5 DEF Sound
<1>2. ASSUME NEW w \in Tickers, NEW size \in Sizes, Notify(w, size)
      PROVE  Sound'
  <2>1. InOrder(w, size)
    BY <1>2 DEF Notify
  <2>2. QED BY <1>2, <2>1, NotifySound
<1>3. ASSUME NEW w \in Tickers, Wrap(w) \/ Fill(w) \/ Account(w)
      PROVE  Sound'
  BY <1>3, WrapSound, FillSound, AccountSound
<1>4. CASE Callback \/ Step \/ Release
  BY <1>4, CallbackSound, StepSound, ReleaseSound
<1>5. QED BY <1>1, <1>2, <1>3, <1>4 DEF Next, Read, Write

(* What is no longer orderly stays so.                                     *)
LEMMA OrderlyBefore ==
  ASSUME [Next]_vars, orderly'
  PROVE  orderly
BY DEF Next, Write, Read, Notify, Wrap, Fill, Account, Callback, Step, Release, vars

LEMMA RingNext ==
  ASSUME RingInv, [Next]_vars
  PROVE  RingInv'
BY SoundNext, OrderlyBefore DEF RingInv

(* With any number of tickers, events of any sizes and a ring of any size, *)
(* the reader's, the writers' and the ring's positions line up until two   *)
(* tickers write at the same time or an event does not fit exactly before  *)
(* the end (eventqueue.c, write_event and read_event).                     *)
THEOREM EventQueueInvariant == Spec => []RingInv
<1>1. Init => RingInv
  BY SoundInit DEF RingInv
<1>2. RingInv /\ [Next]_vars => RingInv'
  BY RingNext
<1>3. QED BY <1>1, <1>2, PTL DEF Spec

(* So the callbacks that have run until then are those of the events       *)
(* received, in their order, whichever ticker sent them, however many and  *)
(* however large they are.                                                 *)
THEOREM EventsKeepTheirOrder == Spec => [](orderly => CallbacksMatchEvents)
<1>1. RingInv => (orderly => CallbacksMatchEvents)
  BY DEF RingInv, Sound
<1>2. QED BY <1>1, EventQueueInvariant, PTL

-----------------------------------------------------------------------------
(* Writing an event puts it into the channel.                              *)
LEMMA FillPuts ==
  ASSUME Sound, NEW w \in Tickers, Fill(w)
  PROVE  Channel!Put(hand[w])
<1>1. /\ Len(accepted) \in Nat /\ Len(delivered) \in Nat
      /\ accepted \in Seq(Events)
      /\ \A i \in 1 .. Len(accepted) : accepted[i] \in Events
      /\ Len(delivered) <= Len(accepted) /\ hand[w] \in Events
  BY Numbers, Accepted DEF Sound, CallbacksMatchEvents, WriterInv, Fill, At
<1>2. accepted' = Append(accepted, hand[w]) /\ delivered' = delivered
  BY DEF Fill, reader
<1>3. PICK m \in Nat, n \in Nat : m = Len(delivered) + 1 /\ n = Len(accepted) + 1
  BY <1>1
<1>4. /\ accepted' \in Seq(Events) /\ Len(accepted') = n /\ accepted'[n] = hand[w]
      /\ \A i \in 1 .. Len(accepted) : accepted'[i] = accepted[i]
  BY <1>1, <1>2, <1>3, AppendProperties
<1>5. m \in 1 .. n /\ m <= n /\ n - 1 = Len(accepted)
  BY <1>1, <1>3
<1>6. /\ SubSeq(accepted, m, n - 1) \in Seq(Events)
      /\ Len(SubSeq(accepted, m, n - 1)) = n - m
      /\ \A i \in 1 .. n - m : SubSeq(accepted, m, n - 1)[i] = accepted[m + i - 1]
  <2>1. \A i \in m .. n - 1 : accepted[i] \in Events
    BY <1>1, <1>3, <1>5
  <2>2. m \in Int /\ n - 1 \in Int
    BY <1>3
  <2>3. PICK k \in Int : k = n - 1
    BY <2>2
  <2>4. /\ SubSeq(accepted, m, k) \in Seq(Events)
        /\ Len(SubSeq(accepted, m, k)) = IF m <= k THEN k - m + 1 ELSE 0
        /\ \A i \in 1 .. k - m + 1 : SubSeq(accepted, m, k)[i] = accepted[m + i - 1]
    BY <2>1, <2>2, <2>3, SubSeqProperties
  <2>5. k - m + 1 = n - m /\ (IF m <= k THEN k - m + 1 ELSE 0) = n - m
    BY <1>3, <1>5, <2>3
  <2>6. QED BY <2>3, <2>4, <2>5
<1>7. /\ SubSeq(accepted', m, n) \in Seq(Events)
      /\ Len(SubSeq(accepted', m, n)) = n - m + 1
      /\ \A i \in 1 .. n - m + 1 : SubSeq(accepted', m, n)[i] = accepted'[m + i - 1]
  <2>1. \A i \in m .. n : accepted'[i] \in Events
    BY <1>1, <1>3, <1>4, <1>5
  <2>2. /\ SubSeq(accepted', m, n) \in Seq(Events)
        /\ Len(SubSeq(accepted', m, n)) = IF m <= n THEN n - m + 1 ELSE 0
        /\ \A i \in 1 .. n - m + 1 : SubSeq(accepted', m, n)[i] = accepted'[m + i - 1]
    BY <1>3, <2>1, SubSeqProperties
  <2>3. QED BY <1>5, <2>2
<1>8. SubSeq(accepted', m, n) = Append(SubSeq(accepted, m, n - 1), hand[w])
  <2>1. /\ Append(SubSeq(accepted, m, n - 1), hand[w]) \in Seq(Events)
        /\ Len(Append(SubSeq(accepted, m, n - 1), hand[w])) = n - m + 1
        /\ \A i \in 1 .. n - m : Append(SubSeq(accepted, m, n - 1), hand[w])[i] = accepted[m + i - 1]
        /\ Append(SubSeq(accepted, m, n - 1), hand[w])[n - m + 1] = hand[w]
    BY <1>1, <1>6, AppendProperties
  <2>2. \A i \in 1 .. n - m : accepted'[m + i - 1] = accepted[m + i - 1]
    BY <1>1, <1>3, <1>4, <1>5
  <2>3. m + (n - m + 1) - 1 = n
    BY <1>3
  <2>4. \A i \in 1 .. n - m + 1 :
          SubSeq(accepted', m, n)[i] = Append(SubSeq(accepted, m, n - 1), hand[w])[i]
    BY <1>3, <1>4, <1>5, <1>7, <2>1, <2>2, <2>3
  <2>5. QED BY <1>7, <2>1, <2>4, SeqEqual
<1>9. OnTheirWay' = Append(OnTheirWay, hand[w])
  BY <1>2, <1>3, <1>4, <1>5, <1>8 DEF OnTheirWay
<1>10. QED BY <1>2, <1>9 DEF Channel!Put, OnTheirWay

(* The callback delivers the event at the head of the channel.             *)
LEMMA CallbackDelivers ==
  ASSUME Sound, Callback
  PROVE  Channel!Deliver
<1>1. CallbacksMatchEvents'
  BY CallbackSound DEF Sound
<1>2. /\ TypeOK /\ Len(accepted) \in Nat /\ Len(delivered) \in Nat
      /\ accepted \in Seq(Events)
  BY Numbers, Accepted DEF Sound
<1>3. /\ accepted' = accepted /\ delivered' = Append(delivered, EventAt(rptr))
      /\ delivered \in Seq(Events \cup {Garbage})
  BY <1>2 DEF Callback, writer, TypeOK
<1>4. EventAt(rptr) \in Events \cup {Garbage}
  <2>1. EventAt(rptr) = Garbage \/ EventAt(rptr) \in Events
    BY DEF EventAt
  <2>2. QED BY <2>1
<1>5. PICK m \in Nat : m = Len(delivered) + 1
  BY <1>2
<1>6. Len(delivered') = m /\ delivered'[m] = EventAt(rptr)
  BY <1>3, <1>4, <1>5, AppendProperties
<1>7. m <= Len(accepted) /\ delivered'[m] = accepted[m]
  BY <1>1, <1>2, <1>3, <1>5, <1>6 DEF CallbacksMatchEvents
<1>8. m \in 1 .. Len(accepted) /\ Len(accepted) \in m .. Len(accepted)
  BY <1>2, <1>5, <1>7
<1>9. /\ Head(SubSeq(accepted, m, Len(accepted))) = accepted[m]
      /\ Tail(SubSeq(accepted, m, Len(accepted))) = SubSeq(accepted, m + 1, Len(accepted))
  BY <1>2, <1>8, HeadTailOfSubSeq
<1>10. SubSeq(accepted, m, Len(accepted)) # <<>>
  <2>1. \A i \in m .. Len(accepted) : accepted[i] \in Events
    BY <1>2, <1>8, ElementOfSeq
  <2>2. Len(SubSeq(accepted, m, Len(accepted))) = Len(accepted) - m + 1
    BY <1>2, <1>5, <1>7, <2>1, SubSeqProperties
  <2>3. Len(accepted) - m + 1 # 0
    BY <1>2, <1>5, <1>7
  <2>4. QED BY <2>2, <2>3, EmptySeq
<1>11. /\ OnTheirWay = SubSeq(accepted, m, Len(accepted))
       /\ OnTheirWay' = SubSeq(accepted, m + 1, Len(accepted))
  BY <1>3, <1>5, <1>6 DEF OnTheirWay
<1>12. QED BY <1>3, <1>6, <1>7, <1>9, <1>10, <1>11 DEF Channel!Deliver

(* Every step of the ring, as long as it is orderly, is a step of the      *)
(* channel, or none.                                                       *)
LEMMA RingStep ==
  ASSUME RingInv, [Next]_vars
  PROVE  [orderly => Channel!Next]_<<OnTheirWay, delivered>>
<1> SUFFICES ASSUME Sound
             PROVE  [Channel!Next]_<<OnTheirWay, delivered>>
  BY DEF RingInv
<1>1. CASE UNCHANGED <<accepted, delivered>>
  BY <1>1 DEF OnTheirWay
<1>2. ASSUME NEW w \in Tickers, Fill(w) PROVE Channel!Next
  <2>1. hand[w] \in Events
    BY <1>2 DEF Sound, WriterInv, Fill, At
  <2>2. QED BY <1>2, <2>1, FillPuts DEF Channel!Next
<1>3. CASE Callback
  BY <1>3, CallbackDelivers DEF Channel!Next
<1>4. ASSUME NEW w \in Tickers, (\E size \in Sizes : Notify(w, size)) \/ Wrap(w) \/ Account(w)
      PROVE  UNCHANGED <<accepted, delivered>>
  BY <1>4 DEF Notify, Wrap, Account, reader
<1>5. CASE Step \/ Release \/ UNCHANGED vars
  <2>1. UNCHANGED <<accepted, delivered>>
    BY <1>5 DEF Step, Release, vars, reader, writer
  <2>2. QED BY <1>1, <2>1
<1>6. CASE \E w \in Tickers : Write(w)
  <2>1. PICK w \in Tickers : Write(w)
    BY <1>6
  <2>2. Fill(w) \/ UNCHANGED <<accepted, delivered>>
    BY <1>4, <2>1 DEF Write
  <2>3. QED BY <1>1, <1>2, <2>2
<1>7. QED BY <1>3, <1>5, <1>6 DEF Next, Read

(* The ring implements the channel: to the filters and the main thread it  *)
(* is nothing but the list of the events on their way, until the writes    *)
(* are no longer orderly.                                                  *)
THEOREM EventQueueImplementsChannel == Spec => RingIsChannel
<1>1. Init => Channel!Init
  <2>1. ASSUME Init PROVE SubSeq(accepted, Len(delivered) + 1, Len(accepted)) = <<>>
    <3>1. Len(accepted) = 0 /\ Len(delivered) = 0
      BY <2>1, EmptySeq DEF Init
    <3>2. SubSeq(accepted, 1, 0) = <<>>
      BY SubSeqEmpty
    <3>3. QED BY <3>1, <3>2
  <2>2. QED BY <2>1 DEF Init, Channel!Init, OnTheirWay
<1>2. RingInv /\ [Next]_vars => [orderly => Channel!Next]_<<OnTheirWay, delivered>>
  BY RingStep
<1>3. QED BY <1>1, <1>2, EventQueueInvariant, PTL DEF Spec, RingIsChannel

-----------------------------------------------------------------------------
(* Reader and writers lose sight of nothing: while the reader rests, an    *)
(* event without its callback is counted as available or is about to be,   *)
(* and when there is none all the room has come back.                      *)
NothingIsLeft ==
  orderly /\ rpc = "idle" =>
    /\ Len(delivered) < Len(accepted) =>
         Available \/ \E w \in Tickers : At(w, "account")
    /\ Len(delivered) = Len(accepted) => freeroom = BufSize

(* So an event waits for the next pump of the queue at most, and the ring, *)
(* however often it was full, is never full for ever, until the writes are *)
(* no longer orderly.                                                      *)
THEOREM EventQueueLeavesNothing == Spec => []NothingIsLeft
<1>1. RingInv => NothingIsLeft
  <2> SUFFICES ASSUME Sound, rpc = "idle"
               PROVE  /\ Len(delivered) < Len(accepted) =>
                           Available \/ \E w \in Tickers : At(w, "account")
                      /\ Len(delivered) = Len(accepted) => freeroom = BufSize
    BY DEF NothingIsLeft, RingInv
  <2>1. PICK D \in Nat : D = Len(delivered) /\ Released = D /\ D <= Counted
    BY Numbers DEF Released
  <2>2. PICK a \in Nat, b \in Nat : /\ a = upto[Counted] /\ b = upto[D]
                                  /\ freeroom = BufSize - (a - b)
    BY <2>1, Numbers DEF Sound, RoomInv
  <2>3. Counted \in Nat /\ Counted <= Len(accepted) /\ BufSize \in Nat
        /\ Len(accepted) \in Nat
    BY Numbers, EventFacts
  <2>4. ASSUME D < Len(accepted), \A w \in Tickers : ~At(w, "account")
        PROVE  BufSize - freeroom > 0
    <3>1. Counted = Len(accepted)
      BY <2>4 DEF Counted
    <3>2. D + 1 \in 1 .. Len(accepted) /\ D + 1 <= Counted
          /\ D + 1 \in 0 .. Len(accepted) /\ Counted \in 0 .. Len(accepted)
      BY <2>3, <2>4, <3>1
    <3>3. upto[D + 1] = upto[(D + 1) - 1] + accepted[D + 1].size
          /\ accepted[D + 1].size \in Nat /\ 0 < accepted[D + 1].size
      BY <3>2, Accepted
    <3>4. upto[D + 1] <= a
      BY <2>2, <3>2 DEF Sound, SizesAddUp
    <3>5. PICK s \in Nat : s = accepted[D + 1].size /\ 0 < s
      BY <3>3
    <3>6. upto[D + 1] = b + s
      <4>1. (D + 1) - 1 = D
        OBVIOUS
      <4>2. QED BY <2>2, <3>3, <3>5, <4>1
    <3>7. b + s <= a
      BY <3>4, <3>6
    <3>8. freeroom = BufSize - (a - b) /\ BufSize \in Nat /\ 0 < s
      BY <2>2, <2>3, <3>5
    <3>9. QED BY <3>7, <3>8
  <2>5. ASSUME D = Len(accepted) PROVE freeroom = BufSize
    <3>1. Counted = D
      BY <2>1, <2>3, <2>5
    <3>2. QED BY <2>2, <2>3, <3>1
  <2>6. QED BY <2>1, <2>4, <2>5 DEF Available
<1>2. QED BY <1>1, EventQueueInvariant, PTL

=============================================================================
