--------------------------- MODULE ConfItcProofs ----------------------------
(***************************************************************************)
(* Proofs about ConfItc.tla for every number of writers and frames.        *)
(***************************************************************************)
EXTENDS ConfItc, SequenceTheorems, TLAPS

(* A sequence is its head followed by its tail.                            *)
LEMMA HeadThenTail ==
  ASSUME NEW S, NEW s \in Seq(S), s # <<>>
  PROVE  s = <<Head(s)>> \o Tail(s)
<1>1. Head(s) \in S /\ Tail(s) \in Seq(S) /\ Len(Tail(s)) = Len(s) - 1 /\ Len(s) \in Nat
  BY HeadTailProperties, LenProperties
<1>2. <<Head(s)>> \in Seq(S) /\ <<Head(s)>> \o Tail(s) \in Seq(S)
  BY <1>1, ConcatProperties
<1>3. Len(s) = Len(<<Head(s)>> \o Tail(s))
  BY <1>1, <1>2, ConcatProperties
<1>4. \A i \in 1 .. Len(s) : s[i] = (<<Head(s)>> \o Tail(s))[i]
  BY <1>1, <1>2, ConcatProperties, HeadTailProperties
<1>5. QED BY <1>2, <1>3, <1>4, SeqEqual

(* Taking off the front and passing it on moves the boundary.              *)
LEMMA AppendIsConcatOne ==
  ASSUME NEW S, NEW s \in Seq(S), NEW e \in S
  PROVE  Append(s, e) = s \o <<e>>
<1>1. Append(s, e) \in Seq(S) /\ <<e>> \in Seq(S) /\ s \o <<e>> \in Seq(S)
  BY ConcatProperties
<1>2. Len(Append(s, e)) = Len(s \o <<e>>)
  BY <1>1, ConcatProperties
<1>3. \A i \in 1 .. Len(Append(s, e)) : Append(s, e)[i] = (s \o <<e>>)[i]
  BY <1>1, ConcatProperties
<1>4. QED BY <1>1, <1>2, <1>3, SeqEqual

(* The frames of a tick are frames.                                        *)
LEMMA TickFrames ==
  ASSUME NEW w \in Writers, NEW n \in 1 .. 2, NEW k \in 0 .. MaxFrames, k + n <= MaxFrames
  PROVE  [i \in 1 .. n |-> <<w, k + i>>] \in Seq(Frames)
<1>1. MaxFrames \in Nat
  BY ItcAssumption
<1>2. \A i \in 1 .. n : k + i \in 1 .. MaxFrames
  BY <1>1
<1>3. [i \in 1 .. n |-> <<w, k + i>>] \in [1 .. n -> Frames]
  BY <1>2 DEF Frames
<1>4. QED BY <1>3

(* What is put in front comes off first.                                   *)
LEMMA HeadTailOfPush ==
  ASSUME NEW S, NEW s \in Seq(S), NEW e \in S
  PROVE  <<e>> \o s # <<>> /\ Head(<<e>> \o s) = e /\ Tail(<<e>> \o s) = s
<1>1. <<e>> \in Seq(S) /\ Len(<<e>>) = 1
  OBVIOUS
<1> DEFINE t == <<e>> \o s
<1>2. t \in Seq(S) /\ Len(t) = 1 + Len(s) /\ Len(s) \in Nat
  BY <1>1, ConcatProperties, LenProperties
<1>3. t # <<>> /\ t[1] = e
  BY <1>1, <1>2, ConcatProperties
<1>4. Head(t) = e
  BY <1>2, <1>3
<1>5. Tail(t) \in Seq(S) /\ Len(Tail(t)) = Len(s)
  BY <1>2, <1>3, HeadTailProperties
<1>6. \A i \in 1 .. Len(s) : Tail(t)[i] = s[i]
  <2> SUFFICES ASSUME NEW i \in 1 .. Len(s) PROVE Tail(t)[i] = s[i]
    OBVIOUS
  <2>1. Tail(t)[i] = t[i + 1]
    BY <1>2, <1>3, <1>5, HeadTailProperties
  <2>2. t[i + 1] = s[i]
    BY <1>1, <1>2, ConcatProperties
  <2>3. QED BY <2>1, <2>2
<1>7. Tail(t) = s
  BY <1>5, <1>6, SeqEqual
<1>8. QED BY <1>3, <1>4, <1>7

-----------------------------------------------------------------------------
(* Every step keeps the types.                                             *)
LEMMA TypeStep ==
  ASSUME ItcInv, [Next]_vars
  PROVE  TypeOK'
<1> USE DEF TypeOK, ItcInv, LockInv
<1>0. Writers \subseteq Filters /\ Reader \in Filters
  BY DEF Filters
<1>1. CASE UNCHANGED vars
  BY <1>1 DEF vars
<1>2. ASSUME NEW f \in Filters, NullDereference(f) PROVE TypeOK'
  BY <1>2 DEF NullDereference
<1>3. ASSUME NEW f \in Filters, Lock(f) PROVE TypeOK'
  BY <1>3 DEF Lock, Goto, Labels
<1>4. ASSUME NEW f \in Filters, Load(f) PROVE TypeOK'
  BY <1>4 DEF Load, Goto, Labels
<1>5. ASSUME NEW f \in Filters, NEW l, NEW n \in Labels, Unlock(f, l, n) PROVE TypeOK'
  BY <1>5 DEF Unlock, Goto
<1>6. ASSUME NEW w \in Writers, Tick(w) PROVE TypeOK'
  <2>1. PICK n \in 1 .. 2 :
          /\ produced[w] + n <= MaxFrames
          /\ produced' = [produced EXCEPT ![w] = @ + n]
          /\ input' = [input EXCEPT ![w] = @ \o [i \in 1 .. n |-> <<w, produced[w] + i>>]]
    BY <1>6 DEF Tick
  <2>2. produced' \in [Writers -> 0 .. MaxFrames]
    BY <2>1, ItcAssumption
  <2> DEFINE new == [i \in 1 .. n |-> <<w, produced[w] + i>>]
  <2>3. new \in Seq(Frames)
    BY <2>1, TickFrames
  <2>4. input' = [input EXCEPT ![w] = @ \o new]
    BY <2>1
  <2> HIDE DEF new
  <2>5. input[w] \o new \in Seq(Frames)
    BY <2>3, ConcatProperties
  <2>6. input' \in [Writers -> Seq(Frames)]
    BY <2>4, <2>5
  <2>7. QED BY <1>0, <1>6, <2>2, <2>6 DEF Tick, Goto, Labels
<1>7. ASSUME NEW w \in Writers, SinkCheck(w) PROVE TypeOK'
  <2>1. input' \in [Writers -> Seq(Frames)]
    BY <1>7, EmptySeq DEF SinkCheck
  <2>2. pc' \in [Filters -> Labels]
    BY <1>0, <1>7 DEF SinkCheck, Goto, Labels
  <2>3. QED BY <1>7, <2>1, <2>2 DEF SinkCheck
<1>8. ASSUME NEW w \in Writers, SinkGet(w) PROVE TypeOK'
  <2>1. CASE input[w] = <<>>
    BY <1>0, <1>8, <2>1 DEF SinkGet, Goto, Labels
  <2>2. CASE input[w] # <<>>
    <3>1. Head(input[w]) \in Frames /\ Tail(input[w]) \in Seq(Frames)
      BY <2>2, HeadTailProperties
    <3>2. QED BY <1>0, <1>8, <2>2, <3>1 DEF SinkGet, Goto, Labels
  <2>3. QED BY <2>1, <2>2
<1>9. ASSUME NEW w \in Writers, SinkStore(w) PROVE TypeOK'
  <2>1. hand[w] \in Frames
    BY <1>9 DEF SinkStore, HandsHold
  <2>2. QED BY <1>0, <1>9, <2>1 DEF SinkStore, Goto, Labels
<1>10. CASE SourceCheck
  BY <1>0, <1>10 DEF SourceCheck, Goto, Labels
<1>11. CASE SourceStore
  <2>1. CASE seen[Reader] = <<>>
    BY <1>0, <1>11, <2>1 DEF SourceStore, Goto, Labels
  <2>2. CASE seen[Reader] # <<>>
    <3>1. Head(seen[Reader]) \in Frames /\ Tail(seen[Reader]) \in Seq(Frames)
      BY <1>0, <2>2, HeadTailProperties
    <3>2. QED BY <1>0, <1>11, <2>2, <3>1 DEF SourceStore, Goto, Labels
  <2>3. QED BY <2>1, <2>2
<1>12. CASE SourceDeliver
  <2>1. hand[Reader] \in Frames
    BY <1>0, <1>12 DEF SourceDeliver, HandsHold
  <2>2. QED BY <1>0, <1>12, <2>1 DEF SourceDeliver, Goto, Labels
<1>13. ASSUME NEW f \in Filters, Connect(f) PROVE TypeOK'
  BY <1>13 DEF Connect
<1>14. ASSUME NEW f \in Filters, Disconnect(f) PROVE TypeOK'
  BY <1>14 DEF Disconnect
<1>15. ASSUME NEW w \in Writers, NEW b \in BOOLEAN, SetSinkMuted(w, b) PROVE TypeOK'
  BY <1>15 DEF SetSinkMuted
<1>16. {"get", "idle", "deliver"} \subseteq Labels
  BY DEF Labels
<1>17. QED
  BY <1>0, <1>1, <1>2, <1>3, <1>4, <1>5, <1>6, <1>7, <1>8, <1>9, <1>10, <1>11, <1>12, <1>13,
     <1>14, <1>15, <1>16 DEF Next, Threads, Main, Sink, Source

(* The thread inside the lock owns it, and what it loaded stays the list   *)
(* until it stores.                                                        *)
LEMMA LockStep ==
  ASSUME ItcInv, [Next]_vars
  PROVE  LockInv'
<1> USE DEF ItcInv
<1>0. /\ Writers \subseteq Filters /\ Reader \in Filters /\ Reader \notin Writers
      /\ Nobody \notin Filters /\ NoFrame \notin Frames
      /\ pc \in [Filters -> Labels] /\ seen \in [Filters -> Seq(Frames)]
      /\ hand \in [Filters -> Frames \cup {NoFrame}]
      /\ lock \in Filters \cup {Nobody}
      /\ \A w \in Writers : input[w] \in Seq(Frames)
      /\ seen[Reader] \in Seq(Frames)
  BY ItcAssumption DEF Filters, TypeOK
<1> USE DEF LockInv, OwnerInside, LoadedIsCurrent, HandsHold, Critical
<1>1. ASSUME UNCHANGED <<q, lock, pc, seen, hand>> PROVE LockInv'
  BY <1>1
<1>2. ASSUME NEW f \in Filters, Lock(f) PROVE LockInv'
  BY <1>0, <1>2 DEF Lock, Goto
<1>3. ASSUME NEW f \in Filters, Load(f) PROVE LockInv'
  BY <1>0, <1>3 DEF Load, Goto
<1>4. ASSUME NEW w \in Writers, Unlock(w, "unlock", "get") PROVE LockInv'
  BY <1>0, <1>4 DEF Unlock, Goto
<1>5. CASE Unlock(Reader, "unlock", "idle") \/ Unlock(Reader, "unlockGot", "deliver")
  BY <1>0, <1>5 DEF Unlock, Goto
<1>6. ASSUME NEW w \in Writers, Tick(w) \/ SinkCheck(w) PROVE LockInv'
  <2>1. pc[w] \in {"idle", "check"} /\ pc' \in {[pc EXCEPT ![w] = l] : l \in {"check", "idle", "get"}}
    BY <1>6 DEF Tick, SinkCheck, Goto
  <2>2. UNCHANGED <<q, lock, seen, hand>>
    BY <1>6 DEF Tick, SinkCheck
  <2>3. QED BY <1>0, <2>1, <2>2
<1>7. ASSUME NEW w \in Writers, SinkGet(w) PROVE LockInv'
  <2>1. CASE input[w] = <<>>
    BY <1>0, <1>7, <2>1 DEF SinkGet, Goto
  <2>2. CASE input[w] # <<>>
    <3>1. Head(input[w]) \in Frames
      BY <1>0, <2>2, HeadTailProperties
    <3>2. QED BY <1>0, <1>7, <2>2, <3>1 DEF SinkGet, Goto
  <2>3. QED BY <2>1, <2>2
<1>8. ASSUME NEW w \in Writers, SinkStore(w) PROVE LockInv'
  BY <1>0, <1>8 DEF SinkStore, Goto
<1>9. CASE SourceCheck
  BY <1>0, <1>9 DEF SourceCheck, Goto
<1>10. CASE SourceStore
  <2>1. CASE seen[Reader] = <<>>
    BY <1>0, <1>10, <2>1 DEF SourceStore, Goto
  <2>2. CASE seen[Reader] # <<>>
    <3>1. Head(seen[Reader]) \in Frames
      BY <1>0, <2>2, HeadTailProperties
    <3>2. QED BY <1>0, <1>10, <2>2, <3>1 DEF SourceStore, Goto
  <2>3. QED BY <2>1, <2>2
<1>11. CASE SourceDeliver
  BY <1>0, <1>11 DEF SourceDeliver, Goto
<1>12. QED
  <2> HIDE DEF LockInv, OwnerInside, LoadedIsCurrent, HandsHold, ItcInv
  <2>1. CASE UNCHANGED vars
    BY <1>1, <2>1 DEF vars
  <2>2. ASSUME NEW f \in Filters, NullDereference(f) \/ Connect(f) \/ Disconnect(f) PROVE LockInv'
    BY <1>1, <2>2 DEF NullDereference, Connect, Disconnect
  <2>3. ASSUME NEW w \in Writers, NEW b \in BOOLEAN, SetSinkMuted(w, b) PROVE LockInv'
    BY <1>1, <2>3 DEF SetSinkMuted
  <2>4. ASSUME NEW w \in Writers, Tick(w) \/ Sink(w) PROVE LockInv'
    BY <1>0, <1>2, <1>3, <1>4, <1>6, <1>7, <1>8, <2>2, <2>4 DEF Sink
  <2>5. CASE Source
    BY <1>0, <1>2, <1>3, <1>5, <1>9, <1>10, <1>11, <2>2, <2>5 DEF Source
  <2>6. QED BY <2>1, <2>2, <2>3, <2>4, <2>5 DEF Next, Threads, Main

-----------------------------------------------------------------------------
(* What a step does to the frames: it puts one in at the end, moves one    *)
(* from the list to the source's hand, passes one on, or leaves them.      *)
Put(f) ==
  /\ f \in Frames
  /\ q' = Append(q, f) /\ written' = Append(written, f)
  /\ UNCHANGED <<Taken, delivered>>

Take ==
  /\ q # <<>> /\ Taken = <<>>
  /\ Taken' = <<Head(q)>> /\ q' = Tail(q)
  /\ UNCHANGED <<written, delivered>>

PassOn ==
  \E f \in Frames : /\ Taken = <<f>> /\ Taken' = <<>>
                    /\ delivered' = Append(delivered, f)
                    /\ UNCHANGED <<q, written>>

LEMMA FrameSteps ==
  ASSUME ItcInv, [Next]_vars
  PROVE  (\E f \in Frames : Put(f)) \/ Take \/ PassOn \/ UNCHANGED <<Taken, q, written, delivered>>
<1> USE DEF ItcInv, LockInv, TypeOK
<1>0. /\ Reader \in Filters /\ Reader \notin Writers /\ NoFrame \notin Frames
      /\ Writers \subseteq Filters
  BY ItcAssumption DEF Filters
<1>1. ASSUME UNCHANGED <<q, written, delivered>>, hand'[Reader] = hand[Reader]
      PROVE  UNCHANGED <<Taken, q, written, delivered>>
  BY <1>1 DEF Taken
<1>2. ASSUME NEW w \in Writers, SinkStore(w) PROVE Put(hand[w])
  <2>1. seen[w] = q /\ hand[w] \in Frames
    BY <1>0, <1>2 DEF SinkStore, LoadedIsCurrent, HandsHold
  <2>2. hand'[Reader] = hand[Reader]
    BY <1>0, <1>2 DEF SinkStore
  <2>3. Taken' = Taken
    BY <2>2 DEF Taken
  <2>4. QED BY <1>2, <2>1, <2>3 DEF SinkStore, Put
<1>3. CASE SourceStore /\ seen[Reader] # <<>>
  <2>1. seen[Reader] = q /\ hand[Reader] = NoFrame
    BY <1>0, <1>3 DEF SourceStore, LoadedIsCurrent, HandsHold
  <2>2. hand'[Reader] = Head(q) /\ q' = Tail(q) /\ Head(q) \in Frames
    BY <1>0, <1>3, <2>1, HeadTailProperties DEF SourceStore
  <2>3. Taken = <<>> /\ Taken' = <<Head(q)>>
    BY <1>0, <2>1, <2>2 DEF Taken
  <2>4. Take
    BY <1>3, <2>1, <2>2, <2>3 DEF SourceStore, Take
  <2>5. QED BY <2>4
<1>4. CASE SourceDeliver
  <2>1. hand[Reader] \in Frames
    BY <1>0, <1>4 DEF SourceDeliver, HandsHold
  <2>2. Taken = <<hand[Reader]>> /\ Taken' = <<>>
    BY <1>0, <1>4, <2>1 DEF SourceDeliver, Taken
  <2>3. PassOn
    BY <1>4, <2>1, <2>2 DEF SourceDeliver, PassOn
  <2>4. QED BY <2>3
<1>5. CASE UNCHANGED vars
  BY <1>1, <1>5 DEF vars
<1>6. ASSUME NEW f \in Filters,
             NullDereference(f) \/ Lock(f) \/ Load(f) \/ Connect(f) \/ Disconnect(f)
      PROVE  UNCHANGED <<Taken, q, written, delivered>>
  BY <1>1, <1>6 DEF NullDereference, Lock, Load, Connect, Disconnect
<1>7. ASSUME NEW f \in Filters, NEW l, NEW n, Unlock(f, l, n)
      PROVE  UNCHANGED <<Taken, q, written, delivered>>
  BY <1>1, <1>7 DEF Unlock
<1>8. ASSUME NEW w \in Writers, NEW b \in BOOLEAN,
             Tick(w) \/ SinkCheck(w) \/ SinkGet(w) \/ SetSinkMuted(w, b)
      PROVE  UNCHANGED <<Taken, q, written, delivered>>
  <2>1. hand'[Reader] = hand[Reader] /\ UNCHANGED <<q, written, delivered>>
    BY <1>0, <1>8 DEF Tick, SinkCheck, SinkGet, SetSinkMuted
  <2>2. QED BY <1>1, <2>1
<1>9. CASE SourceCheck \/ (SourceStore /\ seen[Reader] = <<>>)
  BY <1>1, <1>9 DEF SourceCheck, SourceStore
<1>10. ASSUME NEW w \in Writers, Sink(w) \/ Tick(w)
       PROVE  (\E f \in Frames : Put(f)) \/ UNCHANGED <<Taken, q, written, delivered>>
  <2>1. ASSUME SinkStore(w) PROVE \E f \in Frames : Put(f)
    <3>1. Put(hand[w])
      BY <1>2, <2>1
    <3>2. hand[w] \in Frames
      BY <3>1 DEF Put
    <3>3. QED BY <3>1, <3>2
  <2>2. QED BY <1>0, <1>6, <1>7, <1>8, <1>10, <2>1 DEF Sink
<1>11. CASE Source
  BY <1>0, <1>3, <1>4, <1>6, <1>7, <1>9, <1>11 DEF Source
<1>12. CASE Main
  BY <1>6, <1>8, <1>12 DEF Main
<1>13. QED BY <1>5, <1>10, <1>11, <1>12 DEF Next, Threads

(* The sequences involved.                                                 *)
LEMMA SeqTypes ==
  ASSUME ItcInv
  PROVE  /\ q \in Seq(Frames) /\ Taken \in Seq(Frames) /\ delivered \in Seq(Frames)
         /\ written \in Seq(Frames) /\ delivered \o Taken \in Seq(Frames)
         /\ Taken \o q \in Seq(Frames)
<1>1. Taken \in Seq(Frames)
  <2>1. CASE hand[Reader] = NoFrame
    BY <2>1, EmptySeq DEF Taken
  <2>2. CASE hand[Reader] # NoFrame
    <3>1. hand[Reader] \in Frames
      BY <2>2 DEF ItcInv, TypeOK, Filters
    <3>2. QED BY <2>2, <3>1 DEF Taken
  <2>3. QED BY <2>1, <2>2
<1>2. q \in Seq(Frames) /\ delivered \in Seq(Frames) /\ written \in Seq(Frames)
  BY DEF ItcInv, TypeOK
<1>3. QED BY <1>1, <1>2, ConcatProperties

(* Frames stay in order, step by step.                                     *)
LEMMA OrderStep ==
  ASSUME ItcInv, [Next]_vars
  PROVE  FramesInOrder'
<1>0. written = (delivered \o Taken) \o q
  BY DEF ItcInv, FramesInOrder
<1>1. ASSUME NEW f \in Frames, Put(f) PROVE FramesInOrder'
  <2>1. written' = Append((delivered \o Taken) \o q, f) /\ q' = Append(q, f)
    BY <1>0, <1>1 DEF Put
  <2>2. Append((delivered \o Taken) \o q, f) = (delivered \o Taken) \o Append(q, f)
    <3>1. delivered \o Taken \in Seq(Frames) /\ q \in Seq(Frames)
      BY SeqTypes
    <3>2. /\ Append((delivered \o Taken) \o q, f) = ((delivered \o Taken) \o q) \o <<f>>
          /\ Append(q, f) = q \o <<f>>
      BY <3>1, ConcatProperties, AppendIsConcatOne
    <3>3. <<f>> \in Seq(Frames)
      OBVIOUS
    <3>4. ((delivered \o Taken) \o q) \o <<f>> = (delivered \o Taken) \o (q \o <<f>>)
      BY <3>1, <3>3, ConcatAssociative
    <3>5. QED BY <3>2, <3>4
  <2>3. Taken' = Taken /\ delivered' = delivered
    BY <1>1 DEF Put
  <2>4. QED BY <2>1, <2>2, <2>3 DEF FramesInOrder
<1>2. CASE Take
  <2>1. written = delivered \o q
    BY <1>0, <1>2, SeqTypes, ConcatEmptySeq DEF Take
  <2>2. q = <<Head(q)>> \o Tail(q) /\ Head(q) \in Frames /\ Tail(q) \in Seq(Frames)
    BY <1>2, SeqTypes, HeadThenTail, HeadTailProperties DEF Take
  <2>3. <<Head(q)>> \in Seq(Frames)
    BY <2>2
  <2>4. delivered \o (<<Head(q)>> \o Tail(q)) = (delivered \o <<Head(q)>>) \o Tail(q)
    BY <2>2, <2>3, SeqTypes, ConcatAssociative
  <2>5. written' = (delivered' \o Taken') \o q'
    BY <1>2, <2>1, <2>2, <2>4 DEF Take
  <2>6. QED BY <2>5 DEF FramesInOrder
<1>3. CASE PassOn
  <2>1. PICK f \in Frames : /\ Taken = <<f>> /\ Taken' = <<>>
                            /\ delivered' = Append(delivered, f)
                            /\ UNCHANGED <<q, written>>
    BY <1>3 DEF PassOn
  <2>2. delivered' = delivered \o <<f>> /\ delivered' \in Seq(Frames)
    BY <2>1, SeqTypes, AppendIsConcatOne
  <2>3. delivered' \o <<>> = delivered'
    BY <2>2, ConcatEmptySeq
  <2>4. written' = (delivered' \o Taken') \o q'
    BY <1>0, <2>1, <2>2, <2>3
  <2>5. QED BY <2>4 DEF FramesInOrder
<1>4. CASE UNCHANGED <<Taken, q, written, delivered>>
  BY <1>0, <1>4 DEF FramesInOrder
<1>5. QED BY <1>1, <1>2, <1>3, <1>4, FrameSteps

-----------------------------------------------------------------------------
(* The inductive invariant holds of every reachable state.                 *)
THEOREM ItcInvariant == Spec => []ItcInv
<1>1. Init => ItcInv
  <2> SUFFICES ASSUME Init PROVE ItcInv
    OBVIOUS
  <2>1. TypeOK
    <3>1. <<>> \in Seq(Frames) /\ MaxFrames \in Nat
      BY ItcAssumption, EmptySeq
    <3>2. /\ connected \in [Filters -> BOOLEAN] /\ muted \in [Writers -> BOOLEAN]
          /\ lock \in Filters \cup {Nobody} /\ crashed \in BOOLEAN
      BY DEF Init
    <3>3. produced \in [Writers -> 0 .. MaxFrames]
      BY <3>1 DEF Init
    <3>4. /\ input \in [Writers -> Seq(Frames)] /\ seen \in [Filters -> Seq(Frames)]
          /\ q \in Seq(Frames) /\ written \in Seq(Frames) /\ delivered \in Seq(Frames)
      BY <3>1 DEF Init
    <3>5. pc \in [Filters -> Labels] /\ hand \in [Filters -> Frames \cup {NoFrame}]
      BY DEF Init, Labels
    <3>6. QED BY <3>2, <3>3, <3>4, <3>5 DEF TypeOK
  <2>2. LockInv
    BY ItcAssumption DEF Init, LockInv, OwnerInside, LoadedIsCurrent, HandsHold, Critical, Filters
  <2>3. FramesInOrder
    <3>1. Taken = <<>>
      BY DEF Init, Taken, Filters
    <3>2. QED BY <3>1, EmptySeq, ConcatEmptySeq DEF Init, FramesInOrder
  <2>4. QED BY <2>1, <2>2, <2>3 DEF ItcInv
<1>2. ItcInv /\ [Next]_vars => ItcInv'
  BY TypeStep, LockStep, OrderStep DEF ItcInv
<1>3. QED BY <1>1, <1>2, PTL DEF Spec

(* Nothing put into a slot queue is lost, repeated or overtaken.           *)
THEOREM ItcFramesInOrder == Spec => []FramesInOrder
<1>1. ItcInv => FramesInOrder
  BY DEF ItcInv
<1>2. QED BY <1>1, ItcInvariant, PTL

(* A slot queue between its two filters implements the abstract channel.   *)
THEOREM ItcQueueIsChannel == Spec => QueueIsChannel
<1>1. Init => Channel!Init
  <2> SUFFICES ASSUME Init PROVE Channel!Init
    OBVIOUS
  <2>1. Taken = <<>> /\ q = <<>> /\ delivered = <<>>
    BY DEF Init, Taken, Filters
  <2>2. Taken \o q = <<>>
    BY <2>1, EmptySeq, ConcatEmptySeq
  <2>3. QED BY <2>1, <2>2 DEF Channel!Init
<1>2. ItcInv /\ [Next]_vars => [Channel!Next]_<<Taken \o q, delivered>>
  <2> SUFFICES ASSUME ItcInv, [Next]_vars
               PROVE  Channel!Next \/ UNCHANGED <<Taken \o q, delivered>>
    OBVIOUS
  <2>1. ASSUME NEW f \in Frames, Put(f) PROVE Channel!Next
    <3>1. Append(Taken \o q, f) = Taken \o Append(q, f)
      <4>1. Taken \in Seq(Frames) /\ q \in Seq(Frames)
        BY SeqTypes
      <4>2. Append(Taken \o q, f) = (Taken \o q) \o <<f>> /\ Append(q, f) = q \o <<f>>
        BY <4>1, ConcatProperties, AppendIsConcatOne
      <4>3. <<f>> \in Seq(Frames)
        OBVIOUS
      <4>4. (Taken \o q) \o <<f>> = Taken \o (q \o <<f>>)
        BY <4>1, <4>3, ConcatAssociative
      <4>5. QED BY <4>2, <4>4
    <3>2. Channel!Put(f)
      BY <2>1, <3>1 DEF Put, Channel!Put
    <3>3. QED BY <3>2 DEF Channel!Next
  <2>2. CASE Take
    <3>1. q = <<Head(q)>> \o Tail(q) /\ <<>> \o q = q
      BY <2>2, SeqTypes, HeadThenTail, ConcatEmptySeq DEF Take
    <3>2. QED BY <2>2, <3>1 DEF Take
  <2>3. CASE PassOn
    <3>1. PICK f \in Frames : /\ Taken = <<f>> /\ Taken' = <<>>
                              /\ delivered' = Append(delivered, f)
                              /\ UNCHANGED <<q, written>>
      BY <2>3 DEF PassOn
    <3>2. Head(<<f>> \o q) = f /\ Tail(<<f>> \o q) = q /\ <<f>> \o q # <<>>
      BY <3>1, SeqTypes, ConcatProperties, HeadTailOfPush
    <3>3. <<>> \o q = q
      BY SeqTypes, ConcatEmptySeq
    <3>4. Channel!Deliver
      BY <3>1, <3>2, <3>3 DEF Channel!Deliver
    <3>5. QED BY <3>4 DEF Channel!Next
  <2>4. CASE UNCHANGED <<Taken, q, written, delivered>>
    BY <2>4
  <2>5. QED BY <2>1, <2>2, <2>3, <2>4, FrameSteps
<1>3. QED BY <1>1, <1>2, ItcInvariant, PTL DEF Spec, QueueIsChannel, Channel!Spec
-----------------------------------------------------------------------------
(* What nobody needs to be fair for: calls that go on come nearer to their *)
(* ends, and the lock to its release.                                      *)
SinkStage == [check |-> 1, get |-> 0, lock |-> 4, load |-> 3, store |-> 2, unlock |-> 1]

StepsLeft(w) == 5 * Len(input[w]) + SinkStage[pc[w]]

(* While a process call of a sink goes on, each of its steps brings it     *)
(* nearer to its end, and nothing that the others do takes it back.        *)
SinkCallsEnd ==
  [][\A w \in Writers : pc[w] # "idle" /\ pc'[w] # "idle" =>
       IF pc'[w] = pc[w] THEN input'[w] = input[w] ELSE StepsLeft(w)' < StepsLeft(w)]_vars

(* The source gives up only when the list is empty as it then is, not as   *)
(* it was when the source looked; otherwise it takes the first frame.      *)
SourceTakesAll ==
  [][pc[Reader] = "store" /\ pc'[Reader] # "store" =>
       IF q = <<>> THEN pc'[Reader] = "unlock"
       ELSE pc'[Reader] = "unlockGot" /\ hand'[Reader] = Head(q) /\ q' = Tail(q)]_vars

OwnerStage == [load |-> 2, store |-> 1, unlock |-> 0, unlockGot |-> 0]

(* Nobody but its owner gives the lock back, and each step of the owner    *)
(* brings it nearer to that.                                               *)
LockComesBack ==
  [][lock # Nobody /\ lock' # Nobody =>
       /\ lock' = lock
       /\ pc'[lock] = pc[lock] \/ OwnerStage[pc'[lock]] < OwnerStage[pc[lock]]]_vars

LEMMA KindsOfFilters ==
  ASSUME ItcInv
  PROVE  /\ Writers \subseteq Filters /\ Reader \in Filters /\ Reader \notin Writers
         /\ Nobody \notin Filters
         /\ pc \in [Filters -> Labels] /\ hand \in [Filters -> Frames \cup {NoFrame}]
         /\ lock \in Filters \cup {Nobody}
         /\ input \in [Writers -> Seq(Frames)]
         /\ \A f \in Filters : pc[f] \in Critical <=> lock = f
         /\ \A f \in Filters : pc[f] = "store" => seen[f] = q
BY ItcAssumption DEF Filters, TypeOK, ItcInv, LockInv, OwnerInside, LoadedIsCurrent

(* The steps of a step's thread, and those that leave all threads where    *)
(* they are.                                                               *)
LEMMA StepKinds ==
  ASSUME Next
  PROVE  \/ \E w \in Writers : \/ Tick(w) \/ SinkCheck(w) \/ SinkGet(w) \/ Lock(w) \/ Load(w)
                               \/ SinkStore(w) \/ Unlock(w, "unlock", "get")
         \/ SourceCheck \/ Lock(Reader) \/ Load(Reader) \/ SourceStore \/ SourceDeliver
         \/ Unlock(Reader, "unlock", "idle") \/ Unlock(Reader, "unlockGot", "deliver")
         \/ UNCHANGED <<pc, lock, input>>
<1>1. ASSUME NEW f, NullDereference(f) \/ Connect(f) \/ Disconnect(f)
      PROVE  UNCHANGED <<pc, lock, input>>
  BY <1>1 DEF NullDereference, Connect, Disconnect
<1>2. ASSUME NEW w \in Writers, NEW b \in BOOLEAN, SetSinkMuted(w, b)
      PROVE  UNCHANGED <<pc, lock, input>>
  BY <1>2 DEF SetSinkMuted
<1>3. QED BY <1>1, <1>2 DEF Next, Threads, Main, Sink, Source

LEMMA SinkStep ==
  ASSUME ItcInv, Next, NEW w \in Writers, pc[w] # "idle", pc'[w] # "idle"
  PROVE  IF pc'[w] = pc[w] THEN input'[w] = input[w] ELSE StepsLeft(w)' < StepsLeft(w)
<1> DEFINE Less == IF pc'[w] = pc[w] THEN input'[w] = input[w] ELSE StepsLeft(w)' < StepsLeft(w)
<1>0. /\ w \in Filters /\ w # Reader /\ pc \in [Filters -> Labels] /\ Reader \in Filters
      /\ Writers \subseteq Filters
      /\ input \in [Writers -> Seq(Frames)] /\ Len(input[w]) \in Nat
  BY KindsOfFilters, LenProperties
<1>1. ASSUME UNCHANGED input, pc[w] \in DOMAIN SinkStage, pc'[w] \in DOMAIN SinkStage,
             SinkStage[pc'[w]] < SinkStage[pc[w]]
      PROVE  Less
  <2>1. SinkStage[pc'[w]] \in Nat /\ SinkStage[pc[w]] \in Nat
    BY <1>1 DEF SinkStage
  <2>2. \A n, i, j \in Nat : i < j => 5 * n + i < 5 * n + j
    OBVIOUS
  <2>3. 5 * Len(input[w]) + SinkStage[pc'[w]] < 5 * Len(input[w]) + SinkStage[pc[w]]
    BY <1>0, <1>1, <2>1, <2>2
  <2>4. pc'[w] # pc[w]
    BY <1>1, <2>1
  <2>5. QED BY <1>1, <2>3, <2>4 DEF StepsLeft
<1>2. CASE Tick(w)
  BY <1>2 DEF Tick
<1>3. CASE SinkCheck(w)
  <2>1. UNCHANGED input /\ pc[w] = "check" /\ pc'[w] = "get"
    BY <1>0, <1>3 DEF SinkCheck, Goto
  <2>2. QED BY <1>1, <2>1 DEF SinkStage
<1>4. CASE SinkGet(w)
  <2>1. /\ pc[w] = "get" /\ pc'[w] = "lock" /\ input[w] # <<>>
        /\ input' = [input EXCEPT ![w] = Tail(input[w])]
    BY <1>0, <1>4 DEF SinkGet, Goto
  <2>2. Len(input[w]) \in Nat \ {0} /\ Len(input'[w]) = Len(input[w]) - 1
    BY <1>0, <2>1, HeadTailProperties, EmptySeq
  <2>3. StepsLeft(w)' = 5 * Len(input'[w]) + 4 /\ StepsLeft(w) = 5 * Len(input[w]) + 0
    BY <2>1 DEF StepsLeft, SinkStage
  <2>4. \A n \in Nat \ {0} : 5 * (n - 1) + 4 < 5 * n + 0
    OBVIOUS
  <2>5. StepsLeft(w)' < StepsLeft(w)
    BY <2>2, <2>3, <2>4
  <2>6. QED BY <2>1, <2>5
<1>5. CASE Lock(w)
  <2>1. UNCHANGED input /\ pc[w] = "lock" /\ pc'[w] = "load"
    BY <1>0, <1>5 DEF Lock, Goto
  <2>2. QED BY <1>1, <2>1 DEF SinkStage
<1>6. CASE Load(w)
  <2>1. UNCHANGED input /\ pc[w] = "load" /\ pc'[w] = "store"
    BY <1>0, <1>6 DEF Load, Goto
  <2>2. QED BY <1>1, <2>1 DEF SinkStage
<1>7. CASE SinkStore(w)
  <2>1. UNCHANGED input /\ pc[w] = "store" /\ pc'[w] = "unlock"
    BY <1>0, <1>7 DEF SinkStore, Goto
  <2>2. QED BY <1>1, <2>1 DEF SinkStage
<1>8. CASE Unlock(w, "unlock", "get")
  <2>1. UNCHANGED input /\ pc[w] = "unlock" /\ pc'[w] = "get"
    BY <1>0, <1>8 DEF Unlock, Goto
  <2>2. QED BY <1>1, <2>1 DEF SinkStage
<1>9. CASE pc'[w] = pc[w] /\ input'[w] = input[w]
  BY <1>9
<1>10. ASSUME NEW v \in Writers, v # w,
              \/ Tick(v) \/ SinkCheck(v) \/ SinkGet(v) \/ Lock(v) \/ Load(v)
              \/ SinkStore(v) \/ Unlock(v, "unlock", "get")
       PROVE  pc'[w] = pc[w] /\ input'[w] = input[w]
  BY <1>0, <1>10 DEF Tick, SinkCheck, SinkGet, Lock, Load, SinkStore, Unlock, Goto
<1>11. ASSUME \/ SourceCheck \/ Lock(Reader) \/ Load(Reader) \/ SourceStore \/ SourceDeliver
              \/ Unlock(Reader, "unlock", "idle") \/ Unlock(Reader, "unlockGot", "deliver")
              \/ UNCHANGED <<pc, lock, input>>
       PROVE  pc'[w] = pc[w] /\ input'[w] = input[w]
  BY <1>0, <1>11 DEF SourceCheck, Lock, Load, SourceStore, SourceDeliver, Unlock, Goto
<1>12. QED
  BY <1>2, <1>3, <1>4, <1>5, <1>6, <1>7, <1>8, <1>9, <1>10, <1>11, StepKinds

(* The loop of a sink over its input ends in every call.                   *)
THEOREM EverySinkCallEnds == Spec => SinkCallsEnd
<1>1. ItcInv /\ [Next]_vars =>
        [\A w \in Writers : pc[w] # "idle" /\ pc'[w] # "idle" =>
           IF pc'[w] = pc[w] THEN input'[w] = input[w] ELSE StepsLeft(w)' < StepsLeft(w)]_vars
  BY SinkStep
<1>2. QED BY <1>1, ItcInvariant, PTL DEF Spec, SinkCallsEnd

LEMMA SourceStep ==
  ASSUME ItcInv, Next, pc[Reader] = "store", pc'[Reader] # "store"
  PROVE  IF q = <<>> THEN pc'[Reader] = "unlock"
         ELSE pc'[Reader] = "unlockGot" /\ hand'[Reader] = Head(q) /\ q' = Tail(q)
<1>0. /\ Reader \in Filters /\ Reader \notin Writers /\ Writers \subseteq Filters
      /\ pc \in [Filters -> Labels] /\ hand \in [Filters -> Frames \cup {NoFrame}]
      /\ seen[Reader] = q
  BY KindsOfFilters
<1>1. CASE SourceStore
  BY <1>0, <1>1 DEF SourceStore, Goto
<1>2. ASSUME NEW v \in Writers,
             \/ Tick(v) \/ SinkCheck(v) \/ SinkGet(v) \/ Lock(v) \/ Load(v)
             \/ SinkStore(v) \/ Unlock(v, "unlock", "get")
      PROVE  pc'[Reader] = pc[Reader]
  BY <1>0, <1>2 DEF Tick, SinkCheck, SinkGet, Lock, Load, SinkStore, Unlock, Goto
<1>3. ASSUME \/ SourceCheck \/ Lock(Reader) \/ Load(Reader) \/ SourceDeliver
             \/ Unlock(Reader, "unlock", "idle") \/ Unlock(Reader, "unlockGot", "deliver")
      PROVE  FALSE
  BY <1>3 DEF SourceCheck, Lock, Load, SourceDeliver, Unlock
<1>4. QED BY <1>1, <1>2, <1>3, StepKinds

(* A source call leaves nothing in the queue for the next tick.            *)
THEOREM EverySourceCallTakesAll == Spec => SourceTakesAll
<1>1. ItcInv /\ [Next]_vars =>
        [pc[Reader] = "store" /\ pc'[Reader] # "store" =>
           IF q = <<>> THEN pc'[Reader] = "unlock"
           ELSE pc'[Reader] = "unlockGot" /\ hand'[Reader] = Head(q) /\ q' = Tail(q)]_vars
  BY SourceStep
<1>2. QED BY <1>1, ItcInvariant, PTL DEF Spec, SourceTakesAll

LEMMA OwnerStep ==
  ASSUME ItcInv, Next, lock # Nobody, lock' # Nobody
  PROVE  /\ lock' = lock
         /\ pc'[lock] = pc[lock] \/ OwnerStage[pc'[lock]] < OwnerStage[pc[lock]]
<1> DEFINE Kept == /\ lock' = lock
                   /\ pc'[lock] = pc[lock] \/ OwnerStage[pc'[lock]] < OwnerStage[pc[lock]]
<1>0. /\ Reader \in Filters /\ Writers \subseteq Filters /\ lock \in Filters
      /\ pc \in [Filters -> Labels]
      /\ \A f \in Filters : pc[f] \in Critical <=> lock = f
  BY KindsOfFilters
<1>1. ASSUME NEW f \in Filters, Lock(f) \/ Unlock(f, "unlock", "get") \/ Unlock(f, "unlock", "idle")
                                \/ Unlock(f, "unlockGot", "deliver")
      PROVE  FALSE
  BY <1>1 DEF Lock, Unlock
<1>2. ASSUME NEW f \in Filters, Load(f) PROVE Kept
  <2>1. pc[f] = "load" /\ pc'[f] = "store" /\ lock' = lock /\ lock = f
    BY <1>0, <1>2 DEF Load, Goto, Critical
  <2>2. QED BY <2>1 DEF OwnerStage
<1>3. ASSUME NEW w \in Writers, SinkStore(w) PROVE Kept
  <2>1. pc[w] = "store" /\ pc'[w] = "unlock" /\ lock' = lock /\ lock = w
    BY <1>0, <1>3 DEF SinkStore, Goto, Critical
  <2>2. QED BY <2>1 DEF OwnerStage
<1>4. CASE SourceStore
  <2>1. /\ pc[Reader] = "store" /\ pc'[Reader] \in {"unlock", "unlockGot"}
        /\ lock' = lock /\ lock = Reader
    BY <1>0, <1>4 DEF SourceStore, Goto, Critical
  <2>2. QED BY <2>1 DEF OwnerStage
<1>5. ASSUME NEW w \in Writers, Tick(w) \/ SinkCheck(w) \/ SinkGet(w) PROVE Kept
  <2>1. pc[w] \notin Critical /\ lock' = lock /\ \A f \in Filters \ {w} : pc'[f] = pc[f]
    BY <1>0, <1>5 DEF Tick, SinkCheck, SinkGet, Goto, Critical
  <2>2. QED BY <1>0, <2>1
<1>6. CASE SourceCheck \/ SourceDeliver
  <2>1. /\ pc[Reader] \notin Critical /\ lock' = lock
        /\ \A f \in Filters \ {Reader} : pc'[f] = pc[f]
    BY <1>0, <1>6 DEF SourceCheck, SourceDeliver, Goto, Critical
  <2>2. QED BY <1>0, <2>1
<1>7. CASE UNCHANGED <<pc, lock, input>>
  BY <1>7
<1>8. QED BY <1>0, <1>1, <1>2, <1>3, <1>4, <1>5, <1>6, <1>7, StepKinds

(* The lock of a slot queue is never taken over and never kept: its owner  *)
(* needs three steps at most, none of which waits for anybody.             *)
THEOREM TheLockComesBack == Spec => LockComesBack
<1>1. ItcInv /\ [Next]_vars =>
        [lock # Nobody /\ lock' # Nobody =>
           /\ lock' = lock
           /\ pc'[lock] = pc[lock] \/ OwnerStage[pc'[lock]] < OwnerStage[pc[lock]]]_vars
  BY OwnerStep
<1>2. QED BY <1>1, ItcInvariant, PTL DEF Spec, LockComesBack

=============================================================================
