-------------------------- MODULE FilePlayerProofs --------------------------
(* Theorems about FilePlayer.tla.  PlayerInv is inductive as it stands; the *)
(* other invariants follow from it, or are inductive given it.             *)
EXTENDS FilePlayer, SequenceTheorems, TLAPS

-----------------------------------------------------------------------------
(* Taking the first of a queue.                                            *)
LEMMA TakeFirst ==
  ASSUME NEW S, NEW s \in Seq(S), s # <<>>
  PROVE  /\ Len(s) \in Nat \ {0} /\ 1 \in DOMAIN s /\ Head(s) = s[1] /\ Head(s) \in S
         /\ Tail(s) \in Seq(S) /\ Len(Tail(s)) = Len(s) - 1
         /\ \A i \in DOMAIN Tail(s) : i \in Nat \ {0} /\ i + 1 \in DOMAIN s /\ Tail(s)[i] = s[i + 1]
  OBVIOUS

(* Adding to a queue.                                                      *)
LEMMA AddLast ==
  ASSUME NEW S, NEW s \in Seq(S), NEW x \in S
  PROVE  /\ Append(s, x) \in Seq(S) /\ Append(s, x) # <<>> /\ Len(s) \in Nat
         /\ Len(Append(s, x)) = Len(s) + 1
         /\ \A i \in DOMAIN Append(s, x) :
              (i \in DOMAIN s /\ Append(s, x)[i] = s[i]) \/ (i = Len(s) + 1 /\ Append(s, x)[i] = x)
         /\ s # <<>> => Head(Append(s, x)) = Head(s)
         /\ s = <<>> => Head(Append(s, x)) = x
<1>1. /\ Append(s, x) \in Seq(S) /\ Append(s, x) # <<>> /\ Len(s) \in Nat
      /\ Len(Append(s, x)) = Len(s) + 1
      /\ DOMAIN s = 1 .. Len(s) /\ DOMAIN Append(s, x) = 1 .. Len(s) + 1
  OBVIOUS
<1>2. Append(s, x)[Len(s) + 1] = x
  OBVIOUS
<1>3. \A i \in 1 .. Len(s) : Append(s, x)[i] = s[i]
  OBVIOUS
<1>4. Head(Append(s, x)) = Append(s, x)[1]
  BY <1>1
<1>5. s = <<>> => Len(s) = 0
  OBVIOUS
<1>6. s # <<>> => Len(s) > 0 /\ Head(s) = s[1]
  OBVIOUS
<1>7. QED BY <1>1, <1>2, <1>3, <1>4, <1>5, <1>6

(* Adding several of the same to a queue.                                  *)
LEMMA AddBlocks ==
  ASSUME NEW S, NEW s \in Seq(S), NEW x \in S, NEW n \in Nat, NEW t, t = s \o [i \in 1 .. n |-> x]
  PROVE  /\ t \in Seq(S) /\ Len(s) \in Nat /\ Len(t) = Len(s) + n
         /\ \A i \in DOMAIN t : (i \in DOMAIN s /\ t[i] = s[i]) \/ t[i] = x
<1>1. PICK b : b = [i \in 1 .. n |-> x]
  OBVIOUS
<1>2. b \in Seq(S) /\ Len(b) = n /\ \A i \in 1 .. n : b[i] = x
  BY <1>1
<1>3. t = s \o b
  BY <1>1
<1>4. /\ t \in Seq(S) /\ Len(t) = Len(s) + n
      /\ \A i \in 1 .. Len(s) + n : t[i] = IF i <= Len(s) THEN s[i] ELSE b[i - Len(s)]
  BY <1>2, <1>3, ConcatProperties
<1>5. Len(s) \in Nat /\ DOMAIN s = 1 .. Len(s) /\ DOMAIN t = 1 .. Len(s) + n
  BY <1>4, LenProperties
<1>6. \A i \in 1 .. Len(s) + n : ~(i <= Len(s)) => i - Len(s) \in 1 .. n
  BY <1>5
<1>7. QED BY <1>2, <1>4, <1>5, <1>6

(* The kinds of the constants; no packet is a value like any other.        *)
LEMMA Bounds ==
  /\ MIN_FRAMES \in Nat /\ MIN_AUDIO_BUFS \in Nat /\ MaxBlocks \in Nat /\ MAX_QUEUE_SIZE \in Nat /\ MaxStretch \in Nat /\ MaxPackets \in Nat
  /\ Flush_pkt \in Stretches /\ Stretches \subseteq Nat
  /\ \A x \in Stretches : x < MaxStretch => x + 1 \in Stretches
  BY FilePlayerAssumption DEF Flush_pkt, Stretches

(* Of the blocks of a frame and the limits of the output queues.           *)
LEMMA BlockCounts ==
  \A m \in Media : /\ Limit(m) \in Nat \ {0} /\ MostBlocks(m) \in Nat \ {0}
                   /\ \A n \in Blocks(m) : n \in Nat /\ n <= MostBlocks(m)
BY FilePlayerAssumption DEF Limit, MostBlocks, Blocks

(* The output queues after a decode added the blocks of a frame to one.    *)
LEMMA DecodedQueues ==
  ASSUME TypeOK, NEW m \in Media, NEW n \in Blocks(m)
  PROVE  [outq EXCEPT ![m] = @ \o [i \in 1 .. n |-> hand[m]]] \in [Media -> Seq(Stretches)]
<1>1. PICK t : t = outq[m] \o [i \in 1 .. n |-> hand[m]]
  OBVIOUS
<1>2. outq \in [Media -> Seq(Stretches)] /\ hand[m] \in Stretches
  BY DEF TypeOK
<1>3. n \in Nat
  BY BlockCounts
<1>4. outq[m] \in Seq(Stretches)
  BY <1>2
<1>5. t \in Seq(Stretches)
  BY <1>1, <1>2, <1>3, <1>4, AddBlocks
<1>6. [outq EXCEPT ![m] = t] \in [Media -> Seq(Stretches)]
  BY <1>2, <1>5
<1>7. [outq EXCEPT ![m] = @ \o [i \in 1 .. n |-> hand[m]]] = [outq EXCEPT ![m] = t]
  BY <1>1
<1>8. QED BY <1>6, <1>7

(* The queues after a seek emptied and marked one of them.                 *)
LEMMA MarkedQueues ==
  ASSUME TypeOK, NEW m \in Media, EmptyAndMark(m)
  PROVE  /\ queue' \in [Media -> Seq(Stretches)] /\ event' \in [Media -> BOOLEAN]
         /\ queue'[m] = IF m \in streams THEN <<Flush_pkt>> ELSE queue[m]
         /\ \A n \in Media \ {m} : queue'[n] = queue[n]
<1>1. <<Flush_pkt>> \in Seq(Stretches)
  BY Bounds
<1>2. QED BY <1>1 DEF TypeOK, EmptyAndMark

(* The queues after a packet was put into one of them.                     *)
LEMMA PutQueues ==
  ASSUME TypeOK, NEW m \in Media, Put(m, stretch)
  PROVE  /\ queue' \in [Media -> Seq(Stretches)] /\ event' \in [Media -> BOOLEAN]
         /\ queue'[m] = Append(queue[m], stretch)
         /\ \A n \in Media \ {m} : queue'[n] = queue[n]
<1>1. Append(queue[m], stretch) \in Seq(Stretches)
  BY AddLast DEF TypeOK
<1>2. QED BY <1>1 DEF TypeOK, Put
-----------------------------------------------------------------------------

(* Every variable keeps to its values.                                    *)
LEMMA KeepsTypes == PlayerInv /\ Next => TypeOK'
<1> SUFFICES ASSUME PlayerInv, Next PROVE TypeOK'
  OBVIOUS
<1> USE Bounds DEF PlayerInv, TypeOK, ReaderLabels, Media
<1>1. CASE OpenAndStart
  <2>1. stretch \in Stretches /\ stretch < MaxStretch
    <3>1. PICK k \in {0, 1} : stretch + k < MaxStretch
      BY <1>1 DEF OpenAndStart
    <3>2. stretch \in Stretches
      OBVIOUS
    <3>3. QED BY <3>1, <3>2
  <2>2. stretch + 1 \in Stretches
    BY <2>1
  <2>3. QED BY <1>1, <2>2 DEF OpenAndStart, decoded
<1>2. CASE Seek
  BY <1>2 DEF Seek, source, pqueues, decoded, threads
<1>3. CASE Stop
  BY <1>3 DEF Stop, source, decoded
<1>4. CASE StopRunning
  BY <1>4 DEF StopRunning, source, pqueues, decoded
<1>5. CASE JoinReader
  BY <1>5 DEF JoinReader, source, pqueues, decoded
<1>6. CASE FlushAndClose
  BY <1>6 DEF FlushAndClose, pqueues
<1>7. CASE Renew
  BY <1>7 DEF Renew, source
<1>8. CASE CreateDecoders
  BY <1>8 DEF CreateDecoders, source, pqueues, decoded
<1>9. CASE Loop
  <2>1. seek_req /\ pcR # "seekVideo" => stretch + 1 \in Stretches
    <3>1. stretch \in Stretches
      OBVIOUS
    <3>2. QED BY <3>1 DEF StretchesInOrder
  <2>2. /\ queue' \in [Media -> Seq(Stretches)] \/ UNCHANGED queue
        /\ event' \in [Media -> BOOLEAN] \/ UNCHANGED event
    BY <1>9, MarkedQueues DEF Loop
  <2>3. stretch' \in Stretches /\ packets' \in 0 .. MaxPackets
    BY <1>9, <2>1 DEF Loop, SeekWanted
  <2>4. seek_req' \in BOOLEAN /\ pcR' \in ReaderLabels
    BY <1>9 DEF Loop
  <2>5. QED BY <1>9, <2>2, <2>3, <2>4 DEF Loop, decoded
<1>10. CASE SeekVideo
  <2>1. queue' \in [Media -> Seq(Stretches)] /\ event' \in [Media -> BOOLEAN]
    BY <1>10, MarkedQueues DEF SeekVideo
  <2>2. QED BY <1>10, <2>1 DEF SeekVideo, source, decoded
<1>11. CASE ReadFrame
  <2>1. queue' \in [Media -> Seq(Stretches)] /\ event' \in [Media -> BOOLEAN]
    BY <1>11, PutQueues DEF ReadFrame
  <2>2. QED BY <1>11, <2>1 DEF ReadFrame, decoded
<1>12. CASE Abort
  BY <1>12 DEF Abort, source, decoded
<1>13. CASE Join("video", "joinVideo", "joinAudio")
  BY <1>13 DEF Join, source, pqueues, decoded
<1>14. CASE Join("audio", "joinAudio", "off")
  BY <1>14 DEF Join, source, pqueues, decoded
<1>15. ASSUME NEW m \in Media, DecoderLoop(m) PROVE TypeOK'
  BY <1>15 DEF DecoderLoop, HasRoom, source, pqueues, decoded
<1>16. ASSUME NEW m \in Media, Get(m) PROVE TypeOK'
  <2>1. CASE ~abort[m] /\ queue[m] # <<>>
    <3>1. Head(queue[m]) \in Stretches /\ Tail(queue[m]) \in Seq(Stretches)
      BY <2>1, TakeFirst
    <3>2. queue' = [queue EXCEPT ![m] = Tail(@)] /\ hand' = [hand EXCEPT ![m] = Head(queue[m])]
      BY <1>16, <2>1 DEF Get
    <3>3. codec' = codec \/ codec' = [codec EXCEPT ![m] = Flush_pkt]
      BY <1>16, <2>1 DEF Get
    <3>4. \E l \in {"loop", "get", "decode"} : pcD' = [pcD EXCEPT ![m] = l]
      BY <1>16, <2>1 DEF Get
    <3>5. QED BY <1>16, <3>1, <3>2, <3>3, <3>4 DEF Get, source
  <2>2. CASE ~(~abort[m] /\ queue[m] # <<>>)
    BY <1>16, <2>2 DEF Get, source
  <2>3. QED BY <2>1, <2>2
<1>17. ASSUME NEW m \in Media, Wait(m) PROVE TypeOK'
  BY <1>17 DEF Wait, source, decoded
<1>18. ASSUME NEW m \in Media, Decode(m) PROVE TypeOK'
  <2>2. outq' \in [Media -> Seq(Stretches)]
    <3>1. CASE UNCHANGED outq
      BY <3>1
    <3>2. CASE ~UNCHANGED outq
      <4>1. PICK n \in Blocks(m) :
              outq' = [outq EXCEPT ![m] = @ \o [i \in 1 .. n |-> hand[m]]]
        BY <1>18, <3>2 DEF Decode
      <4>2. TypeOK
        OBVIOUS
      <4> HIDE DEF TypeOK
      <4>3. QED BY <4>1, <4>2, DecodedQueues
    <3>3. QED BY <3>1, <3>2
  <2>3. hand' = hand \/ hand' = [hand EXCEPT ![m] = Flush_pkt]
    BY <1>18 DEF Decode
  <2>4. codec' = [codec EXCEPT ![m] = hand[m]] /\ rest' \in BOOLEAN
    BY <1>18 DEF Decode
  <2>5. pcD' \in [Media -> {"off", "loop", "get", "wait", "decode"}]
    BY <1>18 DEF Decode
  <2>6. QED BY <1>18, <2>2, <2>3, <2>4, <2>5 DEF Decode, source, pqueues
<1>19. ASSUME NEW m \in Media, Play(m) PROVE TypeOK'
  <2>1. Tail(outq[m]) \in Seq(Stretches)
    BY <1>19, TakeFirst DEF Play
  <2>2. QED BY <1>19, <2>1 DEF Play, source, pqueues, threads
<1>20. QED BY <1>1, <1>2, <1>3, <1>4, <1>5, <1>6, <1>7, <1>8, <1>9, <1>10,
              <1>11, <1>12, <1>13, <1>14, <1>15, <1>16, <1>17, <1>18, <1>19
           DEF Next, Application, InCall, Reader, Decoder

(* Threads have a file.                                                   *)
LEMMA KeepsThreads == PlayerInv /\ Next => ThreadsHaveFile'
<1> SUFFICES ASSUME PlayerInv, Next PROVE ThreadsHaveFile'
  OBVIOUS
<1> USE Bounds DEF PlayerInv, ThreadsHaveFile, TypeOK, Media
<1>1. CASE OpenAndStart
  <2>1. pcR = "off" /\ \A m \in Media : pcD[m] = "off"
    BY <1>1 DEF OpenAndStart
  <2>2. streams' # {} /\ run' /\ pcM' = "idle" /\ pcR' = "create" /\ pcD' = pcD
    BY <1>1 DEF OpenAndStart
  <2>3. QED BY <2>1, <2>2
<1>2. CASE Seek
  BY <1>2 DEF Seek, source, pqueues, decoded, threads
<1>3. CASE Stop
  BY <1>3 DEF Stop, source, decoded
<1>4. CASE StopRunning
  BY <1>4 DEF StopRunning, source, pqueues, decoded
<1>5. CASE JoinReader
  BY <1>5 DEF JoinReader, source, pqueues, decoded
<1>6. CASE FlushAndClose
  BY <1>6 DEF FlushAndClose, pqueues
<1>7. CASE Renew
  BY <1>7 DEF Renew, source
<1>8. CASE CreateDecoders
  BY <1>8 DEF CreateDecoders, source, pqueues, decoded
<1>9. CASE Loop
  BY <1>9 DEF Loop, EmptyAndMark, SeekWanted, decoded
<1>10. CASE SeekVideo
  BY <1>10 DEF SeekVideo, EmptyAndMark, source, decoded
<1>11. CASE ReadFrame
  BY <1>11 DEF ReadFrame, Put, decoded
<1>12. CASE Abort
  BY <1>12 DEF Abort, source, decoded
<1>13. CASE Join("video", "joinVideo", "joinAudio")
  BY <1>13 DEF Join, source, pqueues, decoded
<1>14. CASE Join("audio", "joinAudio", "off")
  BY <1>14 DEF Join, source, pqueues, decoded
<1>15. ASSUME NEW m \in Media, DecoderLoop(m) PROVE ThreadsHaveFile'
  BY <1>15 DEF DecoderLoop, HasRoom, source, pqueues, decoded
<1>16. ASSUME NEW m \in Media, Get(m) PROVE ThreadsHaveFile'
  BY <1>16 DEF Get, source
<1>17. ASSUME NEW m \in Media, Wait(m) PROVE ThreadsHaveFile'
  BY <1>17 DEF Wait, source, decoded
<1>18. ASSUME NEW m \in Media, Decode(m) PROVE ThreadsHaveFile'
  BY <1>18 DEF Decode, source, pqueues
<1>19. ASSUME NEW m \in Media, Play(m) PROVE ThreadsHaveFile'
  BY <1>19 DEF Play, source, pqueues, threads
<1>20. QED BY <1>1, <1>2, <1>3, <1>4, <1>5, <1>6, <1>7, <1>8, <1>9, <1>10,
              <1>11, <1>12, <1>13, <1>14, <1>15, <1>16, <1>17, <1>18, <1>19
           DEF Next, Application, InCall, Reader, Decoder

(* Stretches follow each other.                                           *)
LEMMA KeepsStretches == PlayerInv /\ Next => StretchesInOrder'
<1> SUFFICES ASSUME PlayerInv, Next PROVE StretchesInOrder'
  OBVIOUS
<1> USE Bounds DEF PlayerInv, StretchesInOrder, HandsAreCurrent, ThreadsHaveFile, TypeOK, Media, Flush_pkt, Stretches
<1>1. CASE OpenAndStart
  <2>1. pcR = "off" /\ leftover' = hand["audio"] /\ opened' = stretch + 1 /\ stretch' = stretch + 1
    BY <1>1 DEF OpenAndStart
  <2>2. stretch \in Nat /\ opened \in Nat /\ leftover \in Nat
    OBVIOUS
  <2>3. hand["audio"] \in Nat /\ (hand["audio"] = Flush_pkt \/ hand["audio"] < stretch + 1)
    BY <2>2
  <2>4. seek_req => stretch + 1 < MaxStretch
    BY <1>1 DEF OpenAndStart
  <2>5. seek_req' = seek_req /\ pcR' = "create"
    BY <1>1 DEF OpenAndStart
  <2>6. QED BY <2>1, <2>2, <2>3, <2>4, <2>5
<1>2. CASE Seek
  BY <1>2 DEF Seek, source, pqueues, decoded, threads
<1>3. CASE Stop
  BY <1>3 DEF Stop, source, decoded
<1>4. CASE StopRunning
  BY <1>4 DEF StopRunning, source, pqueues, decoded
<1>5. CASE JoinReader
  BY <1>5 DEF JoinReader, source, pqueues, decoded
<1>6. CASE FlushAndClose
  BY <1>6 DEF FlushAndClose, pqueues
<1>7. CASE Renew
  BY <1>7 DEF Renew, source
<1>8. CASE CreateDecoders
  BY <1>8 DEF CreateDecoders, source, pqueues, decoded
<1>9. CASE Loop
  BY <1>9 DEF Loop, EmptyAndMark, SeekWanted, decoded
<1>10. CASE SeekVideo
  BY <1>10 DEF SeekVideo, EmptyAndMark, source, decoded
<1>11. CASE ReadFrame
  BY <1>11 DEF ReadFrame, Put, decoded
<1>12. CASE Abort
  BY <1>12 DEF Abort, source, decoded
<1>13. CASE Join("video", "joinVideo", "joinAudio")
  BY <1>13 DEF Join, source, pqueues, decoded
<1>14. CASE Join("audio", "joinAudio", "off")
  BY <1>14 DEF Join, source, pqueues, decoded
<1>15. ASSUME NEW m \in Media, DecoderLoop(m) PROVE StretchesInOrder'
  BY <1>15 DEF DecoderLoop, HasRoom, source, pqueues, decoded
<1>16. ASSUME NEW m \in Media, Get(m) PROVE StretchesInOrder'
  BY <1>16 DEF Get, source
<1>17. ASSUME NEW m \in Media, Wait(m) PROVE StretchesInOrder'
  BY <1>17 DEF Wait, source, decoded
<1>18. ASSUME NEW m \in Media, Decode(m) PROVE StretchesInOrder'
  BY <1>18 DEF Decode, source, pqueues
<1>19. ASSUME NEW m \in Media, Play(m) PROVE StretchesInOrder'
  BY <1>19 DEF Play, source, pqueues, threads
<1>20. QED BY <1>1, <1>2, <1>3, <1>4, <1>5, <1>6, <1>7, <1>8, <1>9, <1>10,
              <1>11, <1>12, <1>13, <1>14, <1>15, <1>16, <1>17, <1>18, <1>19
           DEF Next, Application, InCall, Reader, Decoder

(* Queues hold what is read.                                              *)
LEMMA KeepsQueues == PlayerInv /\ Next => QueuesAreCurrent'
<1> SUFFICES ASSUME PlayerInv, Next PROVE QueuesAreCurrent'
  OBVIOUS
<1> USE Bounds DEF PlayerInv, QueuesAreCurrent, StretchesInOrder, ThreadsHaveFile, Current, TypeOK, Media, Flush_pkt
<1>1. CASE OpenAndStart
  BY <1>1 DEF OpenAndStart, decoded
<1>2. CASE Seek
  BY <1>2 DEF Seek, source, pqueues, decoded, threads
<1>3. CASE Stop
  BY <1>3 DEF Stop, source, decoded
<1>4. CASE StopRunning
  BY <1>4 DEF StopRunning, source, pqueues, decoded
<1>5. CASE JoinReader
  BY <1>5 DEF JoinReader, source, pqueues, decoded
<1>6. CASE FlushAndClose
  BY <1>6 DEF FlushAndClose, pqueues
<1>7. CASE Renew
  BY <1>7 DEF Renew, source
<1>8. CASE CreateDecoders
  BY <1>8 DEF CreateDecoders, source, pqueues, decoded
<1>9. CASE Loop
  <2>1. pcR = "loop" /\ streams' = streams /\ stretch \in Nat
    BY <1>9 DEF Loop
  <2>2. CASE UNCHANGED <<stretch, queue>> /\ pcR' \in {"abort", "read"}
    BY <2>1, <2>2
  <2>3. CASE stretch' = stretch + 1 /\ pcR' = "seekVideo" /\ EmptyAndMark("audio")
    <3>1. /\ queue'["audio"] = IF "audio" \in streams THEN <<Flush_pkt>> ELSE queue["audio"]
          /\ queue'["video"] = queue["video"]
      BY <2>3, MarkedQueues
    <3>2. Current("video")' = stretch
      BY <2>1, <2>3
    <3>3. QED BY <2>1, <2>3, <3>1, <3>2
  <2>4. QED BY <1>9, <2>2, <2>3 DEF Loop
<1>10. CASE SeekVideo
  BY <1>10 DEF SeekVideo, EmptyAndMark, source, decoded
<1>11. CASE ReadFrame
  <2>1. CASE UNCHANGED queue
    BY <1>11, <2>1 DEF ReadFrame
  <2>2. ASSUME NEW m \in streams, Put(m, stretch), pcR' = "loop" PROVE QueuesAreCurrent'
    <3>1. m \in Media /\ streams' = streams /\ stretch' = stretch /\ pcR = "read"
      BY <1>11 DEF ReadFrame
    <3>2. queue'[m] = Append(queue[m], stretch) /\ \A n \in Media \ {m} : queue'[n] = queue[n]
      BY <2>2, <3>1, PutQueues
    <3>3. \A n \in Media : Current(n) = stretch /\ Current(n)' = stretch
      BY <2>2, <3>1
    <3>4. \A i \in DOMAIN queue'[m] : queue'[m][i] = stretch \/ (i = 1 /\ queue'[m][i] = Flush_pkt)
      <4>1. \A i \in DOMAIN queue[m] : queue[m][i] = stretch \/ (i = 1 /\ queue[m][i] = Flush_pkt)
        BY <3>1, <3>3
      <4>2. queue[m] \in Seq(Stretches) /\ stretch \in Stretches
        BY <3>1
      <4>3. QED BY <3>2, <4>1, <4>2, AddLast
    <3>5. \A n \in Media \ {m} : \A i \in DOMAIN queue'[n] :
            queue'[n][i] = stretch \/ (i = 1 /\ queue'[n][i] = Flush_pkt)
      BY <3>2, <3>3
    <3>6. \A n \in Media : n \notin streams => queue'[n] = <<>>
      BY <3>1, <3>2
    <3>7. QED BY <2>2, <3>1, <3>3, <3>4, <3>5, <3>6
  <2>3. QED BY <1>11, <2>1, <2>2 DEF ReadFrame
<1>12. CASE Abort
  BY <1>12 DEF Abort, source, decoded
<1>13. CASE Join("video", "joinVideo", "joinAudio")
  BY <1>13 DEF Join, source, pqueues, decoded
<1>14. CASE Join("audio", "joinAudio", "off")
  BY <1>14 DEF Join, source, pqueues, decoded
<1>15. ASSUME NEW m \in Media, DecoderLoop(m) PROVE QueuesAreCurrent'
  BY <1>15 DEF DecoderLoop, HasRoom, source, pqueues, decoded
<1>16. ASSUME NEW m \in Media, Get(m) PROVE QueuesAreCurrent'
  <2>1. CASE UNCHANGED queue
    BY <1>16, <2>1 DEF Get, source
  <2>2. CASE queue[m] # <<>> /\ queue' = [queue EXCEPT ![m] = Tail(@)]
    <3>1. streams' = streams /\ stretch' = stretch /\ pcR' = pcR
      BY <1>16 DEF Get, source
    <3>2. queue'[m] = Tail(queue[m]) /\ \A n \in Media \ {m} : queue'[n] = queue[n]
      BY <2>2
    <3>3. \A i \in DOMAIN queue'[m] : queue'[m][i] = Current(m)
      <4> SUFFICES ASSUME NEW i \in DOMAIN queue'[m] PROVE queue'[m][i] = Current(m)
        OBVIOUS
      <4>1. i \in Nat \ {0} /\ i + 1 \in DOMAIN queue[m] /\ queue'[m][i] = queue[m][i + 1]
        BY <2>2, <3>2, TakeFirst
      <4>2. i + 1 # 1
        BY <4>1
      <4>3. QED BY <4>1, <4>2
    <3>4. \A n \in Media : Current(n)' = Current(n)
      BY <3>1
    <3>5. QED BY <2>2, <3>1, <3>2, <3>3, <3>4
  <2>3. QED BY <1>16, <2>1, <2>2 DEF Get
<1>17. ASSUME NEW m \in Media, Wait(m) PROVE QueuesAreCurrent'
  BY <1>17 DEF Wait, source, decoded
<1>18. ASSUME NEW m \in Media, Decode(m) PROVE QueuesAreCurrent'
  BY <1>18 DEF Decode, source, pqueues
<1>19. ASSUME NEW m \in Media, Play(m) PROVE QueuesAreCurrent'
  BY <1>19 DEF Play, source, pqueues, threads
<1>20. QED BY <1>1, <1>2, <1>3, <1>4, <1>5, <1>6, <1>7, <1>8, <1>9, <1>10,
              <1>11, <1>12, <1>13, <1>14, <1>15, <1>16, <1>17, <1>18, <1>19
           DEF Next, Application, InCall, Reader, Decoder

(* Decoders have in hand what is read.                                    *)
LEMMA KeepsHands == PlayerInv /\ Next => HandsAreCurrent'
<1> SUFFICES ASSUME PlayerInv, Next PROVE HandsAreCurrent'
  OBVIOUS
<1> USE Bounds DEF PlayerInv, HandsAreCurrent, QueuesAreCurrent, StretchesInOrder, ThreadsHaveFile, Current, Marked, Working, TypeOK, Media, Flush_pkt
<1>1. CASE OpenAndStart
  BY <1>1 DEF OpenAndStart, decoded
<1>2. CASE Seek
  BY <1>2 DEF Seek, source, pqueues, decoded, threads
<1>3. CASE Stop
  BY <1>3 DEF Stop, source, decoded
<1>4. CASE StopRunning
  BY <1>4 DEF StopRunning, source, pqueues, decoded
<1>5. CASE JoinReader
  BY <1>5 DEF JoinReader, source, pqueues, decoded
<1>6. CASE FlushAndClose
  BY <1>6 DEF FlushAndClose, pqueues
<1>7. CASE Renew
  BY <1>7 DEF Renew, source
<1>8. CASE CreateDecoders
  BY <1>8 DEF CreateDecoders, source, pqueues, decoded
<1>9. CASE Loop
  <2>1. /\ pcR = "loop" /\ streams # {} /\ stretch \in Nat
        /\ UNCHANGED <<streams, opened, leftover, hand, codec, pcD>>
    BY <1>9 DEF Loop, decoded
  <2>2. CASE UNCHANGED <<stretch, queue>> /\ pcR' \in {"abort", "read"}
    BY <2>1, <2>2
  <2>3. CASE stretch' = stretch + 1 /\ pcR' = "seekVideo" /\ EmptyAndMark("audio")
    <3>1. /\ queue'["audio"] = IF "audio" \in streams THEN <<Flush_pkt>> ELSE queue["audio"]
          /\ queue'["video"] = queue["video"]
      BY <2>3, MarkedQueues
    <3>2. Current("video")' = stretch /\ Current("video") = stretch /\ Marked("video")' = Marked("video")
      BY <2>1, <2>3, <3>1
    <3>3. Marked("audio")' \/ "audio" \notin streams
      BY <3>1
    <3>4. "audio" \notin streams => {hand["audio"], codec["audio"]} \subseteq {Flush_pkt, leftover}
      BY <2>1
    <3>5. \A n \in Media : hand[n] >= opened /\ hand[n] <= stretch => hand[n] >= opened /\ hand[n] <= stretch + 1
      <4> SUFFICES ASSUME NEW n \in Media, hand[n] <= stretch PROVE hand[n] <= stretch + 1
        OBVIOUS
      <4>1. hand[n] \in Nat
        OBVIOUS
      <4>2. QED BY <2>1, <4>1
    <3>6. QED BY <2>1, <2>3, <3>2, <3>3, <3>4, <3>5
  <2>4. QED BY <1>9, <2>2, <2>3 DEF Loop
<1>10. CASE SeekVideo
  <2>1. /\ pcR = "seekVideo" /\ pcR' = "read" /\ streams # {}
        /\ UNCHANGED <<streams, opened, leftover, stretch, hand, codec, pcD>>
    BY <1>10 DEF SeekVideo, source, decoded
  <2>2. /\ queue'["video"] = IF "video" \in streams THEN <<Flush_pkt>> ELSE queue["video"]
        /\ queue'["audio"] = queue["audio"]
    BY <1>10, MarkedQueues DEF SeekVideo
  <2>3. Current("audio")' = stretch /\ Current("audio") = stretch /\ Marked("audio")' = Marked("audio")
    BY <2>1, <2>2
  <2>4. Marked("video")' \/ "video" \notin streams
    BY <2>2
  <2>5. "video" \notin streams => {hand["video"], codec["video"]} \subseteq {Flush_pkt, leftover}
    BY <2>1
  <2>6. QED BY <2>1, <2>3, <2>4, <2>5
<1>11. CASE ReadFrame
  <2>1. /\ pcR = "read" /\ pcR' \in {"loop", "abort"} /\ stretch # Flush_pkt
        /\ UNCHANGED <<streams, opened, leftover, stretch, hand, codec, pcD>>
    <3>1. pcR = "read" /\ pcR' \in {"loop", "abort"}
      BY <1>11 DEF ReadFrame
    <3>2. stretch \in Nat /\ opened \in Nat /\ 0 < opened /\ opened <= stretch
      BY <3>1
    <3>3. stretch # Flush_pkt
      BY <3>2
    <3>4. QED BY <1>11, <3>1, <3>3 DEF ReadFrame, decoded
  <2>2. \A n \in Media : Marked(n)' = Marked(n)
    <3>1. CASE UNCHANGED queue
      BY <3>1
    <3>2. ASSUME NEW m \in streams, Put(m, stretch) PROVE \A n \in Media : Marked(n)' = Marked(n)
      <4>1. m \in Media /\ queue[m] \in Seq(Stretches) /\ stretch \in Stretches
        OBVIOUS
      <4>2. queue'[m] = Append(queue[m], stretch) /\ \A n \in Media \ {m} : queue'[n] = queue[n]
        BY <3>2, <4>1, PutQueues
      <4>3. /\ queue'[m] # <<>>
            /\ Head(queue'[m]) = IF queue[m] = <<>> THEN stretch ELSE Head(queue[m])
        <5>1. Append(queue[m], stretch) # <<>>
          BY <4>1, AddLast
        <5>2. queue[m] # <<>> => Head(Append(queue[m], stretch)) = Head(queue[m])
          BY <4>1, AddLast
        <5>3. queue[m] = <<>> => Head(Append(queue[m], stretch)) = stretch
          BY <4>1, AddLast
        <5>4. QED BY <4>2, <5>1, <5>2, <5>3
      <4>4. Marked(m)' = Marked(m)
        BY <2>1, <4>3
      <4>5. QED BY <4>2, <4>4
    <3>3. QED BY <1>11, <3>1, <3>2 DEF ReadFrame
  <2>3. \A n \in Media : Current(n)' = Current(n)
    BY <2>1
  <2>4. QED BY <2>1, <2>2, <2>3
<1>12. CASE Abort
  BY <1>12 DEF Abort, source, decoded
<1>13. CASE Join("video", "joinVideo", "joinAudio")
  BY <1>13 DEF Join, source, pqueues, decoded
<1>14. CASE Join("audio", "joinAudio", "off")
  BY <1>14 DEF Join, source, pqueues, decoded
<1>15. ASSUME NEW m \in Media, DecoderLoop(m) PROVE HandsAreCurrent'
  BY <1>15 DEF DecoderLoop, HasRoom, source, pqueues, decoded
<1>16. ASSUME NEW m \in Media, Get(m) PROVE HandsAreCurrent'
  <2>1. /\ UNCHANGED <<streams, opened, leftover, stretch, pcR>> /\ pcD[m] = "get"
        /\ \A n \in Media \ {m} : pcD'[n] = pcD[n]
    BY <1>16 DEF Get, source
  <2>2. CASE UNCHANGED <<queue, hand, codec>> /\ pcD'[m] # "decode"
    BY <2>1, <2>2
  <2>3. CASE ~abort[m] /\ queue[m] # <<>>
    <3>1. /\ queue'[m] = Tail(queue[m]) /\ hand'[m] = Head(queue[m])
          /\ \A n \in Media \ {m} : queue'[n] = queue[n] /\ hand'[n] = hand[n] /\ codec'[n] = codec[n]
      BY <1>16, <2>3 DEF Get
    <3>2. m \in streams /\ pcR \in {"loop", "seekVideo", "read", "abort"} /\ Current(m) # Flush_pkt
          /\ Current(m) >= opened /\ Current(m) <= stretch
      <4>1. m \in streams /\ pcR \in {"loop", "seekVideo", "read", "abort"}
        BY <2>3 DEF ReaderLabels
      <4>2. opened \in Nat /\ stretch \in Nat /\ 0 < opened /\ opened <= stretch
            /\ (pcR = "seekVideo" => opened < stretch)
        BY <4>1
      <4>3. QED BY <4>1, <4>2
    <3>3. ~Marked(m)'
      <4>1. \A i \in DOMAIN queue'[m] : queue'[m][i] # Flush_pkt
        <5> SUFFICES ASSUME NEW i \in DOMAIN queue'[m] PROVE queue'[m][i] # Flush_pkt
          OBVIOUS
        <5>1. queue[m] \in Seq(Stretches)
          OBVIOUS
        <5>2. i \in Nat \ {0} /\ i + 1 \in DOMAIN queue[m] /\ queue'[m][i] = queue[m][i + 1]
          BY <2>3, <3>1, <5>1, TakeFirst
        <5>3. i + 1 # 1
          BY <5>2
        <5>4. QED BY <3>2, <5>2, <5>3
      <4>2. queue'[m] \in Seq(Stretches)
        <5>1. queue[m] \in Seq(Stretches)
          OBVIOUS
        <5>2. QED BY <2>3, <3>1, <5>1, TakeFirst
      <4>3. queue'[m] # <<>> => Head(queue'[m]) # Flush_pkt
        BY <4>1, <4>2, TakeFirst
      <4>4. QED BY <4>3
    <3>4. \A n \in Media : Current(n)' = Current(n)
      BY <2>1
    <3>5. \A n \in Media \ {m} : Marked(n)' = Marked(n)
      BY <3>1
    <3>6. CASE Head(queue[m]) = Flush_pkt
      <4>1. codec'[m] = Flush_pkt /\ hand'[m] = Flush_pkt /\ pcD'[m] # "decode"
        BY <1>16, <2>3, <3>6 DEF Get
      <4>2. QED BY <2>1, <3>1, <3>2, <3>3, <3>4, <3>5, <4>1
    <3>7. CASE Head(queue[m]) # Flush_pkt
      <4>1. codec'[m] = codec[m] /\ pcD'[m] = "decode"
        BY <1>16, <2>3, <3>7 DEF Get
      <4>2. hand'[m] = Current(m)
        <5>1. 1 \in DOMAIN queue[m] /\ Head(queue[m]) = queue[m][1]
          BY <2>3, TakeFirst
        <5>2. QED BY <3>1, <3>7, <5>1
      <4>3. codec[m] \in {Flush_pkt, leftover, Current(m)}
        BY <3>2, <3>7
      <4>4. hand'["video"] # Flush_pkt => hand'["video"] >= opened' /\ pcD'["video"] = "decode"
        BY <2>1, <3>1, <3>2, <4>1, <4>2
      <4>5. ASSUME NEW n \in Media, n # m
            PROVE  (/\ hand[n] \in {Flush_pkt, leftover} \/ (hand[n] >= opened /\ hand[n] <= stretch)
                    /\ n \notin streams => codec[n] = Flush_pkt
                    /\ streams # {} /\ n \notin streams => hand[n] \in {Flush_pkt, leftover}
                    /\ ~Marked(n) /\ pcR \in Working =>
                         {hand[n], codec[n]} \subseteq {Flush_pkt, leftover, Current(n)}
                    /\ hand[n] # Flush_pkt => codec[n] \in {Flush_pkt, leftover, hand[n]}
                    /\ pcD[n] = "decode" => hand[n] # Flush_pkt)'
        BY <2>1, <3>1, <3>4, <3>5, <4>5
      <4>6. /\ hand'[m] >= opened' /\ hand'[m] <= stretch'
            /\ m \in streams'
            /\ {hand'[m], codec'[m]} \subseteq {Flush_pkt, leftover', Current(m)'}
            /\ codec'[m] \in {Flush_pkt, leftover', hand'[m]}
            /\ hand'[m] # Flush_pkt
        BY <2>1, <3>2, <3>4, <4>1, <4>2, <4>3
      <4>7. QED BY <4>4, <4>5, <4>6
    <3>8. QED BY <3>6, <3>7
  <2>4. QED BY <1>16, <2>2, <2>3 DEF Get
<1>17. ASSUME NEW m \in Media, Wait(m) PROVE HandsAreCurrent'
  BY <1>17 DEF Wait, source, decoded
<1>18. ASSUME NEW m \in Media, Decode(m) PROVE HandsAreCurrent'
  BY <1>18 DEF Decode, source, pqueues
<1>19. ASSUME NEW m \in Media, Play(m) PROVE HandsAreCurrent'
  BY <1>19 DEF Play, source, pqueues, threads
<1>20. QED BY <1>1, <1>2, <1>3, <1>4, <1>5, <1>6, <1>7, <1>8, <1>9, <1>10,
              <1>11, <1>12, <1>13, <1>14, <1>15, <1>16, <1>17, <1>18, <1>19
           DEF Next, Application, InCall, Reader, Decoder

(* Output queues keep to their limit.                                     *)
LEMMA KeepsOutputs == PlayerInv /\ Next => OutputsAreCurrent'
<1> SUFFICES ASSUME PlayerInv, Next PROVE OutputsAreCurrent'
  OBVIOUS
<1> USE BlockCounts DEF PlayerInv, OutputsAreCurrent, ThreadsHaveFile, TypeOK, Media
<1>1. CASE OpenAndStart
  <2>1. \A m \in Media : outq[m] = <<>> /\ pcD[m] = "off"
    BY <1>1 DEF OpenAndStart
  <2>2. outq' = outq /\ pcD' = pcD /\ streams' # {}
    BY <1>1 DEF OpenAndStart, decoded
  <2>3. QED BY <2>1, <2>2
<1>2. CASE Seek
  BY <1>2 DEF Seek, source, pqueues, decoded, threads
<1>3. CASE Stop
  BY <1>3 DEF Stop, source, decoded
<1>4. CASE StopRunning
  BY <1>4 DEF StopRunning, source, pqueues, decoded
<1>5. CASE JoinReader
  BY <1>5 DEF JoinReader, source, pqueues, decoded
<1>6. CASE FlushAndClose
  BY <1>6 DEF FlushAndClose, pqueues
<1>7. CASE Renew
  BY <1>7 DEF Renew, source
<1>8. CASE CreateDecoders
  BY <1>8 DEF CreateDecoders, source, pqueues, decoded
<1>9. CASE Loop
  BY <1>9 DEF Loop, EmptyAndMark, SeekWanted, decoded
<1>10. CASE SeekVideo
  BY <1>10 DEF SeekVideo, EmptyAndMark, source, decoded
<1>11. CASE ReadFrame
  BY <1>11 DEF ReadFrame, Put, decoded
<1>12. CASE Abort
  BY <1>12 DEF Abort, source, decoded
<1>13. CASE Join("video", "joinVideo", "joinAudio")
  BY <1>13 DEF Join, source, pqueues, decoded
<1>14. CASE Join("audio", "joinAudio", "off")
  BY <1>14 DEF Join, source, pqueues, decoded
<1>15. ASSUME NEW m \in Media, DecoderLoop(m) PROVE OutputsAreCurrent'
  <2>1. outq' = outq /\ streams' = streams /\ is_rtmp' = is_rtmp
    BY <1>15 DEF DecoderLoop, source, decoded
  <2>2. pcD'[m] \in {"get", "wait", "decode"} /\ ~is_rtmp => Len(outq[m]) < Limit(m)
    BY <1>15 DEF DecoderLoop, HasRoom
  <2>3. \A n \in Media \ {m} : pcD'[n] = pcD[n]
    BY <1>15 DEF DecoderLoop
  <2>4. QED BY <2>1, <2>2, <2>3
<1>16. ASSUME NEW m \in Media, Get(m) PROVE OutputsAreCurrent'
  <2>1. outq' = outq /\ streams' = streams /\ is_rtmp' = is_rtmp
    BY <1>16 DEF Get, source
  <2>2. pcD[m] = "get" /\ \A n \in Media \ {m} : pcD'[n] = pcD[n]
    BY <1>16 DEF Get
  <2>3. QED BY <2>1, <2>2
<1>17. ASSUME NEW m \in Media, Wait(m) PROVE OutputsAreCurrent'
  BY <1>17 DEF Wait, source, decoded
<1>18. ASSUME NEW m \in Media, Decode(m) PROVE OutputsAreCurrent'
  <2>1. streams' = streams /\ is_rtmp' = is_rtmp /\ pcD[m] = "decode" /\ m \in streams
    BY <1>18 DEF Decode, source
  <2>2. \A n \in Media \ {m} : outq'[n] = outq[n] /\ pcD'[n] = pcD[n]
    BY <1>18 DEF Decode
  <2>3. ~is_rtmp => Len(outq[m]) < Limit(m)
    BY <2>1
  <2>4. \/ outq'[m] = outq[m]
        \/ pcD'[m] = "loop" /\ \E n \in Blocks(m) : outq'[m] = outq[m] \o [i \in 1 .. n |-> hand[m]]
    BY <1>18 DEF Decode
  <2>5. \/ outq'[m] = outq[m]
        \/ pcD'[m] = "loop" /\ \E n \in Blocks(m) : Len(outq'[m]) = Len(outq[m]) + n
    <3>1. CASE outq'[m] = outq[m]
      BY <3>1
    <3>2. CASE outq'[m] # outq[m]
      <4>1. PICK n \in Blocks(m) :
              pcD'[m] = "loop" /\ outq'[m] = outq[m] \o [i \in 1 .. n |-> hand[m]]
        BY <2>4, <3>2
      <4>2. n \in Nat /\ outq[m] \in Seq(Stretches) /\ hand[m] \in Stretches
        BY <4>1
      <4>3. Len(outq'[m]) = Len(outq[m]) + n
        BY <4>1, <4>2, AddBlocks
      <4>4. QED BY <4>1, <4>3
    <3>3. QED BY <3>1, <3>2
  <2>6. Len(outq[m]) \in Nat
    OBVIOUS
  <2>7. ~is_rtmp => /\ Len(outq'[m]) < Limit(m) + MostBlocks(m)
                    /\ pcD'[m] \in {"get", "wait", "decode"} => Len(outq'[m]) < Limit(m)
    <3>1. CASE outq'[m] = outq[m]
      <4>1. Limit(m) \in Nat /\ MostBlocks(m) \in Nat /\ MostBlocks(m) # 0
        OBVIOUS
      <4>2. QED BY <2>3, <2>6, <3>1, <4>1
    <3>2. CASE outq'[m] # outq[m]
      <4>1. PICK n \in Blocks(m) : pcD'[m] = "loop" /\ Len(outq'[m]) = Len(outq[m]) + n
        BY <2>5, <3>2
      <4>2. n \in Nat /\ n <= MostBlocks(m) /\ Limit(m) \in Nat /\ MostBlocks(m) \in Nat
        OBVIOUS
      <4>3. QED BY <2>3, <2>6, <4>1, <4>2
    <3>3. QED BY <3>1, <3>2
  <2>8. SUFFICES ASSUME NEW n \in Media
                 PROVE  /\ streams' = {} => outq'[n] = <<>>
                        /\ ~is_rtmp' => /\ Len(outq'[n]) < Limit(n) + MostBlocks(n)
                                        /\ pcD'[n] \in {"get", "wait", "decode"} => Len(outq'[n]) < Limit(n)
    OBVIOUS
  <2>9. CASE n = m
    BY <2>1, <2>7, <2>9
  <2>10. CASE n # m
    BY <2>1, <2>2, <2>10
  <2>11. QED BY <2>9, <2>10
<1>19. ASSUME NEW m \in Media, Play(m) PROVE OutputsAreCurrent'
  <2>1. streams' = streams /\ is_rtmp' = is_rtmp /\ pcD' = pcD /\ outq[m] # <<>>
    BY <1>19 DEF Play, source, threads
  <2>2. outq'[m] = Tail(outq[m]) /\ \A n \in Media \ {m} : outq'[n] = outq[n]
    BY <1>19 DEF Play
  <2>3. Len(outq'[m]) = Len(outq[m]) - 1 /\ Len(outq[m]) \in Nat
    BY <2>1, <2>2, TakeFirst
  <2>4. SUFFICES ASSUME NEW n \in Media
                 PROVE  /\ streams' = {} => outq'[n] = <<>>
                        /\ ~is_rtmp' => /\ Len(outq'[n]) < Limit(n) + MostBlocks(n)
                                        /\ pcD'[n] \in {"get", "wait", "decode"} => Len(outq'[n]) < Limit(n)
    OBVIOUS
  <2>5. CASE n = m
    <3>1. streams' # {} /\ Limit(m) \in Nat /\ MostBlocks(m) \in Nat
      BY <2>1
    <3>2. ~is_rtmp' => /\ Len(outq[m]) < Limit(m) + MostBlocks(m)
                       /\ pcD'[m] \in {"get", "wait", "decode"} => Len(outq[m]) < Limit(m)
      BY <2>1
    <3>3. /\ Len(outq[m]) < Limit(m) + MostBlocks(m) => Len(outq'[m]) < Limit(m) + MostBlocks(m)
          /\ Len(outq[m]) < Limit(m) => Len(outq'[m]) < Limit(m)
      BY <2>3, <3>1
    <3>4. QED BY <2>5, <3>1, <3>2, <3>3
  <2>6. CASE n # m
    BY <2>1, <2>2, <2>6
  <2>7. QED BY <2>5, <2>6
<1>20. QED BY <1>1, <1>2, <1>3, <1>4, <1>5, <1>6, <1>7, <1>8, <1>9, <1>10,
              <1>11, <1>12, <1>13, <1>14, <1>15, <1>16, <1>17, <1>18, <1>19
           DEF Next, Application, InCall, Reader, Decoder

(* Nobody misses a wake-up: a decoder begins to wait only after it has     *)
(* found its queue empty and not aborted, and each change of either that   *)
(* comes later sets the event.                                             *)
LEMMA KeepsWakeUps == PlayerInv /\ Next => WakeUpsAreKept'
<1> SUFFICES ASSUME PlayerInv, Next PROVE WakeUpsAreKept'
  OBVIOUS
<1> USE DEF PlayerInv, ThreadsHaveFile, WakeUpsAreKept, TypeOK, Media
<1>1. CASE OpenAndStart
  <2>1. pcR = "off" /\ \A m \in Media : pcD[m] = "off"
    BY <1>1 DEF OpenAndStart
  <2>2. pcM' = "idle" /\ pcR' = "create" /\ pcD' = pcD
    BY <1>1 DEF OpenAndStart, decoded
  <2>3. QED BY <2>1, <2>2
<1>2. CASE Seek
  BY <1>2 DEF Seek, source, pqueues, decoded, threads
<1>3. CASE Stop
  BY <1>3 DEF Stop, source, decoded
<1>4. CASE StopRunning
  BY <1>4 DEF StopRunning, source, pqueues, decoded
<1>5. CASE JoinReader
  BY <1>5 DEF JoinReader, source, pqueues, decoded
<1>6. CASE FlushAndClose
  BY <1>6 DEF FlushAndClose, pqueues
<1>7. CASE Renew
  <2>1. pcR = "off" /\ \A m \in Media : pcD[m] = "off"
    BY <1>7 DEF Renew
  <2>2. pcM' = "idle" /\ pcR' = "off" /\ pcD' = pcD
    BY <1>7, <2>1 DEF Renew
  <2>3. QED BY <2>1, <2>2
<1>8. CASE CreateDecoders
  <2>1. \A m \in Media : pcD'[m] # "wait"
    BY <1>8 DEF CreateDecoders
  <2>2. /\ pcM' = pcM /\ pcR' = "loop" /\ UNCHANGED <<abort, streams>>
        /\ \A m \in streams : pcD'[m] # "off"
    BY <1>8 DEF CreateDecoders, pqueues, source
  <2>3. QED BY <2>1, <2>2
<1>9. CASE Loop
  BY <1>9, MarkedQueues DEF Loop, EmptyAndMark, decoded
<1>10. CASE SeekVideo
  BY <1>10, MarkedQueues DEF SeekVideo, EmptyAndMark, source, decoded
<1>11. CASE ReadFrame
  <2>1. pcR' \in {"loop", "abort"} /\ pcR = "read" /\ UNCHANGED <<streams, pcM, pcD, abort>>
    BY <1>11 DEF ReadFrame
  <2>2. \A m \in Media : (queue'[m] = queue[m] /\ event'[m] = event[m]) \/ event'[m]
    BY <1>11 DEF ReadFrame, Put
  <2>3. QED BY <2>1, <2>2
<1>12. CASE Abort
  BY <1>12 DEF Abort, source, decoded
<1>13. CASE Join("video", "joinVideo", "joinAudio")
  BY <1>13 DEF Join, source, pqueues, decoded
<1>14. CASE Join("audio", "joinAudio", "off")
  BY <1>14 DEF Join, source, pqueues, decoded
<1>15. ASSUME NEW m \in Media, DecoderLoop(m) PROVE WakeUpsAreKept'
  BY <1>15 DEF DecoderLoop, source, pqueues, decoded
<1>16. ASSUME NEW m \in Media, Get(m) PROVE WakeUpsAreKept'
  <2>1. UNCHANGED <<pcM, pcR, streams, abort, event>> /\ pcD[m] = "get"
    BY <1>16 DEF Get, source
  <2>2. \A n \in Media \ {m} : pcD'[n] = pcD[n] /\ queue'[n] = queue[n]
    BY <1>16 DEF Get
  <2>3. /\ pcD'[m] = "wait" => ~abort[m] /\ queue'[m] = <<>>
        /\ pcD'[m] = "off" => abort[m]
    BY <1>16 DEF Get
  <2>4. QED BY <2>1, <2>2, <2>3
<1>17. ASSUME NEW m \in Media, Wait(m) PROVE WakeUpsAreKept'
  BY <1>17 DEF Wait, source, decoded
<1>18. ASSUME NEW m \in Media, Decode(m) PROVE WakeUpsAreKept'
  BY <1>18 DEF Decode, source, pqueues
<1>19. ASSUME NEW m \in Media, Play(m) PROVE WakeUpsAreKept'
  BY <1>19 DEF Play, source, pqueues, threads
<1>20. QED BY <1>1, <1>2, <1>3, <1>4, <1>5, <1>6, <1>7, <1>8, <1>9, <1>10,
              <1>11, <1>12, <1>13, <1>14, <1>15, <1>16, <1>17, <1>18, <1>19
           DEF Next, Application, InCall, Reader, Decoder

-----------------------------------------------------------------------------
(* Reader, decoders and queues stay consistent, for any limits of the      *)
(* queues: threads work only on an open file, and packets are of the       *)
(* present stretch or on the far side of a mark.                           *)
THEOREM PlayerInvariant == Spec => []PlayerInv
<1>1. Init => PlayerInv
  <2> SUFFICES ASSUME Init PROVE PlayerInv
    OBVIOUS
  <2>1. TypeOK
    <3>1. 0 \in Stretches /\ 0 \in 0 .. MaxPackets /\ <<>> \in Seq(Stretches)
      BY Bounds DEF Flush_pkt
    <3>2. QED BY <3>1 DEF Init, TypeOK, ReaderLabels, Flush_pkt
  <2>2. ThreadsHaveFile
    BY DEF Init, ThreadsHaveFile
  <2>3. StretchesInOrder
    BY DEF Init, StretchesInOrder
  <2>4. QueuesAreCurrent
    BY DEF Init, QueuesAreCurrent
  <2>5. HandsAreCurrent
    BY DEF Init, HandsAreCurrent, Working, Media
  <2>6. OutputsAreCurrent
    <3>1. \A m \in Media : Limit(m) \in Nat \ {0} /\ MostBlocks(m) \in Nat \ {0}
      BY BlockCounts
    <3>2. ASSUME NEW x \in Nat \ {0}, NEW y \in Nat \ {0} PROVE Len(<<>>) < x + y /\ Len(<<>>) < x
      OBVIOUS
    <3>3. \A m \in Media : outq[m] = <<>>
      BY DEF Init
    <3>4. QED BY <3>1, <3>2, <3>3 DEF OutputsAreCurrent
  <2>7. WakeUpsAreKept
    BY DEF Init, WakeUpsAreKept
  <2>8. QED BY <2>1, <2>2, <2>3, <2>4, <2>5, <2>6, <2>7 DEF PlayerInv
<1>2. PlayerInv /\ UNCHANGED vars => PlayerInv'
  BY DEF PlayerInv, TypeOK, ThreadsHaveFile, StretchesInOrder, QueuesAreCurrent, HandsAreCurrent,
         OutputsAreCurrent, WakeUpsAreKept, Current, Marked, vars, source, pqueues, decoded, threads
<1>3. PlayerInv /\ [Next]_vars => PlayerInv'
  BY <1>2, KeepsTypes, KeepsThreads, KeepsStretches, KeepsQueues, KeepsHands, KeepsOutputs,
     KeepsWakeUps DEF PlayerInv
<1>4. QED BY <1>1, <1>3, PTL DEF Spec

(* No codec is given packets from both sides of a seek unless it was       *)
(* flushed between them.                                                   *)
THEOREM CodecsAreAlwaysFlushed == Spec => []CodecsAreFlushed
<1>1. PlayerInv => CodecsAreFlushed
  BY DEF PlayerInv, HandsAreCurrent, CodecsAreFlushed
<1>2. QED BY <1>1, PlayerInvariant, PTL

-----------------------------------------------------------------------------
(* What the output queues hold is of this file, or the rest of the audio   *)
(* packet in hand when it was opened.                                      *)
OutputsOfThisFile ==
  \A m \in Media : \A i \in DOMAIN outq[m] :
    outq[m][i] >= opened \/ (m = "audio" /\ outq[m][i] = leftover)

(* It stays so: a decoder adds what it has in hand.                        *)
LEMMA KeepsOutputsOfThisFile == PlayerInv /\ OutputsOfThisFile /\ Next => OutputsOfThisFile'
<1> SUFFICES ASSUME PlayerInv, OutputsOfThisFile, Next PROVE OutputsOfThisFile'
  OBVIOUS
<1>1. CASE UNCHANGED <<outq, opened, leftover>>
  BY <1>1 DEF OutputsOfThisFile
<1>2. CASE \A m \in Media : outq'[m] = <<>>
  BY <1>2 DEF OutputsOfThisFile
<1>3. ASSUME NEW m \in Media, Decode(m) PROVE OutputsOfThisFile'
  <2>1. UNCHANGED <<opened, leftover>> /\ pcD[m] = "decode"
    BY <1>3 DEF Decode, source
  <2>2. hand[m] >= opened \/ (m = "audio" /\ hand[m] = leftover)
    BY <2>1 DEF PlayerInv, HandsAreCurrent, Media
  <2>3. outq[m] \in Seq(Stretches) /\ hand[m] \in Stretches
    BY DEF PlayerInv, TypeOK
  <2>4. CASE outq' = outq
    BY <2>1, <2>4 DEF OutputsOfThisFile
  <2>5. CASE outq' # outq
    <3>1. PICK n \in Blocks(m) : outq' = [outq EXCEPT ![m] = @ \o [i \in 1 .. n |-> hand[m]]]
      BY <1>3, <2>5 DEF Decode
    <3>2. outq'[m] = outq[m] \o [i \in 1 .. n |-> hand[m]] /\ \A k \in Media \ {m} : outq'[k] = outq[k]
      BY <3>1 DEF PlayerInv, TypeOK
    <3>3. n \in Nat
      BY BlockCounts
    <3>4. \A i \in DOMAIN outq'[m] : (i \in DOMAIN outq[m] /\ outq'[m][i] = outq[m][i]) \/ outq'[m][i] = hand[m]
      BY <2>3, <3>2, <3>3, AddBlocks
    <3>5. \A i \in DOMAIN outq'[m] : outq'[m][i] >= opened \/ (m = "audio" /\ outq'[m][i] = leftover)
      BY <2>2, <3>4 DEF OutputsOfThisFile
    <3>6. QED BY <2>1, <3>2, <3>5 DEF OutputsOfThisFile
  <2>6. QED BY <2>4, <2>5
<1>4. ASSUME NEW m \in Media, Play(m) PROVE OutputsOfThisFile'
  <2>1. UNCHANGED <<opened, leftover>> /\ outq[m] # <<>> /\ outq' = [outq EXCEPT ![m] = Tail(@)]
    BY <1>4 DEF Play, source
  <2>2. outq[m] \in Seq(Stretches)
    BY DEF PlayerInv, TypeOK
  <2>3. \A i \in DOMAIN Tail(outq[m]) : i + 1 \in DOMAIN outq[m] /\ Tail(outq[m])[i] = outq[m][i + 1]
    BY <2>1, <2>2, TakeFirst
  <2>4. QED BY <2>1, <2>3 DEF OutputsOfThisFile, PlayerInv, TypeOK
<1>5. CASE OpenAndStart
  BY <1>2, <1>5 DEF OpenAndStart, decoded, PlayerInv, ThreadsHaveFile, OutputsAreCurrent
<1>6. CASE FlushAndClose
  BY <1>2, <1>6 DEF FlushAndClose
<1>7. CASE Seek \/ Stop \/ StopRunning \/ JoinReader \/ Renew
  BY <1>1, <1>7 DEF Seek, Stop, StopRunning, JoinReader, Renew, source, decoded
<1>8. CASE Reader
  BY <1>1, <1>8 DEF Reader, CreateDecoders, Loop, SeekVideo, ReadFrame, Abort, Join, source, decoded
<1>9. ASSUME NEW m \in Media, DecoderLoop(m) \/ Get(m) \/ Wait(m) PROVE OutputsOfThisFile'
  BY <1>1, <1>9 DEF DecoderLoop, Get, Wait, source, decoded
<1>10. QED BY <1>3, <1>4, <1>5, <1>6, <1>7, <1>8, <1>9 DEF Next, Application, InCall, Decoder

(* Nothing of a former file is queued or shown, but the rest of one audio  *)
(* packet.                                                                 *)
THEOREM OnlyThisFileIsPlayed == Spec => []OnlyThisFile
<1>1. Init => OutputsOfThisFile
  BY DEF Init, OutputsOfThisFile
<1>2. OutputsOfThisFile /\ UNCHANGED vars => OutputsOfThisFile'
  BY DEF OutputsOfThisFile, vars, source, decoded
<1>3. PlayerInv /\ OutputsOfThisFile => OnlyThisFile
  <2> SUFFICES ASSUME PlayerInv, OutputsOfThisFile, NEW m \in Media
               PROVE  /\ \A p \in Range(queue[m]) : p = Flush_pkt \/ p >= opened
                      /\ \A p \in Range(outq[m]) : p >= opened \/ (m = "audio" /\ p = leftover)
    BY DEF OnlyThisFile
  <2>1. \A p \in Range(outq[m]) : p >= opened \/ (m = "audio" /\ p = leftover)
    BY DEF OutputsOfThisFile, Range
  <2>2. \A i \in DOMAIN queue[m] : queue[m][i] = Flush_pkt \/ queue[m][i] = Current(m)
    BY DEF PlayerInv, QueuesAreCurrent
  <2>3. Current(m) >= opened
    <3>1. opened \in Nat /\ stretch \in Nat
      BY Bounds DEF PlayerInv, TypeOK
    <3>2. opened <= stretch /\ (pcR = "seekVideo" => opened < stretch)
      BY DEF PlayerInv, StretchesInOrder
    <3>3. QED BY <3>1, <3>2 DEF Current
  <2>4. QED BY <2>1, <2>2, <2>3 DEF Range
<1>4. QED BY <1>1, <1>2, <1>3, PlayerInvariant, KeepsOutputsOfThisFile, PTL DEF Spec

-----------------------------------------------------------------------------
(* The size of a queue is a number.                                        *)
LEMMA SizeOfQueue ==
  ASSUME TypeOK, NEW m \in Media
  PROVE  Size(m) \in Nat /\ (queue[m] = <<>> => Size(m) = 0)
<1>1. queue[m] \in Seq(Stretches) /\ Len(queue[m]) \in Nat
  BY DEF TypeOK
<1>2. queue[m] # <<>> => Len(queue[m]) > 0
  BY <1>1
<1>3. QED BY <1>1, <1>2 DEF Size

(* Taking a packet makes it no larger, ...                                 *)
LEMMA SizeAfterTake ==
  ASSUME PlayerInv, NEW m \in Media, queue[m] # <<>>, queue'[m] = Tail(queue[m])
  PROVE  Size(m)' <= Size(m)
<1>1. queue[m] \in Seq(Stretches)
  BY DEF PlayerInv, TypeOK
<1>2. Len(queue[m]) \in Nat \ {0} /\ Len(queue'[m]) = Len(queue[m]) - 1
  BY <1>1, TakeFirst
<1>3. Size(m)' <= Len(queue'[m])
  BY <1>2 DEF Size
<1>4. Size(m) >= Len(queue[m]) - 1
  BY <1>2 DEF Size
<1>5. Size(m)' \in Int /\ Size(m) \in Int
  BY <1>2 DEF Size
<1>6. QED BY <1>2, <1>3, <1>4, <1>5

(* ... putting one adds one at most, ...                                   *)
LEMMA SizeAfterPut ==
  ASSUME PlayerInv, NEW m \in Media, queue'[m] = Append(queue[m], stretch)
  PROVE  Size(m)' <= Size(m) + 1
<1>1. queue[m] \in Seq(Stretches) /\ stretch \in Stretches
  BY DEF PlayerInv, TypeOK
<1>2. Len(queue[m]) \in Nat /\ Len(queue'[m]) = Len(queue[m]) + 1 /\ queue'[m] # <<>>
  BY <1>1, AddLast
<1>3. queue[m] # <<>> => Head(queue'[m]) = Head(queue[m])
  BY <1>1, AddLast
<1>4. CASE queue[m] = <<>>
  <2>1. Len(queue[m]) = 0
    BY <1>4
  <2>2. Size(m) = 0 /\ Size(m)' \in {0, 1}
    BY <1>2, <1>4, <2>1 DEF Size
  <2>3. QED BY <2>2
<1>5. CASE queue[m] # <<>>
  <2>1. Marked(m)' = Marked(m)
    BY <1>2, <1>3, <1>5 DEF Marked
  <2>2. QED BY <1>2, <1>3, <1>5 DEF Size
<1>6. QED BY <1>4, <1>5

(* ... and a mark counts for nothing.                                      *)
LEMMA SizeAfterMark ==
  ASSUME PlayerInv, NEW m \in Media, EmptyAndMark(m)
  PROVE  Size(m)' <= Size(m) /\ \A n \in Media \ {m} : Size(n)' = Size(n)
<1>1. TypeOK /\ Size(m) \in Nat
  BY SizeOfQueue DEF PlayerInv
<1>2. /\ queue'[m] = IF m \in streams THEN <<Flush_pkt>> ELSE queue[m]
      /\ \A n \in Media \ {m} : queue'[n] = queue[n]
  BY <1>1, MarkedQueues
<1>3. queue'[m] = <<Flush_pkt>> => Size(m)' = 0
  BY DEF Size
<1>4. QED BY <1>1, <1>2, <1>3 DEF Size

(* Both packet queues together; the reader puts only when they are not     *)
(* full.                                                                   *)
PacketsAreBounded == Size("audio") + Size("video") <= MAX_QUEUE_SIZE + 1

(* It stays so.                                                            *)
LEMMA KeepsPacketsBounded == PlayerInv /\ PacketsAreBounded /\ Next => PacketsAreBounded'
<1> SUFFICES ASSUME PlayerInv, PacketsAreBounded, Next PROVE PacketsAreBounded'
  OBVIOUS
<1> USE Bounds
<1>1. "audio" \in Media /\ "video" \in Media /\ \A m \in Media : m \in {"audio", "video"}
  BY DEF Media
<1>2. /\ Size("audio") \in Nat /\ Size("video") \in Nat
      /\ Size("audio")' \in Nat /\ Size("video")' \in Nat
  <2>1. TypeOK /\ TypeOK'
    BY KeepsTypes DEF PlayerInv
  <2>2. \A m \in Media : Size(m) \in Nat
    BY <2>1, SizeOfQueue
  <2>3. \A m \in Media : Size(m)' \in Nat
    <3> SUFFICES ASSUME NEW m \in Media PROVE Size(m)' \in Nat
      OBVIOUS
    <3>1. queue'[m] \in Seq(Stretches) /\ Len(queue'[m]) \in Nat
      BY <2>1 DEF TypeOK
    <3>2. queue'[m] # <<>> => Len(queue'[m]) > 0
      BY <3>1
    <3>3. QED BY <3>1, <3>2 DEF Size
  <2>4. QED BY <1>1, <2>2, <2>3
<1>3. ASSUME Size("audio")' <= Size("audio"), Size("video")' <= Size("video")
      PROVE  PacketsAreBounded'
  BY <1>2, <1>3 DEF PacketsAreBounded
<1>4. CASE UNCHANGED queue
  <2>1. Size("audio")' = Size("audio") /\ Size("video")' = Size("video")
    BY <1>4 DEF Size
  <2>2. QED BY <1>2, <1>3, <2>1
<1>5. ASSUME NEW m \in Media, EmptyAndMark(m) PROVE PacketsAreBounded'
  <2>1. \A n \in Media : Size(n)' <= Size(n)
    BY <1>1, <1>2, <1>5, SizeAfterMark
  <2>2. QED BY <1>1, <1>3, <2>1
<1>6. CASE ReadFrame
  <2>1. ASSUME NEW m \in Media, Put(m, stretch), ~Full PROVE PacketsAreBounded'
    <3>1. queue'[m] = Append(queue[m], stretch) /\ \A n \in Media \ {m} : queue'[n] = queue[n]
      BY <2>1, PutQueues DEF PlayerInv
    <3>2. Size(m)' <= Size(m) + 1 /\ \A n \in Media \ {m} : Size(n)' = Size(n)
      BY <3>1, SizeAfterPut DEF Size
    <3>3. Size("audio") + Size("video") <= MAX_QUEUE_SIZE
      BY <1>2, <2>1 DEF Full
    <3>4. QED BY <1>1, <1>2, <3>2, <3>3 DEF PacketsAreBounded
  <2>2. QED BY <1>4, <1>6, <2>1 DEF ReadFrame, PlayerInv, TypeOK
<1>7. CASE Abort
  <2>1. \A m \in Media : queue'[m] = <<>>
    BY <1>7 DEF Abort
  <2>2. \A m \in Media : Size(m)' = 0
    <3> SUFFICES ASSUME NEW m \in Media PROVE Size(m)' = 0
      OBVIOUS
    <3>1. queue'[m] = <<>> /\ Len(queue'[m]) = 0
      BY <2>1
    <3>2. QED BY <3>1 DEF Size
  <2>3. QED BY <1>1, <1>2, <1>3, <2>2
<1>8. ASSUME NEW m \in Media, Get(m) PROVE PacketsAreBounded'
  <2>1. ASSUME queue[m] # <<>>, queue' = [queue EXCEPT ![m] = Tail(@)] PROVE PacketsAreBounded'
    <3>1. queue'[m] = Tail(queue[m]) /\ \A n \in Media \ {m} : queue'[n] = queue[n]
      BY <2>1 DEF PlayerInv, TypeOK
    <3>2. Size(m)' <= Size(m) /\ \A n \in Media \ {m} : Size(n)' = Size(n)
      BY <2>1, <3>1, SizeAfterTake DEF Size
    <3>3. QED BY <1>1, <1>2, <1>3, <3>2
  <2>2. QED BY <1>4, <1>8, <2>1 DEF Get
<1>9. CASE Loop \/ SeekVideo
  BY <1>1, <1>4, <1>5, <1>9 DEF Loop, SeekVideo
<1>10. CASE Application \/ InCall
  BY <1>4, <1>10 DEF Application, InCall, OpenAndStart, Seek, Stop, StopRunning, JoinReader,
                     FlushAndClose, Renew, pqueues
<1>11. CASE CreateDecoders \/ Join("video", "joinVideo", "joinAudio") \/ Join("audio", "joinAudio", "off")
  BY <1>4, <1>11 DEF CreateDecoders, Join, pqueues
<1>12. ASSUME NEW m \in Media, DecoderLoop(m) \/ Wait(m) \/ Decode(m) \/ Play(m) PROVE PacketsAreBounded'
  BY <1>4, <1>12 DEF DecoderLoop, Wait, Decode, Play, pqueues
<1>13. QED BY <1>6, <1>7, <1>8, <1>9, <1>10, <1>11, <1>12 DEF Next, Reader, Decoder

(* Output queues and packet queues keep to their limits, whatever these    *)
(* are.                                                                    *)
THEOREM PlayerQueuesAreBounded == Spec => []QueuesAreBounded
<1>1. Init => PacketsAreBounded
  <2> SUFFICES ASSUME Init PROVE PacketsAreBounded
    OBVIOUS
  <2>1. queue["audio"] = <<>> /\ queue["video"] = <<>> /\ Len(<<>>) = 0
    BY DEF Init, Media
  <2>2. Size("audio") = 0 /\ Size("video") = 0
    BY <2>1 DEF Size
  <2>3. QED BY <2>2, Bounds DEF PacketsAreBounded
<1>2. PacketsAreBounded /\ UNCHANGED vars => PacketsAreBounded'
  BY DEF PacketsAreBounded, Size, vars, pqueues
<1>3. PlayerInv /\ PacketsAreBounded => QueuesAreBounded
  <2> SUFFICES ASSUME PlayerInv, PacketsAreBounded PROVE QueuesAreBounded
    OBVIOUS
  <2>1. ~is_rtmp => \A m \in Media : Len(outq[m]) < Limit(m) + MostBlocks(m)
    BY DEF PlayerInv, OutputsAreCurrent
  <2>2. /\ "audio" \in Media /\ Limit("audio") = MIN_AUDIO_BUFS /\ MostBlocks("audio") = MaxBlocks
        /\ "video" \in Media /\ Limit("video") = MIN_FRAMES /\ MostBlocks("video") = 1
    BY DEF Media, Limit, MostBlocks
  <2>3. Len(outq["video"]) \in Nat /\ MIN_FRAMES \in Nat
    BY <2>2, Bounds DEF PlayerInv, TypeOK
  <2>4. ~is_rtmp => Len(outq["video"]) < MIN_FRAMES + 1 /\ Len(outq["audio"]) < MIN_AUDIO_BUFS + MaxBlocks
    BY <2>1, <2>2, Zenon
  <2>5. ~is_rtmp => Len(outq["video"]) <= MIN_FRAMES
    BY <2>3, <2>4
  <2>6. QED BY <2>4, <2>5 DEF PacketsAreBounded, QueuesAreBounded
<1>4. QED BY <1>1, <1>2, <1>3, PlayerInvariant, KeepsPacketsBounded, PTL DEF Spec
-----------------------------------------------------------------------------
(* While the main thread joins the reader, each step of the reader or of a *)
(* decoder brings the end nearer, wherever they were, and nothing else     *)
(* takes it back.  With WakeUpsAreKept, by which a decoder that is joined  *)
(* has its event when it waits, this is why file_stream_stop returns, if   *)
(* what the reader reads from answers.                                     *)
ReaderRank ==
  [off |-> 0, joinAudio |-> 1, joinVideo |-> 2, abort |-> 3, loop |-> 4, read |-> 5,
   seekVideo |-> 6, create |-> 7]

DecoderRank == [off |-> 0, loop |-> 1, get |-> 2, wait |-> 3, decode |-> 3]

StepsLeft == 4 * ReaderRank[pcR] + DecoderRank[pcD["audio"]] + DecoderRank[pcD["video"]]

StopEnds ==
  [][pcM = "join" /\ pcM' = "join" =>
       /\ StepsLeft' <= StepsLeft
       /\ Reader \/ (\E m \in Media : Decoder(m)) => StepsLeft' < StepsLeft]_vars

DecoderLabels == {"off", "loop", "get", "wait", "decode"}

(* The ranks are small natural numbers.                                    *)
LEMMA RankTypes ==
  /\ \A r \in ReaderLabels : ReaderRank[r] \in 0 .. 7
  /\ \A d \in DecoderLabels : DecoderRank[d] \in 0 .. 3
<1>1. \A r \in ReaderLabels : ReaderRank[r] \in 0 .. 7
  BY DEF ReaderLabels, ReaderRank
<1>2. \A d \in DecoderLabels : DecoderRank[d] \in 0 .. 3
  BY DEF DecoderLabels, DecoderRank
<1>3. QED BY <1>1, <1>2

(* A decoder whose queue is aborted when the playing has ended comes       *)
(* nearer to its end in every step.                                        *)
LEMMA DecoderNearsEnd ==
  ASSUME TypeOK, NEW m \in Media, ~run, abort[m], Decoder(m)
  PROVE  /\ DecoderRank[pcD'[m]] < DecoderRank[pcD[m]]
         /\ \A n \in Media \ {m} : pcD'[n] = pcD[n]
         /\ pcR' = pcR
<1> USE DEF TypeOK, DecoderRank
<1>1. CASE DecoderLoop(m)
  BY <1>1 DEF DecoderLoop
<1>2. CASE Get(m)
  BY <1>2 DEF Get
<1>3. CASE Wait(m)
  BY <1>3 DEF Wait
<1>4. CASE Decode(m)
  BY <1>4 DEF Decode
<1>5. QED BY <1>1, <1>2, <1>3, <1>4 DEF Decoder

(* So does the reader, which lets no decoder run again once it has begun   *)
(* to end.                                                                 *)
LEMMA ReaderNearsEnd ==
  ASSUME TypeOK, ~run, Reader
  PROVE  /\ ReaderRank[pcR'] < ReaderRank[pcR]
         /\ pcD' = pcD \/ (pcR = "create" /\ pcR' = "loop")
<1> USE DEF TypeOK, ReaderRank
<1>1. CASE CreateDecoders
  BY <1>1 DEF CreateDecoders
<1>2. CASE Loop
  BY <1>2 DEF Loop
<1>3. CASE SeekVideo
  BY <1>3 DEF SeekVideo
<1>4. CASE ReadFrame
  BY <1>4 DEF ReadFrame
<1>5. CASE Abort
  BY <1>5 DEF Abort
<1>6. CASE Join("video", "joinVideo", "joinAudio")
  BY <1>6 DEF Join
<1>7. CASE Join("audio", "joinAudio", "off")
  BY <1>7 DEF Join
<1>8. QED BY <1>1, <1>2, <1>3, <1>4, <1>5, <1>6, <1>7 DEF Reader

(* Stopping comes nearer to its end with every step of a thread.           *)
THEOREM EveryStopEnds == Spec => StopEnds
<1>1. ASSUME PlayerInv, PlayerInv', [Next]_vars, pcM = "join", pcM' = "join"
      PROVE  /\ StepsLeft' <= StepsLeft
             /\ Reader \/ (\E m \in Media : Decoder(m)) => StepsLeft' < StepsLeft
  <2>1. ~run /\ \A m \in Media : abort[m]
    BY <1>1 DEF PlayerInv, ThreadsHaveFile, WakeUpsAreKept
  <2>2. TypeOK /\ TypeOK'
    BY <1>1 DEF PlayerInv
  <2>3. /\ ReaderRank[pcR] \in 0 .. 7 /\ ReaderRank[pcR'] \in 0 .. 7
        /\ \A n \in Media : DecoderRank[pcD[n]] \in 0 .. 3 /\ DecoderRank[pcD'[n]] \in 0 .. 3
    <3>1. pcR \in ReaderLabels /\ pcR' \in ReaderLabels
      BY <2>2 DEF TypeOK
    <3>2. \A n \in Media : pcD[n] \in DecoderLabels /\ pcD'[n] \in DecoderLabels
      BY <2>2 DEF TypeOK, DecoderLabels
    <3>3. QED BY <3>1, <3>2, RankTypes
  <2>4. ASSUME NEW m \in Media, Decoder(m) PROVE StepsLeft' < StepsLeft
    <3>1. /\ DecoderRank[pcD'[m]] < DecoderRank[pcD[m]]
          /\ \A n \in Media \ {m} : pcD'[n] = pcD[n]
          /\ pcR' = pcR
      BY <2>1, <2>2, <2>4, DecoderNearsEnd
    <3>2. CASE m = "audio"
      BY <2>3, <3>1, <3>2 DEF StepsLeft, Media
    <3>3. CASE m = "video"
      BY <2>3, <3>1, <3>3 DEF StepsLeft, Media
    <3>4. QED BY <3>2, <3>3 DEF Media
  <2>5. ASSUME Reader PROVE StepsLeft' < StepsLeft
    <3>1. ReaderRank[pcR'] < ReaderRank[pcR]
      BY <2>1, <2>2, <2>5, ReaderNearsEnd
    <3>2. CASE pcD' = pcD
      BY <2>3, <3>1, <3>2 DEF StepsLeft, Media
    <3>3. CASE pcR = "create" /\ pcR' = "loop"
      BY <2>3, <3>3 DEF StepsLeft, ReaderRank, Media
    <3>4. QED BY <2>1, <2>2, <2>5, <3>2, <3>3, ReaderNearsEnd
  <2>6. ASSUME ~Reader, \A m \in Media : ~Decoder(m) PROVE StepsLeft' = StepsLeft
    <3>1. UNCHANGED <<pcR, pcD>>
      BY <1>1, <2>1, <2>6 DEF Next, Application, InCall, OpenAndStart, Seek, Stop, StopRunning, JoinReader,
            FlushAndClose, Renew, Play, threads, vars
    <3>2. QED BY <3>1 DEF StepsLeft
  <2>7. StepsLeft \in Nat /\ StepsLeft' \in Nat
    <3>1. "audio" \in Media /\ "video" \in Media
      BY DEF Media
    <3>2. /\ DecoderRank[pcD["audio"]] \in Nat /\ DecoderRank[pcD["video"]] \in Nat
          /\ DecoderRank[pcD'["audio"]] \in Nat /\ DecoderRank[pcD'["video"]] \in Nat
      BY <2>3, <3>1
    <3>3. QED BY <2>3, <3>2 DEF StepsLeft
  <2>8. QED BY <2>4, <2>5, <2>6, <2>7
<1>2. QED BY <1>1, PlayerInvariant, PTL DEF Spec, StopEnds

-----------------------------------------------------------------------------
(* A seek that was asked for while the reader goes on is served within     *)
(* three steps of the reader, whatever the decoders, the player filters or *)
(* full queues do, none of which the reader waits for.                     *)
SeekRank == [read |-> 2, loop |-> 1, seekVideo |-> 0]

SeekComesNext ==
  [][seek_req /\ Reading /\ seek_req' /\ Reading' =>
       IF Reader THEN SeekRank[pcR'] < SeekRank[pcR] ELSE pcR' = pcR]_vars

(* Nothing puts off a seek (packet_read_run).                              *)
THEOREM EverySeekComesNext == Spec => SeekComesNext
<1>1. ASSUME PlayerInv, [Next]_vars, seek_req, Reading, seek_req', Reading'
      PROVE  IF Reader THEN SeekRank[pcR'] < SeekRank[pcR] ELSE pcR' = pcR
  <2>1. ASSUME Reader PROVE SeekRank[pcR'] < SeekRank[pcR]
    <3>1. CASE Loop
      BY <1>1, <3>1 DEF Loop, SeekWanted, Reading, SeekRank
    <3>2. CASE SeekVideo
      BY <1>1, <3>2 DEF SeekVideo
    <3>3. CASE ReadFrame
      BY <1>1, <3>3 DEF ReadFrame, Reading, SeekRank
    <3>4. QED BY <1>1, <2>1, <3>1, <3>2, <3>3 DEF Reader, CreateDecoders, Abort, Join, Reading
  <2>2. ASSUME ~Reader PROVE pcR' = pcR
    BY <1>1, <2>2 DEF Next, Application, InCall, OpenAndStart, Seek, Stop, StopRunning, JoinReader,
          FlushAndClose, Renew, Play, threads, vars, Decoder, DecoderLoop, Get, Wait, Decode,
          PlayerInv, ThreadsHaveFile, Reading
  <2>3. QED BY <2>1, <2>2
<1>2. QED BY <1>1, PlayerInvariant, PTL DEF Spec, SeekComesNext
-----------------------------------------------------------------------------
(* Nobody waits for somebody who waits: where packets are queued while the *)
(* file plays, their decoder can take a step or its output queue has a     *)
(* frame for the player filter; and a reader that finds the queues full    *)
(* has filled one of them.                                                 *)
NobodyIsStuck ==
  /\ \A m \in Media : queue[m] # <<>> /\ ~abort[m] =>
       \/ pcD[m] \in {"get", "decode"}
       \/ pcD[m] = "wait" /\ event[m]
       \/ pcD[m] = "loop" /\ (HasRoom(m) \/ outq[m] # <<>>)
  /\ Full => \E m \in Media : queue[m] # <<>>

(* No wake-up of the conditions is missed, whatever the limits.            *)
THEOREM PlayerNeverStuck == Spec => []NobodyIsStuck
<1>1. ASSUME PlayerInv PROVE NobodyIsStuck
  <2>1. ASSUME NEW m \in Media, queue[m] # <<>>, ~abort[m]
        PROVE  \/ pcD[m] \in {"get", "decode"}
               \/ pcD[m] = "wait" /\ event[m]
               \/ pcD[m] = "loop" /\ (HasRoom(m) \/ outq[m] # <<>>)
    <3>1. m \in streams /\ pcR \notin {"off", "create"}
      BY <1>1, <2>1 DEF PlayerInv, QueuesAreCurrent
    <3>2. pcD[m] \in {"loop", "get", "wait", "decode"}
      BY <1>1, <2>1, <3>1 DEF PlayerInv, TypeOK, WakeUpsAreKept
    <3>3. pcD[m] = "wait" => event[m]
      BY <1>1, <2>1 DEF PlayerInv, WakeUpsAreKept
    <3>4. HasRoom(m) \/ outq[m] # <<>>
      <4>1. outq[m] = <<>> => Len(outq[m]) = 0
        OBVIOUS
      <4>2. Limit(m) \in Nat \ {0}
        BY BlockCounts
      <4>3. QED BY <4>1, <4>2 DEF HasRoom
    <3>5. QED BY <3>2, <3>3, <3>4
  <2>2. ASSUME Full PROVE \E m \in Media : queue[m] # <<>>
    <3>1. ASSUME \A m \in Media : queue[m] = <<>> PROVE FALSE
      <4>1. Size("audio") = 0 /\ Size("video") = 0
        BY <3>1 DEF Size, Media
      <4>2. QED BY <2>2, <4>1, FilePlayerAssumption DEF Full
    <3>2. QED BY <3>1
  <2>3. QED BY <2>1, <2>2 DEF NobodyIsStuck
<1>2. QED BY <1>1, PlayerInvariant, PTL
=============================================================================
