--------------------------- MODULE RecorderProofs ---------------------------
(***************************************************************************)
(* Proofs about Recorder.tla, for any number of frames.                    *)
(***************************************************************************)
EXTENDS Recorder, SequenceTheorems, TLAPS

(* The main thread's steps keep the types.                                 *)
LEMMA MainTypes ==
  ASSUME TypeOK, StartRecord \/ StopRecord \/ InCall
  PROVE  TypeOK'
<1>0. Empty \in [Media -> Seq(1 .. MaxFrames)]
  BY EmptySeq DEF Empty
<1>1. CASE StartRecord
  BY <1>0, <1>1 DEF StartRecord, TypeOK, media, MainLabels
<1>2. CASE StopRecord
  BY <1>2 DEF StopRecord, TypeOK, flags, media, MainLabels
<1>3. CASE Rejoin
  BY <1>3 DEF Rejoin, JoinAndFree, TypeOK, media, MainLabels
<1>4. CASE OpenFile
  BY <1>0, <1>4 DEF OpenFile, TypeOK, MainLabels
<1>5. CASE StartWriter
  BY <1>5 DEF StartWriter, TypeOK, media, MainLabels, WriterLabels
<1>6. ASSUME NEW m \in Media, NEW l, NEW n \in MainLabels, Connect(m, l, n) \/ Cut(m, l, n)
      PROVE  TypeOK'
  BY <1>6 DEF Connect, Cut, TypeOK, flags, media
<1>7. CASE Starting
  BY <1>7 DEF Starting, TypeOK, media, MainLabels
<1>8. CASE StopWriter
  BY <1>8 DEF StopWriter, TypeOK, media, MainLabels
<1>9. CASE Stopped
  BY <1>9 DEF Stopped, JoinAndFree, TypeOK, media, MainLabels
<1>10. "audio" \in Media /\ "video" \in Media
       /\ {"connectVideo", "starting", "cutVideo", "stop"} \subseteq MainLabels
  BY DEF Media, MainLabels
<1>11. QED BY <1>1, <1>2, <1>3, <1>4, <1>5, <1>6, <1>7, <1>8, <1>9, <1>10 DEF InCall

(* The writer's steps keep the types.                                      *)
LEMMA WriterTypes ==
  ASSUME TypeOK, Writer
  PROVE  TypeOK'
<1>0. "audio" \in Media /\ "video" \in Media
  BY DEF Media
<1>1. CASE Loop
  BY <1>1 DEF Loop, TypeOK, flags, media, WriterLabels
<1>2. CASE Test
  BY <1>2 DEF Test, TypeOK, flags, media, WriterLabels
<1>3. ASSUME NEW m \in Media, NEW l, NEW n \in WriterLabels, Flush(m, l, n)
      PROVE  TypeOK'
  BY <1>3, EmptySeq DEF Flush, TypeOK, flags
<1>4. ASSUME NEW m \in Media, NEW l, NEW n \in WriterLabels, Read(m, l, n)
      PROVE  TypeOK'
  <2>1. CASE inq[m] = <<>>
    BY <1>4, <2>1 DEF Read, TypeOK, flags
  <2>2. CASE inq[m] # <<>>
    <3>1. inq[m] \in Seq(1 .. MaxFrames) /\ buf[m] \in Seq(1 .. MaxFrames)
      BY DEF TypeOK
    <3>2. Head(inq[m]) \in 1 .. MaxFrames /\ Tail(inq[m]) \in Seq(1 .. MaxFrames)
      BY <2>2, <3>1, HeadTailProperties
    <3>3. Append(buf[m], Head(inq[m])) \in Seq(1 .. MaxFrames)
      BY <3>1, <3>2, AppendProperties
    <3>4. QED BY <1>4, <2>2, <3>2, <3>3 DEF Read, TypeOK, flags
  <2>3. QED BY <2>1, <2>2
<1>5. ASSUME TakeFrames
      PROVE  taken' \in [Media -> Seq(1 .. MaxFrames)] /\ buf' \in [Media -> Seq(1 .. MaxFrames)]
  <2>1. ASSUME NEW m \in Media, buf[m] # <<>>
        PROVE  /\ Append(taken[m], Head(buf[m])) \in Seq(1 .. MaxFrames)
               /\ Tail(buf[m]) \in Seq(1 .. MaxFrames)
    BY <2>1, HeadTailProperties, AppendProperties DEF TypeOK
  <2>2. QED BY <1>5, <2>1, EmptySeq DEF TakeFrames, TypeOK
<1>6. CASE WriteFrame
  BY <1>5, <1>6 DEF WriteFrame, TypeOK, flags, WriterLabels
<1>7. CASE Drain
  BY <1>5, <1>7 DEF Drain, TypeOK, flags, WriterLabels
<1>8. {"flushVideo", "loop", "readVideo", "write", "endVideo", "off"} \subseteq WriterLabels
  BY DEF WriterLabels
<1>9. QED BY <1>0, <1>1, <1>2, <1>3, <1>4, <1>6, <1>7, <1>8 DEF Writer

(* Every step keeps the types.                                             *)
LEMMA TypeStep ==
  ASSUME TypeOK, [Next]_vars
  PROVE  TypeOK'
<1>1. ASSUME NEW m \in Media, Mix(m) PROVE TypeOK'
  <2>1. produced[m] \in 0 .. MaxFrames /\ inq[m] \in Seq(1 .. MaxFrames)
    BY DEF TypeOK
  <2>2. produced[m] + 1 \in 1 .. MaxFrames
    BY <1>1, <2>1, RecorderAssumption DEF Mix
  <2>3. Append(inq[m], produced[m] + 1) \in Seq(1 .. MaxFrames)
    BY <2>1, <2>2, AppendProperties
  <2>4. produced' \in [Media -> 0 .. MaxFrames] /\ inq' \in [Media -> Seq(1 .. MaxFrames)]
    <3>1. produced[m] + 1 \in 0 .. MaxFrames
      BY <2>2, RecorderAssumption
    <3>2. produced' \in [Media -> 0 .. MaxFrames]
      BY <1>1, <3>1 DEF Mix, TypeOK
    <3>3. PICK s \in Seq(1 .. MaxFrames) : inq' = [inq EXCEPT ![m] = s]
      BY <1>1, <2>1, <2>3 DEF Mix
    <3>4. QED BY <3>2, <3>3 DEF TypeOK
  <2>5. crashed' \in BOOLEAN
    BY <1>1 DEF Mix
  <2>6. QED BY <1>1, <2>4, <2>5 DEF Mix, TypeOK, flags
<1>2. CASE UNCHANGED vars
  BY <1>2 DEF vars, flags, media, TypeOK
<1>3. QED BY <1>1, <1>2, MainTypes, WriterTypes DEF Next

(* Every step keeps the phases of the file and of the sinks.               *)
LEMMA PhaseStep ==
  ASSUME RecorderInv, [Next]_vars
  PROVE  FilePhase' /\ SinkPhase'
<1> USE DEF RecorderInv, FilePhase, SinkPhase
<1>0. Media = {"audio", "video"} /\ sink \in [Media -> {"inq", "null", "freed"}]
  BY DEF Media, TypeOK
<1>1. CASE StartRecord
  BY <1>0, <1>1 DEF StartRecord
<1>2. CASE StopRecord
  BY <1>0, <1>2 DEF StopRecord, flags
<1>3. CASE Rejoin
  BY <1>0, <1>3 DEF Rejoin, JoinAndFree
<1>4. CASE OpenFile
  <2>1. pcM = "open" /\ os /\ ~file /\ pcW = "off" /\ pcW' = pcW
    BY <1>4 DEF OpenFile
  <2>2. CASE pcM' = "start"
    <3>1. file' = TRUE /\ os' = os /\ sink' = sink
      BY <1>4, <2>2 DEF OpenFile
    <3>2. QED BY <2>1, <2>2, <3>1
  <2>3. CASE pcM' = "idle"
    <3>1. /\ os' = FALSE /\ file' = file
          /\ sink' = [m \in Media |-> IF sink[m] = "inq" THEN "freed" ELSE sink[m]]
      BY <1>4, <2>3 DEF OpenFile
    <3>2. \A m \in Media : sink'[m] # "inq"
      BY <3>1
    <3>3. QED BY <2>1, <2>3, <3>1, <3>2
  <2>4. QED BY <1>4, <2>2, <2>3 DEF OpenFile
<1>5. CASE StartWriter
  BY <1>0, <1>5 DEF StartWriter
<1>6. CASE \/ Connect("audio", "connectAudio", "connectVideo")
           \/ Connect("video", "connectVideo", "starting")
  BY <1>0, <1>6 DEF Connect, flags
<1>7. CASE Starting
  BY <1>0, <1>7 DEF Starting
<1>8. CASE Cut("audio", "cutAudio", "cutVideo") \/ Cut("video", "cutVideo", "stop")
  BY <1>0, <1>8 DEF Cut, flags
<1>9. CASE StopWriter
  BY <1>0, <1>9 DEF StopWriter
<1>10. CASE Stopped
  BY <1>0, <1>10 DEF Stopped, JoinAndFree
<1>11. ASSUME NEW m \in Media, Mix(m) PROVE FilePhase' /\ SinkPhase'
  BY <1>0, <1>11 DEF Mix, flags
<1>12. CASE Writer
  <2>1. UNCHANGED <<flags, sink, pcM>> /\ pcW # "off"
    BY <1>12 DEF Writer, Loop, Test, Flush, Read, WriteFrame, Drain
  <2>2. QED BY <1>0, <2>1 DEF flags
<1>13. CASE UNCHANGED vars
  BY <1>0, <1>13 DEF vars, flags
<1>14. QED BY <1>1, <1>2, <1>3, <1>4, <1>5, <1>6, <1>7, <1>8, <1>9, <1>10, <1>11, <1>12, <1>13
           DEF Next, InCall

-----------------------------------------------------------------------------
(* The inductive invariant holds of every reachable state.                 *)
THEOREM RecorderInvariant == Spec => []RecorderInv
<1>1. Init => RecorderInv
  <2> SUFFICES ASSUME Init PROVE RecorderInv
    OBVIOUS
  <2>1. Empty \in [Media -> Seq(1 .. MaxFrames)]
    BY EmptySeq DEF Empty
  <2>2. TypeOK
    <3>1. produced \in [Media -> 0 .. MaxFrames] /\ sink \in [Media -> {"inq", "null", "freed"}]
      BY RecorderAssumption DEF Init
    <3>2. pcM \in MainLabels /\ pcW \in WriterLabels
      BY DEF Init, MainLabels, WriterLabels
    <3>3. QED BY <2>1, <3>1, <3>2 DEF Init, TypeOK
  <2>3. FilePhase /\ SinkPhase
    BY DEF Init, FilePhase, SinkPhase, Media
  <2>4. QED BY <2>2, <2>3 DEF RecorderInv
<1>2. RecorderInv /\ [Next]_vars => RecorderInv'
  BY TypeStep, PhaseStep DEF RecorderInv
<1>3. QED BY <1>1, <1>2, PTL DEF Spec

(* The writer thread never works on a recorder or a file that is gone.     *)
THEOREM RecorderWriterHasFile == Spec => []WriterHasFile
<1>1. RecorderInv => WriterHasFile
  BY DEF RecorderInv, FilePhase, WriterHasFile
<1>2. QED BY <1>1, RecorderInvariant, PTL

(* A mixer's sink is left on freed queues by a failed restart only.        *)
THEOREM RecorderSinksAreCut == Spec => SinksAreCut
<1>1. RecorderInv /\ [Next]_vars
      => [\A m \in Media : /\ sink'[m] = "inq" => os'
                           /\ sink'[m] = "freed" => sink[m] = "freed" \/ restarted]_vars
  <2> SUFFICES ASSUME RecorderInv, [Next]_vars, NEW m \in Media, vars' # vars
               PROVE  /\ sink'[m] = "inq" => os'
                      /\ sink'[m] = "freed" => sink[m] = "freed" \/ restarted
    OBVIOUS
  <2>1. sink'[m] = "inq" => os'
    BY PhaseStep DEF SinkPhase
  <2>2. CASE OpenFile
    BY <2>1, <2>2 DEF OpenFile, RecorderInv, SinkPhase
  <2>3. CASE ~OpenFile
    <3>1. sink' = sink \/ \E n \in Media, v \in {"inq", "null"} : sink' = [sink EXCEPT ![n] = v]
      BY <2>3 DEF Next, InCall, vars, StartRecord, StopRecord, Rejoin, StartWriter, Connect,
                  Starting, Cut, StopWriter, Stopped, Mix, Writer, Loop, Test, Flush, Read,
                  WriteFrame, Drain, Media
    <3>2. QED BY <2>1, <3>1 DEF RecorderInv, TypeOK
  <2>4. QED BY <2>2, <2>3
<1>2. QED BY <1>1, RecorderInvariant, PTL DEF Spec, SinksAreCut

-----------------------------------------------------------------------------
(* No gaps in a recording.                                                 *)

(* The recorder has not been stopped and started again.                    *)
Fresh == os /\ ~restarted

(* The frames of medium m from the first recorded to the last queued.      *)
Line(m) == (taken[m] \o buf[m]) \o inq[m]

(* The sink of medium m is still to be connected.                          *)
NotYet(m) == pcM \in {"open", "start", "connectAudio"} \/ (m = "video" /\ pcM = "connectVideo")

(* What the writer may do at each place of the main thread's calls, and    *)
(* that nothing is buffered while it flushes.                              *)
RecordPhase ==
  Fresh =>
    /\ pcM \in {"open", "start", "connectAudio", "connectVideo", "starting"} => ~start_recroding
    /\ pcW # "off" => run \/ pcM = "join"
    /\ pcW \in {"drain", "endAudio", "endVideo"} => ~run
    /\ pcW \in {"readAudio", "readVideo", "write"} => start_recroding
    /\ \A m \in Media : NotYet(m) => sink[m] # "inq" /\ inq[m] = <<>>
    /\ ~start_recroding \/ pcW \in {"flushAudio", "flushVideo"}
         => \A m \in Media : taken[m] = <<>> /\ buf[m] = <<>>

EndsAt(s, n) == s # <<>> => s[Len(s)] = n

(* A line has no gap, and that of a connected sink ends with the frame the *)
(* mixer produced last.                                                    *)
LineInv ==
  Fresh => \A m \in Media : Gapless(Line(m)) /\ (sink[m] = "inq" => EndsAt(Line(m), produced[m]))
GapInv == RecordPhase /\ LineInv

(* Joining sequences of numbers is associative.                            *)
LEMMA ConcatAssoc ==
  \A s, t, u \in Seq(Nat) : (s \o t) \o u = s \o (t \o u)
BY ConcatAssociative

(* Appending is joining a sequence of one.                                 *)
LEMMA AppendConcat ==
  ASSUME NEW s \in Seq(Nat), NEW x \in Nat
  PROVE  Append(s, x) = s \o <<x>> /\ <<x>> \in Seq(Nat)
<1>1. Append(s, x) = s \o <<x>>
  BY AppendIsConcat
<1>2. <<x>> \in Seq(Nat)
  OBVIOUS
<1>3. QED BY <1>1, <1>2

(* A frame that moves from the head of a queue to the end of the one       *)
(* before it leaves the line as it is.                                     *)
LEMMA MoveFrame ==
  ASSUME NEW a \in Seq(Nat), NEW b \in Seq(Nat), b # <<>>
  PROVE  Append(a, Head(b)) \o Tail(b) = a \o b
<1>1. /\ Head(b) \in Nat /\ Tail(b) \in Seq(Nat)
      /\ Head(b) = b[1]
  BY HeadTailProperties
<1>2. Append(a, Head(b)) = a \o <<Head(b)>>
  BY <1>1, AppendIsConcat
<1>3. <<Head(b)>> \o Tail(b) = b
  <2>1. Len(b) \in Nat \ {0} /\ 1 \in 1 .. Len(b) /\ Len(b) \in 1 .. Len(b)
    BY EmptySeq, LenProperties
  <2>2. SubSeq(b, 1, Len(b)) = <<b[1]>> \o SubSeq(b, 1 + 1, Len(b))
    BY <2>1, SubSeqRecursiveFirst
  <2>3. Tail(b) = SubSeq(b, 2, Len(b))
    BY TailIsSubSeq
  <2>4. SubSeq(b, 1, Len(b)) = b
    BY SubSeqFull
  <2>5. QED BY <1>1, <2>2, <2>3, <2>4
<1>4. <<Head(b)>> \in Seq(Nat)
  BY <1>1
<1>5. (a \o <<Head(b)>>) \o Tail(b) = a \o (<<Head(b)>> \o Tail(b))
  BY <1>1, <1>4, ConcatAssociative
<1>6. QED BY <1>2, <1>3, <1>5

(* The mixer's next frame continues a line that ends with its last one.    *)
LEMMA GaplessAppend ==
  ASSUME NEW s \in Seq(Nat), NEW n \in Nat, Gapless(s), EndsAt(s, n)
  PROVE  Gapless(Append(s, n + 1)) /\ EndsAt(Append(s, n + 1), n + 1)
<1> DEFINE t == Append(s, n + 1)
<1>1. /\ Len(s) \in Nat /\ Len(t) = Len(s) + 1
      /\ \A i \in 1 .. Len(s) : t[i] = s[i]
      /\ t[Len(s) + 1] = n + 1
  BY LenProperties, AppendProperties
<1> HIDE DEF t
<1>2. ASSUME NEW i \in 1 .. Len(t) - 1 PROVE t[i + 1] = t[i] + 1
  <2>1. CASE i = Len(s)
    <3>1. s # <<>>
      BY <1>2, <2>1, <1>1, EmptySeq
    <3>2. QED BY <2>1, <3>1, <1>1, <1>2 DEF EndsAt
  <2>2. CASE i # Len(s)
    <3>1. i \in 1 .. Len(s) - 1 /\ i \in 1 .. Len(s) /\ i + 1 \in 1 .. Len(s)
      BY <1>1, <1>2, <2>2
    <3>2. QED BY <1>1, <3>1 DEF Gapless
  <2>3. QED BY <2>1, <2>2
<1>3. QED BY <1>1, <1>2 DEF Gapless, EndsAt, t

(* What is left when the end of a line is thrown away has no gap either.   *)
LEMMA GaplessPrefix ==
  ASSUME NEW s \in Seq(Nat), NEW t \in Seq(Nat), Gapless(s \o t)
  PROVE  Gapless(s)
<1>1. /\ Len(s) \in Nat /\ Len(t) \in Nat /\ Len(s \o t) = Len(s) + Len(t)
      /\ \A i \in 1 .. Len(s) + Len(t) :
           (s \o t)[i] = IF i <= Len(s) THEN s[i] ELSE t[i - Len(s)]
  BY LenProperties, ConcatProperties
<1>2. ASSUME NEW i \in 1 .. Len(s) - 1 PROVE s[i + 1] = s[i] + 1
  <2>1. /\ i \in 1 .. Len(s) + Len(t) - 1 /\ i <= Len(s) /\ i + 1 <= Len(s)
        /\ i \in 1 .. Len(s) + Len(t) /\ i + 1 \in 1 .. Len(s) + Len(t)
    BY <1>1
  <2>2. (s \o t)[i] = s[i] /\ (s \o t)[i + 1] = s[i + 1]
    BY <1>1, <2>1
  <2>3. QED BY <1>1, <2>1, <2>2 DEF Gapless
<1>3. QED BY <1>2 DEF Gapless

(* The three parts of a line are sequences of numbers.                     *)
LEMMA LineTypes ==
  ASSUME TypeOK, NEW m \in Media
  PROVE  /\ taken[m] \in Seq(Nat) /\ buf[m] \in Seq(Nat) /\ inq[m] \in Seq(Nat)
         /\ Line(m) \in Seq(Nat) /\ taken[m] \o buf[m] \in Seq(Nat)
         /\ produced[m] \in Nat
<1>1. 1 .. MaxFrames \subseteq Nat
  OBVIOUS
<1>2. taken[m] \in Seq(Nat) /\ buf[m] \in Seq(Nat) /\ inq[m] \in Seq(Nat)
  <2>1. /\ taken[m] \in Seq(1 .. MaxFrames) /\ buf[m] \in Seq(1 .. MaxFrames)
        /\ inq[m] \in Seq(1 .. MaxFrames)
    BY DEF TypeOK
  <2>2. QED BY <1>1, <2>1, SeqMonotonic
<1>3. taken[m] \o buf[m] \in Seq(Nat)
  BY <1>2, ConcatProperties
<1>4. Line(m) \in Seq(Nat)
  BY <1>2, <1>3, ConcatProperties DEF Line
<1>5. QED BY <1>2, <1>3, <1>4 DEF TypeOK

(* An empty line has no gap and ends anywhere.                             *)
LEMMA EmptyLine ==
  ASSUME NEW s, s = (<<>> \o <<>>) \o <<>>, NEW n
  PROVE  Gapless(s) /\ EndsAt(s, n)
<1>1. s = <<>>
  BY ConcatEmptySeq, EmptySeq
<1>2. QED BY <1>1 DEF Gapless, EndsAt

(* Each step of the recorder and of the mixers keeps the phases.           *)
LEMMA RecordPhaseStep ==
  ASSUME RecorderInv, RecordPhase, [Next]_vars
  PROVE  RecordPhase'
<1> USE DEF RecordPhase, Fresh, NotYet, FilePhase, SinkPhase
<1>0. /\ Media = {"audio", "video"} /\ FilePhase /\ SinkPhase
      /\ sink \in [Media -> {"inq", "null", "freed"}]
      /\ DOMAIN inq = Media /\ DOMAIN buf = Media /\ DOMAIN taken = Media
  BY DEF Media, RecorderInv, TypeOK
<1>1. CASE StartRecord
  BY <1>0, <1>1 DEF StartRecord, Empty
<1>2. CASE StopRecord
  BY <1>0, <1>2 DEF StopRecord, flags, media
<1>3. CASE Rejoin
  BY <1>0, <1>3 DEF Rejoin, JoinAndFree, media
<1>4. CASE OpenFile
  BY <1>0, <1>4 DEF OpenFile, Empty
<1>5. CASE StartWriter
  BY <1>0, <1>5 DEF StartWriter, media
<1>6. CASE \/ Connect("audio", "connectAudio", "connectVideo")
           \/ Connect("video", "connectVideo", "starting")
  BY <1>0, <1>6 DEF Connect, flags, media
<1>7. CASE Starting
  BY <1>0, <1>7 DEF Starting, media
<1>8. CASE Cut("audio", "cutAudio", "cutVideo") \/ Cut("video", "cutVideo", "stop")
  BY <1>0, <1>8 DEF Cut, flags, media
<1>9. CASE StopWriter
  BY <1>0, <1>9 DEF StopWriter, media
<1>10. CASE Stopped
  BY <1>0, <1>10 DEF Stopped, JoinAndFree, media
<1>11. ASSUME NEW m \in Media, Mix(m) PROVE RecordPhase'
  BY <1>0, <1>11 DEF Mix, flags
<1>12. CASE Loop
  BY <1>0, <1>12 DEF Loop, flags, media
<1>13. CASE Test
  BY <1>0, <1>13 DEF Test, flags, media
<1>14. CASE \/ Flush("audio", "flushAudio", "flushVideo") \/ Flush("video", "flushVideo", "loop")
            \/ Flush("audio", "endAudio", "endVideo") \/ Flush("video", "endVideo", "off")
  BY <1>0, <1>14 DEF Flush, flags
<1>15. CASE Read("audio", "readAudio", "readVideo") \/ Read("video", "readVideo", "write")
  BY <1>0, <1>15 DEF Read, flags
<1>16. CASE WriteFrame
  BY <1>0, <1>16 DEF WriteFrame, flags
<1>17. CASE Drain
  <2>1. pcW' \in {"off", "drain"} /\ pcW = "drain" /\ UNCHANGED <<flags, sink, inq, pcM>>
    BY <1>17 DEF Drain
  <2>2. ASSUME NEW m \in Media, taken[m] = <<>> /\ buf[m] = <<>>
        PROVE  taken'[m] = <<>> /\ buf'[m] = <<>>
    BY <1>17, <2>2 DEF Drain, TakeFrames
  <2>3. QED BY <1>0, <2>1, <2>2 DEF flags
<1>18. CASE UNCHANGED vars
  BY <1>0, <1>18 DEF vars, flags, media
<1>19. QED
  BY <1>1, <1>2, <1>3, <1>4, <1>5, <1>6, <1>7, <1>8, <1>9, <1>10, <1>11, <1>12, <1>13, <1>14,
     <1>15, <1>16, <1>17, <1>18 DEF Next, InCall, Writer

(* Taking frames for the file moves them from the buffers.                 *)
LEMMA TakeKeepsLines ==
  ASSUME TypeOK, TakeFrames, inq' = inq, NEW m \in Media
  PROVE  Line(m)' = Line(m)
<1>1. taken[m] \in Seq(Nat) /\ buf[m] \in Seq(Nat)
  BY LineTypes
<1>2. CASE buf[m] = <<>>
  BY <1>2 DEF TakeFrames, Line
<1>3. CASE buf[m] # <<>>
  <2>1. taken'[m] = Append(taken[m], Head(buf[m])) /\ buf'[m] = Tail(buf[m])
    BY <1>3 DEF TakeFrames
  <2>2. Append(taken[m], Head(buf[m])) \o Tail(buf[m]) = taken[m] \o buf[m]
    BY <1>1, <1>3, MoveFrame
  <2>3. QED BY <2>1, <2>2 DEF Line
<1>4. QED BY <1>2, <1>3

(* Reading moves them from the queues to the buffers.                      *)
LEMMA ReadKeepsLines ==
  ASSUME TypeOK, NEW n \in Media, NEW l, NEW next, Read(n, l, next), NEW m \in Media
  PROVE  Line(m)' = Line(m)
<1>1. CASE m # n \/ inq[n] = <<>>
  BY <1>1 DEF Read, Line, TypeOK
<1>2. CASE m = n /\ inq[n] # <<>>
  <2>1. taken[m] \in Seq(Nat) /\ buf[m] \in Seq(Nat) /\ inq[m] \in Seq(Nat)
    BY LineTypes
  <2>2. /\ taken'[m] = taken[m] /\ inq'[m] = Tail(inq[m])
        /\ buf'[m] = Append(buf[m], Head(inq[m]))
    BY <1>2 DEF Read, TypeOK
  <2>3. Head(inq[m]) \in Nat /\ Tail(inq[m]) \in Seq(Nat)
    BY <1>2, <2>1, HeadTailProperties
  <2>4. Append(buf[m], Head(inq[m])) \in Seq(Nat)
    BY <2>1, <2>3, AppendProperties
  <2>5. (taken[m] \o Append(buf[m], Head(inq[m]))) \o Tail(inq[m])
          = taken[m] \o (Append(buf[m], Head(inq[m])) \o Tail(inq[m]))
    BY <2>1, <2>3, <2>4, ConcatAssoc, Zenon
  <2>6. Append(buf[m], Head(inq[m])) \o Tail(inq[m]) = buf[m] \o inq[m]
    BY <1>2, <2>1, MoveFrame
  <2>7. (taken[m] \o buf[m]) \o inq[m] = taken[m] \o (buf[m] \o inq[m])
    BY <2>1, ConcatAssoc, Zenon
  <2>8. QED BY <2>2, <2>5, <2>6, <2>7 DEF Line
<1>3. QED BY <1>1, <1>2

(* The mixer puts its next frame at the end of the line.                   *)
LEMMA MixContinuesLine ==
  ASSUME TypeOK, NEW m \in Media, Mix(m), sink[m] = "inq"
  PROVE  Line(m)' = Append(Line(m), produced[m] + 1)
<1>1. /\ taken[m] \o buf[m] \in Seq(Nat) /\ inq[m] \in Seq(Nat) /\ Line(m) \in Seq(Nat)
      /\ produced[m] + 1 \in Nat
  BY LineTypes
<1>2. inq'[m] = Append(inq[m], produced[m] + 1) /\ taken' = taken /\ buf' = buf
  BY DEF Mix, TypeOK
<1>3. /\ Append(inq[m], produced[m] + 1) = inq[m] \o <<produced[m] + 1>>
      /\ Append(Line(m), produced[m] + 1) = Line(m) \o <<produced[m] + 1>>
      /\ <<produced[m] + 1>> \in Seq(Nat)
  BY <1>1, AppendConcat, Zenon
<1>4. Line(m) \o <<produced[m] + 1>> = (taken[m] \o buf[m]) \o (inq[m] \o <<produced[m] + 1>>)
  BY <1>1, <1>3, ConcatAssoc, Zenon DEF Line
<1>5. QED BY <1>2, <1>3, <1>4 DEF Line

(* Every step keeps the lines without gaps.                                *)
LEMMA LineStep ==
  ASSUME RecorderInv, RecordPhase, LineInv, [Next]_vars
  PROVE  LineInv'
<1> SUFFICES ASSUME Fresh', NEW m \in Media
             PROVE  Gapless(Line(m)') /\ (sink'[m] = "inq" => EndsAt(Line(m)', produced'[m]))
  BY DEF LineInv, Gapless, EndsAt, Media
<1>0. TypeOK /\ FilePhase /\ SinkPhase
  BY DEF RecorderInv
<1>1. ASSUME Fresh, Line(m)' = Line(m), UNCHANGED produced, sink'[m] = "inq" => sink[m] = "inq"
      PROVE  Gapless(Line(m)') /\ (sink'[m] = "inq" => EndsAt(Line(m)', produced'[m]))
  BY <1>1 DEF LineInv
<1>2. ASSUME Line(m)' = (<<>> \o <<>>) \o <<>>
      PROVE  Gapless(Line(m)') /\ (sink'[m] = "inq" => EndsAt(Line(m)', produced'[m]))
  BY <1>2, EmptyLine
<1>3. CASE StartRecord
  BY <1>2, <1>3 DEF StartRecord, Fresh, Empty, Line
<1>4. CASE OpenFile
  <2>1. Fresh /\ UNCHANGED <<sink, inq, buf, produced>> /\ taken' = Empty
    BY <1>4 DEF OpenFile, Fresh
  <2>2. taken'[m] = taken[m]
    BY <1>4, <2>1 DEF OpenFile, RecordPhase, Empty
  <2>3. QED BY <1>1, <2>1, <2>2 DEF Line
<1>5. ASSUME UNCHANGED <<media, produced, os, restarted>>, sink'[m] = "inq" => sink[m] = "inq"
      PROVE  Gapless(Line(m)') /\ (sink'[m] = "inq" => EndsAt(Line(m)', produced'[m]))
  BY <1>1, <1>5 DEF Fresh, Line, media
<1>6. CASE Cut("audio", "cutAudio", "cutVideo") \/ Cut("video", "cutVideo", "stop")
  BY <1>0, <1>5, <1>6 DEF Cut, flags, TypeOK
<1>7. CASE StopRecord \/ StartWriter \/ Starting \/ StopWriter \/ Loop \/ Test \/ UNCHANGED vars
  BY <1>5, <1>7 DEF StopRecord, StartWriter, Starting, StopWriter, Loop, Test, vars, flags
<1>8. CASE Rejoin \/ Stopped
  BY <1>0, <1>8 DEF Rejoin, Stopped, JoinAndFree, SinkPhase, Fresh
<1>9. CASE \/ Connect("audio", "connectAudio", "connectVideo")
           \/ Connect("video", "connectVideo", "starting")
  <2>1. CASE NotYet(m)
    <3>1. UNCHANGED <<flags, media>> /\ pcM \in {"connectAudio", "connectVideo"}
      BY <1>9 DEF Connect
    <3>2. Fresh
      BY <3>1 DEF Fresh, flags
    <3>3. ~start_recroding /\ inq[m] = <<>> /\ taken[m] = <<>> /\ buf[m] = <<>>
      BY <2>1, <3>1, <3>2 DEF RecordPhase
    <3>4. QED BY <1>2, <3>1, <3>3 DEF Line, media
  <2>2. CASE ~NotYet(m)
    BY <1>0, <1>5, <1>9, <2>2 DEF Connect, flags, NotYet, TypeOK, Media
  <2>3. QED BY <2>1, <2>2
<1>10. ASSUME NEW n \in Media, Mix(n)
       PROVE  Gapless(Line(m)') /\ (sink'[m] = "inq" => EndsAt(Line(m)', produced'[m]))
  <2>0. Fresh /\ UNCHANGED <<sink, taken, buf>>
    BY <1>10 DEF Mix, flags, Fresh
  <2>1. CASE n = m /\ sink[m] = "inq"
    <3>1. Line(m)' = Append(Line(m), produced[m] + 1)
      BY <1>0, <1>10, <2>1, MixContinuesLine
    <3>2. Line(m) \in Seq(Nat) /\ produced[m] \in Nat
      BY <1>0, LineTypes
    <3>3. Gapless(Line(m)) /\ EndsAt(Line(m), produced[m])
      BY <2>0, <2>1 DEF LineInv
    <3>4. produced'[m] = produced[m] + 1
      BY <1>0, <1>10, <2>1 DEF Mix, TypeOK
    <3>5. QED BY <3>1, <3>2, <3>3, <3>4, GaplessAppend
  <2>2. CASE n # m
    <3>1. inq'[m] = inq[m] /\ produced'[m] = produced[m]
      BY <1>0, <1>10, <2>2 DEF Mix, TypeOK
    <3>2. QED BY <2>0, <3>1 DEF LineInv, Line
  <2>3. CASE n = m /\ sink[m] # "inq"
    <3>1. inq'[m] = inq[m]
      BY <1>0, <1>10, <2>3 DEF Mix, TypeOK
    <3>2. QED BY <2>0, <2>3, <3>1 DEF LineInv, Line
  <2>4. QED BY <2>1, <2>2, <2>3
<1>11. CASE Flush("audio", "flushAudio", "flushVideo") \/ Flush("video", "flushVideo", "loop")
  <2>0. UNCHANGED <<flags, taken, buf, sink, produced>> /\ pcW \in {"flushAudio", "flushVideo"}
    BY <1>11 DEF Flush
  <2>1. Fresh /\ taken[m] = <<>> /\ buf[m] = <<>> /\ UNCHANGED <<taken, buf, sink, produced>>
    BY <2>0 DEF flags, Fresh, RecordPhase
  <2>2. inq'[m] = <<>> \/ inq'[m] = inq[m]
    BY <1>0, <1>11 DEF Flush, TypeOK
  <2>3. QED BY <1>1, <1>2, <2>1, <2>2 DEF Line
<1>12. CASE Flush("audio", "endAudio", "endVideo") \/ Flush("video", "endVideo", "off")
  <2>0. UNCHANGED <<flags, taken, buf, sink, produced>>
    BY <1>12 DEF Flush
  <2>1. Fresh /\ UNCHANGED <<taken, buf, sink, produced>>
    BY <2>0 DEF flags, Fresh
  <2>2. sink[m] # "inq"
    BY <1>0, <1>12, <2>1 DEF Flush, RecordPhase, SinkPhase
  <2>3. inq'[m] = <<>> \/ inq'[m] = inq[m]
    BY <1>0, <1>12 DEF Flush, TypeOK
  <2>4. CASE inq'[m] = inq[m]
    BY <1>1, <2>1, <2>4 DEF Line
  <2>5. CASE inq'[m] = <<>>
    <3>1. taken[m] \o buf[m] \in Seq(Nat) /\ inq[m] \in Seq(Nat)
      BY <1>0, LineTypes
    <3>2. Gapless(taken[m] \o buf[m])
      BY <2>1, <3>1, GaplessPrefix DEF LineInv, Line
    <3>3. Line(m)' = taken[m] \o buf[m]
      BY <2>1, <2>5, <3>1, ConcatEmptySeq DEF Line
    <3>4. QED BY <2>1, <2>2, <3>2, <3>3
  <2>6. QED BY <2>3, <2>4, <2>5
<1>13. CASE Read("audio", "readAudio", "readVideo") \/ Read("video", "readVideo", "write")
  <2>1. Line(m)' = Line(m)
    BY <1>0, <1>13, ReadKeepsLines DEF Media
  <2>2. QED BY <1>1, <1>13, <2>1 DEF Read, flags, Fresh
<1>14. CASE WriteFrame \/ Drain
  <2>1. Line(m)' = Line(m)
    BY <1>0, <1>14, TakeKeepsLines DEF WriteFrame, Drain
  <2>2. QED BY <1>1, <1>14, <2>1 DEF WriteFrame, Drain, flags, Fresh
<1>15. QED
  BY <1>3, <1>4, <1>6, <1>7, <1>8, <1>9, <1>10, <1>11, <1>12, <1>13, <1>14
     DEF Next, InCall, Writer

(* Until the recorder is restarted, what is recorded, buffered and queued  *)
(* of a medium is one gapless run of the mixer's frames.                   *)
THEOREM RecorderNoGaps == Spec => []NoGapsInRecording
<1>1. Init => GapInv
  BY DEF Init, GapInv, RecordPhase, LineInv, Fresh
<1>2. RecorderInv /\ GapInv /\ [Next]_vars => GapInv'
  BY RecordPhaseStep, LineStep DEF GapInv
<1>3. GapInv => NoGapsInRecording
  BY DEF GapInv, LineInv, Fresh, Line, NoGapsInRecording
<1>4. QED BY <1>1, <1>2, <1>3, RecorderInvariant, PTL DEF Spec
-----------------------------------------------------------------------------
(* That the writer which is joined ends: with each step it takes, fewer    *)
(* steps are left, and nobody makes them more.  The frames to come of a    *)
(* medium count while its sink is connected, as it is in a restart; when   *)
(* recording is stopped the sinks have been cut, so that what the mixers   *)
(* produce meanwhile does not matter.                                      *)
PlaceRank ==
  [off |-> 0, endVideo |-> 1, endAudio |-> 2, drain |-> 1, loop |-> 3, write |-> 4,
   readVideo |-> 5, readAudio |-> 6, flushVideo |-> 4, flushAudio |-> 5, test |-> 7]

ToCome(m) == IF sink[m] = "inq" THEN MaxFrames - produced[m] ELSE 0

Load(m) == 2 * (Len(inq[m]) + ToCome(m)) + Len(buf[m])

WriterStepsLeft == PlaceRank[pcW] + Load("audio") + Load("video")

Joining == pcM \in {"join", "joinToRestart"}

WriterEnds ==
  [][Joining /\ pcM' = pcM =>
       /\ WriterStepsLeft' <= WriterStepsLeft
       /\ Writer => WriterStepsLeft' < WriterStepsLeft]_vars

(* The writer has been told to end when it is joined, and no sink is       *)
(* connected when recording stops.                                         *)
ToldToEnd == run => pcM \notin {"open", "start", "joinToRestart", "join"}

LEMMA ToldToEndStep ==
  ASSUME ToldToEnd, [Next]_vars
  PROVE  ToldToEnd'
<1> USE DEF ToldToEnd
<1>1. CASE StartRecord
  BY <1>1 DEF StartRecord
<1>2. CASE StopRecord
  BY <1>2 DEF StopRecord, flags
<1>3. CASE InCall
  BY <1>3 DEF InCall, Rejoin, JoinAndFree, OpenFile, StartWriter, Connect, Starting, Cut,
              StopWriter, Stopped, flags
<1>4. CASE Writer
  BY <1>4 DEF Writer, Loop, Test, Flush, Read, WriteFrame, Drain, flags
<1>5. ASSUME NEW m \in Media, Mix(m) PROVE ToldToEnd'
  BY <1>5 DEF Mix, flags
<1>6. CASE UNCHANGED vars
  BY <1>6 DEF vars, flags
<1>7. QED BY <1>1, <1>2, <1>3, <1>4, <1>5, <1>6 DEF Next

(* What is counted is a number.                                            *)
LEMMA LoadTypes ==
  ASSUME NEW s \in [Media -> {"inq", "null", "freed"}], NEW p \in [Media -> 0 .. MaxFrames],
         NEW q \in [Media -> Seq(1 .. MaxFrames)], NEW b \in [Media -> Seq(1 .. MaxFrames)],
         NEW m \in Media
  PROVE  /\ Len(q[m]) \in Nat /\ Len(b[m]) \in Nat
         /\ (IF s[m] = "inq" THEN MaxFrames - p[m] ELSE 0) \in Nat
         /\ 2 * (Len(q[m]) + (IF s[m] = "inq" THEN MaxFrames - p[m] ELSE 0)) + Len(b[m]) \in Nat
<1>1. Len(q[m]) \in Nat /\ Len(b[m]) \in Nat
  <2>1. q[m] \in Seq(1 .. MaxFrames) /\ b[m] \in Seq(1 .. MaxFrames)
    OBVIOUS
  <2>2. QED BY <2>1, LenProperties
<1>2. p[m] \in 0 .. MaxFrames
  OBVIOUS
<1>3. (IF s[m] = "inq" THEN MaxFrames - p[m] ELSE 0) \in Nat
  BY <1>2, RecorderAssumption
<1>4. \A x, y, z \in Nat : 2 * (x + y) + z \in Nat
  OBVIOUS
<1>5. QED BY <1>1, <1>3, <1>4, Zenon

(* A mixer's frame was counted as one to come, or is not put anywhere.     *)
LEMMA MixKeepsLoad ==
  ASSUME TypeOK, NEW m \in Media, Mix(m)
  PROVE  \A n \in Media : Load(n)' = Load(n)
<1> TAKE n \in Media
<1>1. buf' = buf /\ sink' = sink
  BY DEF Mix
<1>2. CASE n # m
  <2>1. inq'[n] = inq[n] /\ produced'[n] = produced[n]
    BY <1>2 DEF Mix, TypeOK
  <2>2. QED BY <1>1, <2>1 DEF Load, ToCome
<1>3. CASE n = m /\ sink[m] # "inq"
  <2>1. inq'[m] = inq[m]
    BY <1>3 DEF Mix, TypeOK
  <2>2. QED BY <1>1, <1>3, <2>1 DEF Load, ToCome
<1>4. CASE n = m /\ sink[m] = "inq"
  <2>1. /\ inq'[m] = Append(inq[m], produced[m] + 1)
        /\ produced'[m] = produced[m] + 1 /\ produced[m] \in 0 .. MaxFrames
        /\ inq[m] \in Seq(1 .. MaxFrames)
    BY <1>4 DEF Mix, TypeOK
  <2>2. /\ Len(inq[m]) \in Nat /\ Len(inq'[m]) = Len(inq[m]) + 1
    BY <2>1, LenProperties, AppendProperties
  <2>3. Len(inq'[m]) + (MaxFrames - produced'[m]) = Len(inq[m]) + (MaxFrames - produced[m])
    <3>1. \A x, y \in Nat : x + 1 + (MaxFrames - (y + 1)) = x + (MaxFrames - y)
      BY RecorderAssumption
    <3>2. produced[m] \in Nat
      BY <2>1
    <3>3. QED BY <2>1, <2>2, <3>1, <3>2, Zenon
  <2>4. ToCome(m) = MaxFrames - produced[m] /\ ToCome(m)' = MaxFrames - produced'[m]
    BY <1>1, <1>4 DEF ToCome
  <2>5. Load(m)' = Load(m)
    BY <1>1, <2>3, <2>4 DEF Load
  <2>6. QED BY <1>4, <2>5
<1>5. QED BY <1>2, <1>3, <1>4
(* What the writer does to queue and buffer of a medium never makes more   *)
(* of them, and less when it stays at its place.                           *)
LEMMA WriterLowersLoad ==
  ASSUME TypeOK, TypeOK', Writer
  PROVE  /\ \A m \in Media : Load(m)' <= Load(m)
         /\ pcW' = pcW => \E m \in Media : Load(m)' < Load(m)
<1>1. UNCHANGED <<sink, produced>>
  BY DEF Writer, Loop, Test, Flush, Read, WriteFrame, Drain
<1>2. \A m \in Media : ToCome(m)' = ToCome(m)
  BY <1>1 DEF ToCome
<1>3. \A m \in Media :
        /\ ToCome(m) \in Nat
        /\ Len(inq[m]) \in Nat /\ Len(buf[m]) \in Nat
        /\ Len(inq'[m]) \in Nat /\ Len(buf'[m]) \in Nat
        /\ Load(m) \in Nat /\ Load(m)' \in Nat
  <2> TAKE m \in Media
  <2>1. /\ ToCome(m) \in Nat /\ Len(inq[m]) \in Nat /\ Len(buf[m]) \in Nat
        /\ Load(m) \in Nat
    BY LoadTypes, Zenon DEF TypeOK, ToCome, Load
  <2>2. /\ Len(inq'[m]) \in Nat /\ Len(buf'[m]) \in Nat
        /\ Load(m)' \in Nat
    BY LoadTypes, Zenon DEF TypeOK, ToCome, Load
  <2>3. QED BY <2>1, <2>2
<1>4. ASSUME NEW m \in Media, inq'[m] = inq[m], Len(buf'[m]) <= Len(buf[m])
      PROVE  /\ Load(m)' <= Load(m)
             /\ Len(buf'[m]) < Len(buf[m]) => Load(m)' < Load(m)
  BY <1>2, <1>3, <1>4 DEF Load
<1>5. "audio" \in Media /\ "video" \in Media
  BY DEF Media
<1>6. CASE Loop \/ Test
  <2>1. UNCHANGED <<inq, buf>> /\ pcW' # pcW
    BY <1>6 DEF Loop, Test, media
  <2>2. QED BY <1>3, <1>4, <2>1
<1>7. ASSUME NEW m \in Media, NEW l, NEW n, n # l, Flush(m, l, n)
      PROVE  pcW' # pcW /\ \A k \in Media : Load(k)' <= Load(k)
  <2>1. buf' = buf /\ pcW' # pcW /\ inq' = [inq EXCEPT ![m] = <<>>]
    BY <1>7 DEF Flush
  <2>2. \A k \in Media \ {m} : inq'[k] = inq[k]
    BY <2>1 DEF TypeOK
  <2>3. inq'[m] = <<>> /\ Len(inq'[m]) = 0
    BY <2>1, EmptySeq DEF TypeOK
  <2>4. Load(m)' <= Load(m)
    BY <1>2, <1>3, <2>1, <2>3 DEF Load
  <2>5. QED BY <1>3, <1>4, <2>1, <2>2, <2>4
<1>8. ASSUME NEW m \in Media, NEW l, NEW n, n # l, Read(m, l, n)
      PROVE  /\ \A k \in Media : Load(k)' <= Load(k)
             /\ pcW' = pcW => Load(m)' < Load(m)
  <2>1. CASE inq[m] = <<>>
    <3>1. UNCHANGED <<inq, buf>> /\ pcW' # pcW
      BY <1>8, <2>1 DEF Read
    <3>2. QED BY <1>3, <1>4, <3>1
  <2>2. CASE inq[m] # <<>>
    <3>1. /\ inq[m] \in Seq(1 .. MaxFrames) /\ buf[m] \in Seq(1 .. MaxFrames)
          /\ Head(inq[m]) \in 1 .. MaxFrames
      BY <2>2, HeadTailProperties DEF TypeOK
    <3>2. inq'[m] = Tail(inq[m]) /\ buf'[m] = Append(buf[m], Head(inq[m]))
      BY <1>8, <2>2 DEF Read, TypeOK
    <3>3. \A k \in Media \ {m} : inq'[k] = inq[k] /\ buf'[k] = buf[k]
      BY <1>8, <2>2 DEF Read, TypeOK
    <3>4. Len(inq'[m]) = Len(inq[m]) - 1 /\ Len(buf'[m]) = Len(buf[m]) + 1
      BY <2>2, <3>1, <3>2, HeadTailProperties, AppendProperties
    <3>5. Load(m)' < Load(m)
      <4>1. \A x, y, z \in Nat : 2 * ((x - 1) + y) + (z + 1) < 2 * (x + y) + z
        OBVIOUS
      <4>2. ToCome(m) \in Nat /\ Len(inq[m]) \in Nat /\ Len(buf[m]) \in Nat
        BY <1>3
      <4>3. Load(m)' = 2 * ((Len(inq[m]) - 1) + ToCome(m)) + (Len(buf[m]) + 1)
        BY <1>2, <3>4, Zenon DEF Load
      <4>4. QED BY <4>1, <4>2, <4>3 DEF Load
    <3>6. \A k \in Media \ {m} : Load(k)' <= Load(k)
      BY <1>3, <1>4, <3>3
    <3>7. QED BY <1>3, <3>5, <3>6
  <2>3. QED BY <2>1, <2>2
<1>9. ASSUME TakeFrames, inq' = inq
      PROVE  \A m \in Media : /\ Load(m)' <= Load(m)
                              /\ buf[m] # <<>> => Load(m)' < Load(m)
  <2> TAKE m \in Media
  <2>1. CASE buf[m] = <<>>
    <3>1. buf'[m] = buf[m]
      BY <1>9, <2>1 DEF TakeFrames
    <3>2. QED BY <1>3, <1>4, <1>9, <2>1, <3>1
  <2>2. CASE buf[m] # <<>>
    <3>1. buf'[m] = Tail(buf[m])
      BY <1>9, <2>2 DEF TakeFrames
    <3>2. Len(buf'[m]) = Len(buf[m]) - 1
      BY <2>2, <3>1, HeadTailProperties DEF TypeOK
    <3>3. Len(buf'[m]) < Len(buf[m])
      BY <1>3, <3>2
    <3>4. QED BY <1>3, <1>4, <1>9, <3>3
  <2>3. QED BY <2>1, <2>2
<1>10. CASE WriteFrame
  BY <1>9, <1>10 DEF WriteFrame
<1>11. CASE Drain
  <2>1. TakeFrames /\ inq' = inq /\ pcW = "drain"
    BY <1>11 DEF Drain
  <2>2. pcW' = "drain" => \A m \in Media : buf[m] # <<>>
    BY <1>11 DEF Drain
  <2>3. QED BY <1>5, <1>9, <2>1, <2>2
<1>12. QED BY <1>5, <1>6, <1>7, <1>8, <1>10, <1>11 DEF Writer

(* Wherever the writer goes once it has been told to end, it comes to a    *)
(* place from which fewer are left.                                        *)
LEMMA WriterLowersRank ==
  ASSUME Writer, ~run
  PROVE  pcW' = pcW \/ PlaceRank[pcW'] < PlaceRank[pcW]
<1> USE DEF PlaceRank
<1>1. CASE Loop \/ Test
  BY <1>1 DEF Loop, Test
<1>2. CASE \/ Flush("audio", "flushAudio", "flushVideo") \/ Flush("video", "flushVideo", "loop")
           \/ Flush("audio", "endAudio", "endVideo") \/ Flush("video", "endVideo", "off")
  BY <1>2 DEF Flush
<1>3. CASE Read("audio", "readAudio", "readVideo") \/ Read("video", "readVideo", "write")
  BY <1>3 DEF Read
<1>4. CASE WriteFrame \/ Drain
  BY <1>4 DEF WriteFrame, Drain
<1>5. QED BY <1>1, <1>2, <1>3, <1>4 DEF Writer

(* A writer that is joined comes to its end.                               *)
THEOREM EveryJoinEnds == Spec => WriterEnds
<1>1. Init => ToldToEnd
  BY DEF Init, ToldToEnd
<1>2. ASSUME RecorderInv, RecorderInv', ToldToEnd, [Next]_vars, Joining, pcM' = pcM
      PROVE  /\ WriterStepsLeft' <= WriterStepsLeft
             /\ Writer => WriterStepsLeft' < WriterStepsLeft
  <2>1. TypeOK /\ TypeOK' /\ ~run /\ "audio" \in Media /\ "video" \in Media
    BY <1>2 DEF RecorderInv, ToldToEnd, Joining, Media
  <2>2. /\ Load("audio") \in Nat /\ Load("video") \in Nat
        /\ Load("audio")' \in Nat /\ Load("video")' \in Nat
    <3>1. Load("audio") \in Nat /\ Load("video") \in Nat
      BY <2>1, LoadTypes, Zenon DEF TypeOK, Load, ToCome
    <3>2. Load("audio")' \in Nat /\ Load("video")' \in Nat
      BY <2>1, LoadTypes, Zenon DEF TypeOK, Load, ToCome
    <3>3. QED BY <3>1, <3>2
  <2>3. PlaceRank[pcW] \in Nat /\ PlaceRank[pcW'] \in Nat
    <3>1. \A l \in WriterLabels : PlaceRank[l] \in Nat
      BY DEF WriterLabels, PlaceRank
    <3>2. pcW \in WriterLabels /\ pcW' \in WriterLabels
      BY <2>1 DEF TypeOK
    <3>3. QED BY <3>1, <3>2
  <2>4. CASE Writer
    <3>1. /\ Load("audio")' <= Load("audio") /\ Load("video")' <= Load("video")
          /\ pcW' = pcW => Load("audio")' < Load("audio") \/ Load("video")' < Load("video")
      BY <2>1, <2>4, WriterLowersLoad DEF Media
    <3>2. pcW' = pcW \/ PlaceRank[pcW'] < PlaceRank[pcW]
      BY <2>1, <2>4, WriterLowersRank
    <3>3. WriterStepsLeft' < WriterStepsLeft
      BY <2>2, <2>3, <3>1, <3>2 DEF WriterStepsLeft
    <3>4. WriterStepsLeft \in Nat /\ WriterStepsLeft' \in Nat
      BY <2>2, <2>3 DEF WriterStepsLeft
    <3>5. QED BY <3>3, <3>4
  <2>5. CASE ~Writer
    <3>1. UNCHANGED vars \/ \E m \in Media : Mix(m)
      BY <1>2, <2>1, <2>5 DEF Next, Joining, StartRecord, StopRecord, InCall, Rejoin, JoinAndFree, OpenFile,
            StartWriter, Connect, Starting, Cut, StopWriter, Stopped
    <3>2. pcW' = pcW
      BY <3>1 DEF vars, Mix
    <3>3. Load("audio")' = Load("audio") /\ Load("video")' = Load("video")
      <4>1. CASE UNCHANGED vars
        BY <4>1 DEF vars, media, Load, ToCome
      <4>2. ASSUME NEW m \in Media, Mix(m)
            PROVE  Load("audio")' = Load("audio") /\ Load("video")' = Load("video")
        BY <2>1, <4>2, MixKeepsLoad
      <4>3. QED BY <3>1, <4>1, <4>2
    <3>4. WriterStepsLeft' = WriterStepsLeft /\ WriterStepsLeft \in Nat
      BY <2>2, <2>3, <3>2, <3>3 DEF WriterStepsLeft
    <3>5. QED BY <2>5, <3>4
  <2>6. QED BY <2>4, <2>5
<1>3. ASSUME ToldToEnd, [Next]_vars PROVE ToldToEnd'
  BY <1>3, ToldToEndStep
<1>4. QED BY <1>1, <1>2, <1>3, RecorderInvariant, PTL DEF Spec, WriterEnds
=============================================================================
