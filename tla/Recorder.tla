------------------------------ MODULE Recorder ------------------------------
(***************************************************************************)
(* Recording or publishing a conference: conf_stream_start_record and      *)
(* conf_stream_stop_record of confstream.c and the recorder of             *)
(* file_writer.c.                                                          *)
(*                                                                         *)
(* The main thread opens the file, starts the writer thread, connects the  *)
(* two record sinks of the mixers to the recorder's queues and then lets   *)
(* the writer record; it stops in the reverse order and joins the writer.  *)
(* The mixers' tickers put frames into the queues all the while.  How a    *)
(* sink puts a frame under the queue's lock is the subject of ConfItc.tla; *)
(* here it is one step.                                                    *)
(***************************************************************************)
EXTENDS Naturals, Sequences

CONSTANT MaxFrames   (* bound: frames each mixer produces                   *)

ASSUME RecorderAssumption == MaxFrames \in Nat

Media == {"audio", "video"}

VARIABLES
  os,        (* stream->os is not NULL                                      *)
  restarted, (* history: that recorder was stopped and started again        *)
  file,      (* os->oc is an open context                                   *)
  is_rtmp,   (* os->is_rtmp                                                 *)
  run,       (* os->run                                                     *)
  start_recroding, (* os->start_recroding                                   *)
  sink,      (* medium -> the queue of its record sink: the recorder's,     *)
             (* NULL or that of a recorder that was destroyed               *)
  inq,       (* medium -> os->audio_inq, os->video_inq                      *)
  buf,       (* medium -> os->bufferizer, os->video_queue                   *)
  taken,     (* medium -> the frames taken for the file: encoded, repeated  *)
             (* or dropped to keep audio and video together                 *)
  produced,  (* medium -> number of frames the mixer has produced           *)
  pcM, pcW,  (* where the main thread and the writer thread are             *)
  crashed    (* a mixer has used a queue that was freed                     *)

flags == <<os, restarted, file, is_rtmp, run, start_recroding>>
media == <<inq, buf, taken>>
vars  == <<flags, sink, media, produced, pcM, pcW, crashed>>

Empty == [m \in Media |-> <<>>]

-----------------------------------------------------------------------------
(* The main thread.                                                        *)

(* conf_stream_start_record: a recorder that runs is stopped and used      *)
(* again, with what it has buffered.                                       *)
StartRecord ==
  /\ pcM = "idle"
  /\ IF os
     THEN /\ restarted' = TRUE
          /\ run' = FALSE
          /\ pcM' = "joinToRestart"
          /\ UNCHANGED <<os, is_rtmp, start_recroding, media>>
     ELSE /\ os' = TRUE
          /\ restarted' = FALSE
          /\ is_rtmp' = FALSE
          /\ run' = FALSE
          /\ start_recroding' = FALSE
          /\ inq' = Empty /\ buf' = Empty /\ taken' = Empty
          /\ pcM' = "open"
  /\ UNCHANGED <<file, sink, produced, pcW, crashed>>

(* Mutant: the writer is not waited for.                                   *)
JoinForgotten(l) ==
  /\ pcM = l
  /\ file' = FALSE

(* The end of video_recoder_stop: the writer is joined, then the file is   *)
(* closed and the context freed.                                           *)
JoinAndFree(l) ==
  /\ pcM = l
  /\ pcW = "off"
  /\ file' = FALSE

Rejoin ==
  /\ JoinAndFree("joinToRestart")
  /\ pcM' = "open"
  /\ UNCHANGED <<os, restarted, is_rtmp, run, start_recroding, sink, media, produced, pcW, crashed>>

(* video_recoder_open_file may fail; the recorder and its queues are then  *)
(* destroyed, whatever the sinks are connected to.                         *)
OpenFile ==
  /\ pcM = "open"
  /\ \/ /\ file' = TRUE
        /\ \E b \in BOOLEAN : is_rtmp' = (is_rtmp \/ b)
        /\ taken' = Empty
        /\ pcM' = "start"
        /\ UNCHANGED <<os, sink>>
     \/ /\ os' = FALSE
        /\ sink' = [m \in Media |-> IF sink[m] = "inq" THEN "freed" ELSE sink[m]]
        /\ pcM' = "idle"
        /\ UNCHANGED <<file, is_rtmp, taken>>
  /\ UNCHANGED <<restarted, run, start_recroding, inq, buf, produced, pcW, crashed>>

(* video_recoder_start.                                                    *)
StartWriter ==
  /\ pcM = "start"
  /\ run' = TRUE
  /\ start_recroding' = FALSE
  /\ pcW' = "loop"
  /\ pcM' = "connectAudio"
  /\ UNCHANGED <<os, restarted, file, is_rtmp, sink, media, produced, crashed>>

Connect(m, l, next) ==
  /\ pcM = l
  /\ sink' = [sink EXCEPT ![m] = "inq"]
  /\ pcM' = next
  /\ UNCHANGED <<flags, media, produced, pcW, crashed>>

(* video_recoder_starting.                                                 *)
Starting ==
  /\ pcM = "starting"
  /\ start_recroding' = TRUE
  /\ pcM' = "idle"
  /\ UNCHANGED <<os, restarted, file, is_rtmp, run, sink, media, produced, pcW, crashed>>

(* conf_stream_stop_record; nothing happens when there is no recorder.     *)
StopRecord ==
  /\ pcM = "idle" /\ os
  /\ pcM' = "cutAudio"
  /\ UNCHANGED <<flags, sink, media, produced, pcW, crashed>>

(* Mutant: the sink stays connected.                                       *)
CutForgotten(m, l, next) ==
  /\ pcM = l
  /\ pcM' = next
  /\ UNCHANGED <<flags, sink, media, produced, pcW, crashed>>

Cut(m, l, next) ==
  /\ pcM = l
  /\ sink' = [sink EXCEPT ![m] = "null"]
  /\ pcM' = next
  /\ UNCHANGED <<flags, media, produced, pcW, crashed>>

(* Mutant: the writer is joined without being told to end.                 *)
StopWriterForgotten ==
  /\ pcM = "stop"
  /\ pcM' = "join"
  /\ UNCHANGED <<flags, sink, media, produced, pcW, crashed>>

StopWriter ==
  /\ pcM = "stop"
  /\ run' = FALSE
  /\ pcM' = "join"
  /\ UNCHANGED <<os, restarted, file, is_rtmp, start_recroding, sink, media, produced, pcW, crashed>>

(* The recorder is forgotten, not destroyed.                               *)
Stopped ==
  /\ JoinAndFree("join")
  /\ os' = FALSE
  /\ pcM' = "idle"
  /\ UNCHANGED <<restarted, is_rtmp, run, start_recroding, sink, media, produced, pcW, crashed>>

InCall ==
  \/ Rejoin \/ OpenFile \/ StartWriter
  \/ Connect("audio", "connectAudio", "connectVideo") \/ Connect("video", "connectVideo", "starting")
  \/ Starting
  \/ Cut("audio", "cutAudio", "cutVideo") \/ Cut("video", "cutVideo", "stop")
  \/ StopWriter \/ Stopped

-----------------------------------------------------------------------------
(* The mixers.                                                             *)

Mix(m) ==
  /\ produced[m] < MaxFrames
  /\ produced' = [produced EXCEPT ![m] = @ + 1]
  /\ inq' = [inq EXCEPT ![m] = IF sink[m] = "inq" THEN Append(@, produced[m] + 1) ELSE @]
  /\ crashed' = (sink[m] = "freed")
  /\ UNCHANGED <<flags, sink, buf, taken, pcM, pcW>>

-----------------------------------------------------------------------------
(* The writer thread, av_record_run.                                       *)

Loop ==
  /\ pcW = "loop"
  /\ pcW' = CASE run -> "test"
              [] ~run /\ is_rtmp -> "endAudio"
              [] ~run /\ ~is_rtmp -> "drain"
  /\ UNCHANGED <<flags, sink, media, produced, pcM, crashed>>

(* Mutant: the queues are flushed in every round.                          *)
TestAlwaysFlushes ==
  /\ pcW = "test"
  /\ pcW' \in {"flushAudio", "readAudio"}
  /\ UNCHANGED <<flags, sink, media, produced, pcM, crashed>>

Test ==
  /\ pcW = "test"
  /\ pcW' = IF start_recroding THEN "readAudio" ELSE "flushAudio"
  /\ UNCHANGED <<flags, sink, media, produced, pcM, crashed>>

(* av_queue_flush, queue by queue.                                         *)
Flush(m, l, next) ==
  /\ pcW = l
  /\ inq' = [inq EXCEPT ![m] = <<>>]
  /\ pcW' = next
  /\ UNCHANGED <<flags, sink, buf, taken, produced, pcM, crashed>>

(* av_read_buffer, frame by frame.                                         *)
Read(m, l, next) ==
  /\ pcW = l
  /\ IF inq[m] = <<>>
     THEN pcW' = next /\ UNCHANGED <<inq, buf>>
     ELSE /\ buf' = [buf EXCEPT ![m] = Append(@, Head(inq[m]))]
          /\ inq' = [inq EXCEPT ![m] = Tail(@)]
          /\ UNCHANGED pcW
  /\ UNCHANGED <<flags, sink, taken, produced, pcM, crashed>>

(* file_write_frame takes a frame of each medium that has one.             *)
TakeFrames ==
  /\ taken' = [m \in Media |-> IF buf[m] = <<>> THEN taken[m] ELSE Append(taken[m], Head(buf[m]))]
  /\ buf' = [m \in Media |-> IF buf[m] = <<>> THEN <<>> ELSE Tail(buf[m])]

WriteFrame ==
  /\ pcW = "write"
  /\ TakeFrames
  /\ pcW' = "loop"
  /\ UNCHANGED <<flags, sink, inq, produced, pcM, crashed>>

(* A file gets what is buffered, until one medium runs out or a video      *)
(* frame is dropped.                                                       *)
Drain ==
  /\ pcW = "drain"
  /\ TakeFrames
  /\ pcW' \in IF \E m \in Media : buf[m] = <<>> THEN {"off"} ELSE {"off", "drain"}
  /\ UNCHANGED <<flags, sink, inq, produced, pcM, crashed>>

Writer ==
  \/ Loop \/ Test
  \/ Flush("audio", "flushAudio", "flushVideo") \/ Flush("video", "flushVideo", "loop")
  \/ Read("audio", "readAudio", "readVideo") \/ Read("video", "readVideo", "write")
  \/ WriteFrame
  \/ Drain
  \/ Flush("audio", "endAudio", "endVideo") \/ Flush("video", "endVideo", "off")

-----------------------------------------------------------------------------
Init ==
  /\ os = FALSE /\ restarted = FALSE /\ file = FALSE /\ is_rtmp = FALSE
  /\ run = FALSE /\ start_recroding = FALSE
  /\ sink = [m \in Media |-> "null"]
  /\ inq = Empty /\ buf = Empty /\ taken = Empty
  /\ produced = [m \in Media |-> 0]
  /\ pcM = "idle" /\ pcW = "off"
  /\ crashed = FALSE

Next ==
  /\ ~crashed
  /\ \/ StartRecord \/ StopRecord \/ InCall
     \/ \E m \in Media : Mix(m)
     \/ Writer

(* A call of the main thread goes on once begun, and so does the writer.   *)
Fairness == WF_vars(~crashed /\ InCall) /\ WF_vars(~crashed /\ Writer)

Spec == Init /\ [][Next]_vars /\ Fairness

-----------------------------------------------------------------------------
MainLabels == {"idle", "open", "start", "connectAudio", "connectVideo", "starting",
               "cutAudio", "cutVideo", "stop", "join", "joinToRestart"}
WriterLabels == {"off", "loop", "test", "flushAudio", "flushVideo", "readAudio", "readVideo",
                 "write", "drain", "endAudio", "endVideo"}

(* Every variable holds a value of its kind.                               *)
TypeOK ==
  /\ os \in BOOLEAN /\ restarted \in BOOLEAN /\ file \in BOOLEAN /\ is_rtmp \in BOOLEAN
  /\ run \in BOOLEAN /\ start_recroding \in BOOLEAN /\ crashed \in BOOLEAN
  /\ sink \in [Media -> {"inq", "null", "freed"}]
  /\ inq \in [Media -> Seq(1 .. MaxFrames)]
  /\ buf \in [Media -> Seq(1 .. MaxFrames)]
  /\ taken \in [Media -> Seq(1 .. MaxFrames)]
  /\ produced \in [Media -> 0 .. MaxFrames]
  /\ pcM \in MainLabels
  /\ pcW \in WriterLabels

(* The writer works on an open file of a recorder that exists: stopping,   *)
(* restarting and failing to open never free them under it.                *)
WriterHasFile == pcW # "off" => os /\ file

(* While the recorder is new, what is recorded, buffered and queued of a   *)
(* medium is one gapless run of the mixer's frames: neither the writer's   *)
(* late look at start_recroding nor stopping punches a hole into it.  (A   *)
(* recorder that is started again keeps old frames in buf while inq may be *)
(* flushed.)                                                               *)
Gapless(s) == \A i \in 1 .. Len(s) - 1 : s[i + 1] = s[i] + 1

NoGapsInRecording ==
  os /\ ~restarted => \A m \in Media : Gapless(taken[m] \o buf[m] \o inq[m])

(* The sinks never outlive what they are connected to: a stopped recording *)
(* has cut them off, and only a restart whose file could not be opened     *)
(* leaves them on the queues it frees (the next frame then crashes).       *)
SinksAreCut ==
  [][\A m \in Media : /\ sink'[m] = "inq" => os'
                      /\ sink'[m] = "freed" => sink[m] = "freed" \/ restarted]_vars

(* Starting and stopping to record returns: the writer that is joined      *)
(* comes to its end.                                                       *)
RecordCallsReturn == pcM # "idle" ~> pcM = "idle" \/ crashed

(* The inductive invariant: what the main thread has done so far at each   *)
(* place of its calls.                                                     *)
FilePhase ==
  /\ file <=> os /\ pcM # "open"
  /\ pcM # "idle" => os
  /\ pcW # "off" => os
  /\ pcM \in {"open", "start"} => pcW = "off"

SinkPhase ==
  /\ \A m \in Media : sink[m] = "inq" =>
       /\ os
       /\ pcM = "open" => restarted
       /\ pcM \notin {"stop", "join"}
  /\ pcM = "joinToRestart" => restarted
  /\ pcM = "cutVideo" => sink["audio"] # "inq"

RecorderInv == TypeOK /\ FilePhase /\ SinkPhase
=============================================================================
