----------------------------- MODULE FilePlayer -----------------------------
(***************************************************************************)
(* Playing a file or an RTMP stream as sound card and camera:              *)
(* file_stream.c and the player filters of msvideoplayer.c.                *)
(*                                                                         *)
(* The main thread opens, starts, seeks and stops.  A reader thread, one   *)
(* per playing, creates a decoder thread for each stream of the file, puts *)
(* packets into their packet queues, carries out seeks and, at the end,    *)
(* aborts the queues and joins the decoders.  The decoders put frames into *)
(* the output queues, from which the player filters, which outlive the     *)
(* file, take them.                                                        *)
(*                                                                         *)
(* A packet is known by the stretch of reading it belongs to: each file    *)
(* opened and each seek carried out begins a new one.                      *)
(***************************************************************************)
EXTENDS Naturals, Sequences, FiniteSets, Functions

CONSTANTS
  MIN_FRAMES,      (* pictures in the output queue that stop video's decoder*)
  MIN_AUDIO_BUFS,  (* blocks in the output queue that stop audio's          *)
  MaxBlocks,       (* blocks of 10 ms that one frame of audio can complete  *)
  MIN_QUEUE,       (* packets of each medium that stop the reader           *)
  MAX_QUEUE_SIZE,  (* packets of both that stop the reader                  *)
  MaxStretch,      (* bound: files opened and seeks carried out             *)
  MaxPackets       (* bound: packets of a stretch                           *)

ASSUME FilePlayerAssumption ==
  /\ {MIN_QUEUE, MAX_QUEUE_SIZE, MaxStretch, MaxPackets} \subseteq Nat
  /\ {MIN_FRAMES, MIN_AUDIO_BUFS, MaxBlocks} \subseteq Nat \ {0}

Media == {"audio", "video"}
Flush_pkt == 0   (* the packet that tells a decoder of a seek; also: none   *)

VARIABLES
  streams,   (* the media of the open file; their codecs are open           *)
  is_rtmp,   (* is->is_rtmp                                                 *)
  run,       (* is->run                                                     *)
  seek_req,  (* is->seek_req                                                *)
  queue,     (* medium -> is->audioq, is->videoq                            *)
  abort,     (* medium -> abort_request of that queue                       *)
  event,     (* medium -> its condition: on Windows an event, set until a   *)
             (* wait resets it                                              *)
  outq,      (* medium -> is->audio_outq, is->video_outq                    *)
  hand,      (* medium -> the packet taken                                  *)
  rest,      (* audio's has given a frame and another one is left of it in  *)
             (* is->audio_pkt_temp (bound: two frames of a packet)          *)
  codec,     (* medium -> what the codec decoded last, none when flushed    *)
  handle,    (* medium -> is->audio_decoder_thread, is->video_decoder_thread*)
  stretch,   (* the stretch that is read                                    *)
  packets,   (* how many packets of it were read                            *)
  opened,    (* history: the stretch the file began with                    *)
  leftover,  (* history: audio of a former file in hand when it was opened  *)
  pcM, pcR,  (* where the main thread and the reader are                    *)
  pcD,       (* medium -> where its decoder is                              *)
  undefined  (* something has happened the language gives no meaning to     *)

threads == <<pcM, pcR, pcD, handle>>
source  == <<streams, is_rtmp, stretch, packets, opened, leftover>>
pqueues == <<queue, abort, event>>
decoded == <<outq, hand, rest, codec>>
vars == <<source, run, seek_req, pqueues, decoded, threads, undefined>>

-----------------------------------------------------------------------------
(* The application's calls.                                                *)

(* file_stream_open and file_stream_start; a file that cannot be opened    *)
(* changes nothing that matters.  A pending seek of a former file stays.   *)
OpenAndStart ==
  /\ pcM = "idle" /\ ~run
  /\ stretch + (IF seek_req THEN 1 ELSE 0) < MaxStretch
  /\ streams' \in SUBSET Media /\ streams' # {}
  /\ is_rtmp' \in BOOLEAN
  /\ abort' = [m \in Media |-> abort[m] /\ m \notin streams']
  /\ stretch' = stretch + 1 /\ packets' = 0
  /\ opened' = stretch' /\ leftover' = hand["audio"]
  /\ run' = TRUE
  /\ pcR' = "create"
  /\ UNCHANGED <<seek_req, queue, event, decoded, handle, pcM, pcD, undefined>>

(* file_stream_do_seek: a seek that comes before the last one was carried  *)
(* out is lost.                                                            *)
Seek ==
  /\ pcM = "idle" /\ run
  /\ ~seek_req /\ stretch < MaxStretch
  /\ seek_req' = TRUE
  /\ UNCHANGED <<source, run, pqueues, decoded, threads, undefined>>

(* file_stream_stop: the queues are aborted, the reader is told to end and *)
(* joined, the output queues are emptied without their locks, the codecs   *)
(* are closed.                                                             *)
Stop ==
  /\ pcM = "idle" /\ run
  /\ abort' = [m \in Media |-> TRUE]
  /\ pcM' = "stop"
  /\ UNCHANGED <<source, run, seek_req, queue, event, decoded, handle, pcR, pcD, undefined>>

StopRunning ==
  /\ pcM = "stop"
  /\ run' = FALSE
  /\ pcM' = "join"
  /\ UNCHANGED <<source, seek_req, pqueues, decoded, handle, pcR, pcD, undefined>>

JoinReader ==
  /\ pcM = "join" /\ pcR = "off"
  /\ pcM' = "flush"
  /\ UNCHANGED <<source, run, seek_req, pqueues, decoded, handle, pcR, pcD, undefined>>

(* Mutant: only the codecs are closed.                                     *)
CloseWithoutFlush ==
  /\ pcM = "flush"
  /\ streams' = {}
  /\ codec' = [m \in Media |-> Flush_pkt]
  /\ pcM' = "idle"
  /\ UNCHANGED <<is_rtmp, stretch, packets, opened, leftover, run, seek_req, pqueues, outq, hand, rest,
                 handle, pcR, pcD, undefined>>

FlushAndClose ==
  /\ pcM = "flush"
  /\ outq' = [m \in Media |-> <<>>]
  /\ streams' = {}
  /\ codec' = [m \in Media |-> Flush_pkt]
  /\ pcM' = "idle"
  /\ UNCHANGED <<is_rtmp, stretch, packets, opened, leftover, run, seek_req, pqueues, hand, rest,
                 handle, pcR, pcD, undefined>>

(* file_stream_destory, file_stream_new and file_stream_init.              *)
Renew ==
  /\ pcM = "idle" /\ ~run
  /\ seek_req' = FALSE
  /\ abort' = [m \in Media |-> FALSE]
  /\ event' = [m \in Media |-> FALSE]
  /\ hand' = [m \in Media |-> Flush_pkt] /\ rest' = FALSE
  /\ handle' = [m \in Media |-> "null"]
  /\ UNCHANGED <<source, run, queue, outq, codec, pcM, pcR, pcD, undefined>>

Application == OpenAndStart \/ Seek \/ Stop \/ Renew
InCall == StopRunning \/ JoinReader \/ FlushAndClose

-----------------------------------------------------------------------------
(* The packet queues.                                                      *)

(* Mutant: the waiting decoder is not told.                                *)
PutSilently(m, p) == queue' = [queue EXCEPT ![m] = Append(@, p)] /\ UNCHANGED event

(* packet_queue_put                                                        *)
Put(m, p) ==
  /\ queue' = [queue EXCEPT ![m] = Append(@, p)]
  /\ event' = [event EXCEPT ![m] = TRUE]

-----------------------------------------------------------------------------
(* The reader, packet_read_run.                                            *)

CreateDecoders ==
  /\ pcR = "create"
  /\ pcD' = [m \in Media |-> IF m \in streams THEN "loop" ELSE pcD[m]]
  /\ handle' = [m \in Media |-> IF m \in streams THEN "live" ELSE handle[m]]
  /\ pcR' = "loop"
  /\ UNCHANGED <<source, run, seek_req, pqueues, decoded, pcM, undefined>>

(* Mutant: the decoder is not told of the seek.                            *)
MarkForgotten(m) ==
  IF m \in streams
  THEN queue' = [queue EXCEPT ![m] = <<>>] /\ event' = [event EXCEPT ![m] = TRUE]
  ELSE UNCHANGED <<queue, event>>

(* packet_queue_flush and packet_queue_put of flush_pkt.                   *)
EmptyAndMark(m) ==
  IF m \in streams
  THEN queue' = [queue EXCEPT ![m] = <<Flush_pkt>>] /\ event' = [event EXCEPT ![m] = TRUE]
  ELSE UNCHANGED <<queue, event>>

(* q->size: a mark has size 0, and only the first packet can be one.       *)
Size(m) ==
  IF queue[m] # <<>> /\ Head(queue[m]) = Flush_pkt THEN Len(queue[m]) - 1 ELSE Len(queue[m])

(* The queues are full.  (The test whether a stream is absent compares a   *)
(* pointer with 0 and is never true.)                                      *)
Full ==
  \/ Size("audio") + Size("video") > MAX_QUEUE_SIZE
  \/ Size("audio") > MIN_QUEUE /\ Len(queue["video"]) > MIN_QUEUE

(* Mutant: a full reader does not look for a seek.                         *)
SeekIfRoom == seek_req /\ ~is_rtmp /\ ~Full

SeekWanted == seek_req /\ ~is_rtmp

(* The head of the loop and file_stream_seek_frame: the file may refuse to *)
(* seek; otherwise its queues are emptied and marked, first audio's ...    *)
Loop ==
  /\ pcR = "loop"
  /\ \/ /\ ~run
        /\ pcR' = "abort"
        /\ UNCHANGED <<stretch, packets, seek_req, queue, event>>
     \/ /\ run /\ ~SeekWanted
        /\ pcR' = "read"
        /\ UNCHANGED <<stretch, packets, seek_req, queue, event>>
     \/ /\ run /\ SeekWanted
        /\ seek_req' = FALSE
        /\ pcR' = "read"
        /\ UNCHANGED <<stretch, packets, queue, event>>
     \/ /\ run /\ SeekWanted
        /\ stretch' = stretch + 1 /\ packets' = 0
        /\ EmptyAndMark("audio")
        /\ pcR' = "seekVideo"
        /\ UNCHANGED seek_req
  /\ UNCHANGED <<streams, is_rtmp, opened, leftover, run, abort, decoded, handle, pcM, pcD, undefined>>

(* ... then video's; only then another seek can be asked for.              *)
SeekVideo ==
  /\ pcR = "seekVideo"
  /\ EmptyAndMark("video")
  /\ seek_req' = FALSE
  /\ pcR' = "read"
  /\ UNCHANGED <<source, run, abort, decoded, handle, pcM, pcD, undefined>>

(* A packet is read and put, or there is none: the reader tries again at   *)
(* the end of the file and ends on an error of the file.  A stream may     *)
(* also not answer, and what waits for it is never interrupted:            *)
(* decode_interrupt_cb always returns FALSE.                               *)
ReadFrame ==
  /\ pcR = "read"
  /\ \/ /\ ~Full /\ packets < MaxPackets
        /\ \E m \in streams : Put(m, stretch)
        /\ packets' = packets + 1
        /\ pcR' = "loop"
     \/ /\ pcR' = "loop"
        /\ UNCHANGED <<queue, event, packets>>
     \/ /\ ~Full
        /\ pcR' = "abort"
        /\ UNCHANGED <<queue, event, packets>>
  /\ UNCHANGED <<streams, is_rtmp, stretch, opened, leftover, run, seek_req, abort, decoded,
                 handle, pcM, pcD, undefined>>

(* Mutant: a decoder that waits is not told.                               *)
AbortSilently ==
  /\ pcR = "abort"
  /\ abort' = [m \in Media |-> TRUE]
  /\ queue' = [m \in Media |-> <<>>]
  /\ pcR' = "joinVideo"
  /\ UNCHANGED <<source, run, seek_req, event, decoded, handle, pcM, pcD, undefined>>

(* The end: the queues are aborted and emptied, which wakes the decoders.  *)
Abort ==
  /\ pcR = "abort"
  /\ abort' = [m \in Media |-> TRUE]
  /\ queue' = [m \in Media |-> <<>>]
  /\ event' = [m \in Media |-> TRUE]
  /\ pcR' = "joinVideo"
  /\ UNCHANGED <<source, run, seek_req, decoded, handle, pcM, pcD, undefined>>

(* Mutant: the decoder is not waited for.                                  *)
JoinForgotten(m, l, next) ==
  /\ pcR = l
  /\ pcR' = next
  /\ UNCHANGED <<source, run, seek_req, pqueues, decoded, handle, pcM, pcD, undefined>>

(* The handles are set to NULL only by file_stream_init: when a file lacks *)
(* a stream that a former file had, a thread is joined a second time.      *)
Join(m, l, next) ==
  /\ pcR = l
  /\ handle[m] = "live" => pcD[m] = "off"
  /\ handle' = [handle EXCEPT ![m] = IF @ = "live" THEN "joined" ELSE @]
  /\ undefined' \in {FALSE, handle[m] = "joined"}
  /\ pcR' = next
  /\ UNCHANGED <<source, run, seek_req, pqueues, decoded, pcM, pcD>>

Reader ==
  \/ CreateDecoders \/ Loop \/ SeekVideo \/ ReadFrame
  \/ Abort \/ Join("video", "joinVideo", "joinAudio") \/ Join("audio", "joinAudio", "off")

-----------------------------------------------------------------------------
(* The decoders, audio_decoder_run and video_decoder_run.                  *)

(* Mutant: a full output queue does not stop its decoder.                  *)
HasRoomAlways(m) == m \in Media

Limit(m) == IF m = "audio" THEN MIN_AUDIO_BUFS ELSE MIN_FRAMES

HasRoom(m) == Len(outq[m]) < Limit(m) \/ is_rtmp

(* A decoder sleeps while its output queue is full.  What is left of an    *)
(* audio packet comes before the next packet.                              *)
DecoderLoop(m) ==
  /\ pcD[m] = "loop"
  /\ run => HasRoom(m)
  /\ pcD' = [pcD EXCEPT ![m] = CASE ~run -> "off"
                                 [] run /\ hand[m] # Flush_pkt -> "decode"
                                 [] run /\ hand[m] = Flush_pkt -> "get"]
  /\ UNCHANGED <<source, run, seek_req, pqueues, decoded, handle, pcM, pcR, undefined>>

(* packet_queue_get: an aborted queue ends the video decoder and sends the *)
(* audio decoder back to look at run.  The marker of a seek flushes the    *)
(* codec.                                                                  *)
Get(m) ==
  /\ pcD[m] = "get"
  /\ \/ /\ abort[m]
        /\ pcD' = [pcD EXCEPT ![m] = IF m = "video" THEN "off" ELSE "loop"]
        /\ UNCHANGED <<queue, hand, codec>>
     \/ /\ ~abort[m] /\ queue[m] = <<>>
        /\ pcD' = [pcD EXCEPT ![m] = "wait"]
        /\ UNCHANGED <<queue, hand, codec>>
     \/ /\ ~abort[m] /\ queue[m] # <<>>
        /\ queue' = [queue EXCEPT ![m] = Tail(@)]
        /\ hand' = [hand EXCEPT ![m] = Head(queue[m])]
        /\ IF Head(queue[m]) = Flush_pkt
           THEN /\ codec' = [codec EXCEPT ![m] = Flush_pkt]
                /\ pcD' = [pcD EXCEPT ![m] = IF m = "video" THEN "loop" ELSE "get"]
           ELSE /\ pcD' = [pcD EXCEPT ![m] = "decode"]
                /\ UNCHANGED codec
  /\ UNCHANGED <<source, run, seek_req, abort, event, outq, rest, handle, pcM, pcR, undefined>>

(* WIN_cond_wait, between its unlock and its lock.                         *)
Wait(m) ==
  /\ pcD[m] = "wait" /\ event[m]
  /\ event' = [event EXCEPT ![m] = FALSE]
  /\ pcD' = [pcD EXCEPT ![m] = "get"]
  /\ UNCHANGED <<source, run, seek_req, queue, abort, decoded, handle, pcM, pcR, undefined>>

(* A frame of audio completes any number of blocks (what is left of one    *)
(* begins the next), which all go to the output; a video frame is one.     *)
MostBlocks(m) == IF m = "audio" THEN MaxBlocks ELSE 1
Blocks(m) == IF m = "audio" THEN 0 .. MaxBlocks ELSE {1}

(* A packet gives a frame or none; video frames are dropped to keep to the *)
(* output's rate; an audio packet may have another frame.                  *)
Decode(m) ==
  /\ pcD[m] = "decode"
  /\ codec' = [codec EXCEPT ![m] = hand[m]]
  /\ \/ /\ \E n \in Blocks(m) : outq' = [outq EXCEPT ![m] = @ \o [i \in 1 .. n |-> hand[m]]]
        /\ \/ hand' = [hand EXCEPT ![m] = Flush_pkt] /\ rest' = (rest /\ m # "audio")
           \/ m = "audio" /\ ~rest /\ rest' = TRUE /\ UNCHANGED hand
        /\ pcD' = [pcD EXCEPT ![m] = "loop"]
     \/ /\ hand' = [hand EXCEPT ![m] = Flush_pkt]
        /\ rest' = (rest /\ m # "audio")
        /\ pcD' = [pcD EXCEPT ![m] = IF m = "video" THEN "loop" ELSE "get"]
        /\ UNCHANGED outq
  /\ UNCHANGED <<source, run, seek_req, pqueues, handle, pcM, pcR, undefined>>

Decoder(m) == DecoderLoop(m) \/ Get(m) \/ Wait(m) \/ Decode(m)

-----------------------------------------------------------------------------
(* The player filters, audio_player_process and video_player_process.      *)
Play(m) ==
  /\ outq[m] # <<>>
  /\ outq' = [outq EXCEPT ![m] = Tail(@)]
  /\ undefined' \in {FALSE, pcM = "flush"}
  /\ UNCHANGED <<source, run, seek_req, pqueues, hand, rest, codec, threads>>

-----------------------------------------------------------------------------
Init ==
  /\ streams = {} /\ is_rtmp = FALSE /\ run = FALSE /\ seek_req = FALSE
  /\ queue = [m \in Media |-> <<>>] /\ abort = [m \in Media |-> FALSE]
  /\ event = [m \in Media |-> FALSE] /\ outq = [m \in Media |-> <<>>]
  /\ hand = [m \in Media |-> Flush_pkt] /\ rest = FALSE /\ codec = [m \in Media |-> Flush_pkt]
  /\ handle = [m \in Media |-> "null"]
  /\ stretch = 0 /\ packets = 0 /\ opened = 0 /\ leftover = Flush_pkt
  /\ pcM = "idle" /\ pcR = "off" /\ pcD = [m \in Media |-> "off"]
  /\ undefined = FALSE

Next ==
  /\ ~undefined
  /\ \/ Application \/ InCall
     \/ Reader
     \/ \E m \in Media : Decoder(m) \/ Play(m)

(* The threads run, but for a reader whose stream does not answer.         *)
(* Whether the player filters do depends on what the application has       *)
(* attached.                                                               *)
Unanswered == pcR = "read" /\ is_rtmp /\ ~Full

Fairness ==
  /\ WF_vars(~undefined /\ InCall)
  /\ WF_vars(~undefined /\ ~Unanswered /\ Reader)
  /\ \A m \in Media : WF_vars(~undefined /\ Decoder(m))

Spec == Init /\ [][Next]_vars /\ Fairness

PlayersRun == \A m \in Media : WF_vars(~undefined /\ Play(m))

-----------------------------------------------------------------------------
ReaderLabels == {"off", "create", "loop", "seekVideo", "read",
  "abort", "joinVideo", "joinAudio"}
Stretches == 0 .. MaxStretch

(* Every variable holds a value of its kind.                               *)
TypeOK ==
  /\ streams \subseteq Media
  /\ {is_rtmp, run, seek_req, rest, undefined} \subseteq BOOLEAN
  /\ queue \in [Media -> Seq(Stretches)] /\ outq \in [Media -> Seq(Stretches)]
  /\ abort \in [Media -> BOOLEAN] /\ event \in [Media -> BOOLEAN]
  /\ hand \in [Media -> Stretches] /\ codec \in [Media -> Stretches]
  /\ handle \in [Media -> {"null", "live", "joined"}]
  /\ {stretch, opened, leftover} \subseteq Stretches /\ packets \in 0 .. MaxPackets
  /\ pcM \in {"idle", "stop", "join", "flush"}
  /\ pcR \in ReaderLabels
  /\ pcD \in [Media -> {"off", "loop", "get", "wait", "decode"}]

(* Threads work only on a file that is open and streams it has: the        *)
(* decoders are joined by the reader and the reader by the main thread     *)
(* before the codecs are closed.                                           *)
ThreadsHaveFile ==
  /\ pcR # "off" => run \/ pcM = "join"
  /\ run => streams # {} /\ pcM \in {"idle", "stop"}
  /\ streams = {} <=> pcM = "idle" /\ ~run
  /\ \A m \in Media : pcD[m] # "off" => m \in streams /\ handle[m] = "live"
  /\ pcR \in {"off", "create"} => \A m \in Media : pcD[m] = "off"
  /\ pcR = "joinAudio" => pcD["video"] = "off"

(* The stretch whose packets are put into a queue: a seek reaches video's  *)
(* after audio's.                                                          *)
Current(m) == IF pcR = "seekVideo" /\ m = "video" THEN stretch - 1 ELSE stretch

Marked(m) == queue[m] # <<>> /\ Head(queue[m]) = Flush_pkt

StretchesInOrder ==
  /\ opened <= stretch
  /\ pcR # "off" => 0 < opened
  /\ leftover < opened \/ leftover = Flush_pkt
  /\ pcR = "seekVideo" => seek_req /\ opened < stretch
  /\ seek_req /\ pcR # "seekVideo" => stretch < MaxStretch

(* A queue holds packets of the current stretch behind one mark at most.   *)
QueuesAreCurrent ==
  \A m \in Media :
    /\ m \notin streams \/ pcR \in {"off", "create", "joinVideo", "joinAudio"} => queue[m] = <<>>
    /\ \A i \in DOMAIN queue[m] : queue[m][i] = Current(m) \/ (i = 1 /\ queue[m][i] = Flush_pkt)

Working == {"create", "loop", "seekVideo", "read", "abort"}

(* What a decoder has in hand is of the current stretch unless the mark is *)
(* yet to come; the reader drops the mark with all else when it ends.       *)
HandsAreCurrent ==
  /\ \A m \in Media :
       /\ hand[m] \in {Flush_pkt, leftover} \/ (hand[m] >= opened /\ hand[m] <= stretch)
       /\ m \notin streams => codec[m] = Flush_pkt
       /\ streams # {} /\ m \notin streams => hand[m] \in {Flush_pkt, leftover}
       /\ ~Marked(m) /\ pcR \in Working => {hand[m], codec[m]} \subseteq {Flush_pkt, leftover, Current(m)}
       /\ hand[m] # Flush_pkt => codec[m] \in {Flush_pkt, leftover, hand[m]}
       /\ pcD[m] = "decode" => hand[m] # Flush_pkt
  /\ hand["video"] # Flush_pkt => hand["video"] >= opened /\ pcD["video"] = "decode"

OutputsAreCurrent ==
  \A m \in Media :
    /\ streams = {} => outq[m] = <<>>
    /\ ~is_rtmp => /\ Len(outq[m]) < Limit(m) + MostBlocks(m)
                   /\ pcD[m] \in {"get", "wait", "decode"} => Len(outq[m]) < Limit(m)

(* Whoever ends the playing aborts the queues first, a decoder runs until  *)
(* its queue is aborted, and one that waits has been told of whatever was  *)
(* put into its queue, and of the end, though it tests the queue and       *)
(* begins to wait in two steps.                                            *)
WakeUpsAreKept ==
  /\ pcM # "idle" \/ pcR \in {"joinVideo", "joinAudio"} => \A m \in Media : abort[m]
  /\ \A m \in streams : pcR \notin {"off", "create"} /\ ~abort[m] => pcD[m] # "off"
  /\ \A m \in Media :
       pcD[m] = "wait" /\ (queue[m] # <<>> \/ pcR \in {"joinVideo", "joinAudio"}) => event[m]

PlayerInv ==
  /\ TypeOK /\ ThreadsHaveFile /\ StretchesInOrder
  /\ QueuesAreCurrent /\ HandsAreCurrent /\ OutputsAreCurrent /\ WakeUpsAreKept

(* Nothing of a former file is queued or shown when another one plays:     *)
(* stopping waits for the decoders before it empties what they fill.  The  *)
(* exception is the rest of the audio packet that was being decoded, which *)
(* audio_pkt_temp keeps.                                                   *)
OnlyThisFile ==
  /\ \A m \in Media : \A p \in Range(queue[m]) : p = Flush_pkt \/ p >= opened
  /\ \A m \in Media : \A p \in Range(outq[m]) :
       p >= opened \/ (m = "audio" /\ p = leftover)

(* Packets from the two sides of a seek never meet in a codec that was not *)
(* flushed between them, though the reader does not wait for the decoders  *)
(* and may be asked to seek again before they have seen the mark.          *)
CodecsAreFlushed ==
  \A m \in Media : pcD[m] = "decode" => codec[m] \in {Flush_pkt, leftover, hand[m]}

(* Full queues stop whoever fills them, and nobody else: the output queues *)
(* of a file and the two packet queues together stay within their limits,  *)
(* audio's but for the blocks of one frame, after which the limit is not   *)
(* looked at again.                                                        *)
QueuesAreBounded ==
  /\ ~is_rtmp => /\ Len(outq["video"]) <= MIN_FRAMES
                 /\ Len(outq["audio"]) < MIN_AUDIO_BUFS + MaxBlocks
  /\ Size("audio") + Size("video") <= MAX_QUEUE_SIZE + 1

(* Stopping returns, wherever reader and decoders are: nobody misses the   *)
(* wake-up between testing an empty queue and waiting ("this is not very   *)
(* atomic ! bug here ?", asks port.c of WIN_cond_wait).  The exception is  *)
(* a reader that waits for a stream for ever.                              *)
StopReturns == pcM # "idle" ~> (pcM = "idle" \/ undefined \/ []Unanswered)

(* A seek that was asked for is carried out or refused while the reader    *)
(* goes on, even when all queues are full and nobody takes frames.         *)
Reading == pcR \in {"loop", "seekVideo", "read"} /\ ~is_rtmp
SeekIsServed == seek_req /\ Reading ~> ~seek_req \/ ~Reading \/ undefined

(* What was read comes out, as long as both player filters run: no decoder *)
(* sleeps on while there are packets or room, and neither medium blocks    *)
(* the other for good.                                                     *)
PacketsComeOut ==
  PlayersRun =>
    \A m \in Media : (queue[m] # <<>> \/ outq[m] # <<>>)
                       ~> (queue[m] = <<>> /\ outq[m] = <<>>) \/ undefined
=============================================================================
