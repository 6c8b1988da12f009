# Verification of the Sip-MCU conference

Sip-MCU is a SIP multipoint control unit: linphone and mediastreamer2 with a
conference added to the core (`src/build/libsipua3`), filters that carry media
between threads, and a video mixer.  This directory holds TLA+ models of the
parts that are the program's own logic, the TLC configurations that check them
and TLAPS proofs about them.

## The system

| Part | State it keeps | Operations | Talks to |
|---|---|---|---|
| MCU conference (`conference.c`, `conf_call.c`, `conf_device.c`, `confstream.c`) | ports with their flags, ITC filters and slot queues; members, local sound card, webcams; layout mode; mute flags; picture tee; recorder | new/start/stop, add/remove member, sound card, webcam, mute outputs, layout switch, record | call layer (hold, `user_pointer`, state), filters by `ms_filter_call_method` |
| ITC filters (`conf_itc.c`) | the queue each filter points at, mute flag; the queue and its lock | process (ticker threads), connect, mute (main thread) | ticker threads |
| Recorder (`file_writer.c`, `conf_stream_*_record`) | run and starting flags, two input queues, the writer thread, the open file | start, stop, the writer's loop | ITC sinks of the mixers |
| Video mixer (`video_mixer.c`, `mixer_layouts.c`) | input channels, layout regions, pin controller | mute/unmute input, layout switch, process | video ticker |
| Ticker (`msticker.c`) | execution list, lock, tick counter | attach, detach, destroy, the tick | every filter graph |
| Call control (`callbacks.c`, `linphonecall.c`, `linphonecore.c`) | the calls and their states, current call | invite, accept, pause, resume, terminate; SAL callbacks | SIP stack (SAL), streams, the conference |
| Event queue (`eventqueue.c`) | ring buffer of filter events | put (tickers), pump (main thread) | filters, core |
| Registration (`proxy.c`, `authentication.c`, REGISTER in `sal_eXosip2.c` and `callbacks.c`) | proxy configs, each with an op; passwords and how often they were used; lists of ops and of pending challenges; in eXosip the registrations with their last transaction | add, edit, done, remove; passwords; network up and down; commit and destroy from the iterated core; each event | eXosip's thread and its refreshes, the application |
| File player (`file_stream.c`, `msvideoplayer.c`) | run and seek flags, packet queues and output queues of audio and video, codecs, thread handles | open, start, seek, stop; reader and decoder loops; the player filters | reader and decoder threads, the tickers of the graphs that play |
| SIP adaptation of calls (`sal_eXosip2.c`), friends, presence, chat, configuration | ... | ... | eXosip2 |

### How the parts interact

The application (`src/VideoConference/VideoConferenceDlg.cpp`) calls
`linphone_core_iterate` from a 30 ms timer of its GUI thread and the conference
API from handlers of the same thread: the conference, the calls and the SIP
callbacks run on **one main thread**.  Media runs on **ticker threads**: one per
stream of each call, one for the audio mixer, one for the video mixer, one per
device.  The two worlds meet in the slot queues (each with a lock), in the ITC
filters' unprotected queue pointers and mute flags, and in the lock of each
ticker.  The recorder adds a writer thread, a file that plays as camera and
sound card a reader and two decoder threads.  eXosip has a thread of its own
that runs the SIP transactions and leaves events for the main thread.

### Hard behaviours

* any order of joins, leaves, hang-ups, device changes, layout switches, mutes
  and stops, each of which updates flags, filters and indexes in several places;
* calls terminated by the peer while they are in conferencing, which re-enters
  the conference from a SIP callback;
* connecting and disconnecting filters while ticker threads run them, without
  a lock;
* starting and stopping the recorder while mixers feed it;
* more calls than ports, a video-less call, a conference without video;
* events of the SIP stack that arrive late, early or in the middle of the
  handler of another event;
* a ring buffer shared by all ticker threads, of which only one counter is
  under a lock;
* a file that is sought in, ends or is replaced while its reader and decoders
  wait for full or empty queues;
* a registration that is edited, removed or refused while its former requests,
  refreshes and challenges are under way.

### What makes each part correct

| Part | Correct when |
|---|---|
| MCU conference | no port leaks or has two holders; what a member sends reaches its mixer input and nobody else's; mutes and the no-signal picture follow the ports; stopping leaves nothing behind; calls and conference agree on who is in |
| ITC filters | frames are neither lost, repeated nor reordered between two threads, and get through |
| Recorder | the writer thread never works on a closed file or a freed recorder; a recording has no gaps; stopping returns |
| Call control | the current call is never a freed one; a call in the conference can be taken out of it; the handler of a BYE finishes on the call it began with; an INVITE goes out once; no more calls than `NB_MAX_CALLS` |
| Event queue | each event gets its callback, once and in order (which the code sees to only while writes are orderly, below) |
| Ticker | only attached filters run, each once per tick and after those before it; loops run too; attaching, detaching and destroying return |
| Registration | an answer reaches the config it is about; no config that is to be registered is forgotten; the state shown is not older than the last answer; a wrong password is given up |
| File player | codecs, file and queues are closed after the threads; nothing of another file, and no packets from both sides of a seek, meet in a codec; queues stay bounded; stopping and seeking come to their end, as far as reads do |
| Video mixer | pictures are in the regions of the layout in use, scaled for them; two parties never see themselves; every output gets frames; old pictures go |

## Modules and the code they model

`PROJECT.json` ("map") names the lines of each definition.

**`Conference.tla`** (`libsipua3`, with the picture tee of `tee.c`).  One call of
the conference API is one action, because all of them run on the main thread:
`Start`, `Stop`, `AddMember`, `RemoveMember`, `AddSndCard`, `RemoveSndCard`,
`AddWebcam`, `RemoveWebcam`, `RemoveAllWebcams`, `MuteOutput`,
`MuteAllOutputs`, `EnableAutoLayout`.  Of a call it has what the conference asks
of it: its state, its `user_pointer` and, for each medium, whether its stream runs
and with what filters at its ends (`stream`: none, its own, or the ITC filters that
joining put there).  `CallStreamsRunning`, `CallUpdated`, `CallPaused` and
`CallTerminated` stand for the call layer.
A *slot* is a port of a medium.  `port` has its three flags, `portSource` and
`portSink` the queues its two ITC filters point at, `endSource` and `endSink` the
same for the filters in the parties' graphs, `index` the port numbers that
members and devices keep.  `Plug` and `Unplug` are the connect and disconnect
functions of `confstream.c`, with the tee and the mutes they touch.

A peer may change the session of a member by a re-INVITE: `CallUpdated` stops its
streams and starts others (`callbacks.c:36`), the call is `InConferencing` as before and
the conference is not told.  Taking such a member out goes one of two ways.  If
its streams run again, their ends are filters of another kind, and the check in
`ms_filter_call_method` ends the program: `Misfit` and `Abort`, after which nothing
happens (`aborted`).  If they do not run, disconnecting returns early and the
port stays in use: the slot is `lost` until the conference stops.  Left out are
descriptions with video and no audio, and the streams of a held call, which gets
new ones when it is resumed.

It is assumed that a member's call stays `InConferencing` until it is removed
or hung up: the state that `call_updating` shows meanwhile is put back by the same handler.  `CallControl.tla` shows the two ways out of that assumption, a call
that fails and an answer to a re-INVITE that was sent before joining, with run
`call_members`.

**`PortPool.tla`** promises what the ports are for: a bounded pool, from which a
party takes the lowest free number and to which parties, all local webcams together,
give back their own, or one fails to (`Lose`).

**`ConfItc.tla`** (`conf_itc.c`).  Here threads interleave: a sink per party that
uses the port in turn, each run by its own ticker thread, and the source run by
the mixer's.  A process call is cut at each access of shared state: testing the
pointer, taking the lock, the load and the store of the list, leaving the lock.
The main thread connects, disconnects and mutes at any point.  A thread that
dereferences the pointer after it was set to NULL ends the program (`crashed`).
**`FrameChannel.tla`** is what the queue promises: a FIFO channel.

**`Recorder.tla`** (`file_writer.c` and the record functions of `confstream.c`).
Three threads: the main thread in `StartRecord` and `StopRecord`, cut at each
step the writer can observe; the writer thread's loop; the mixers that put
frames into the two input queues through the record sinks.  A frame *taken*
stands for one that is encoded, repeated or dropped by the synchroniser.

**`CallControl.tla`** (`callbacks.c`, `linphonecall.c`, `linphonecore.c`,
`conf_call.c`, and of `sal_eXosip2.c` when its events come).  One handler is one
action, with one exception: `call_terminated` calls `linphone_core_iterate` in
its middle, so it is split, and `ending` is the stack of BYEs whose handlers
have not finished.  A media description is the direction that
`sal_media_description_has_dir` finds in it.  Simplifications, each of which
leaves behaviour out: the address of a freed call is not used again while a
member of the conference still points at it; `linphone_core_update_call` is
called on running calls only, as its comment asks; calls that are accepted are
incoming ones.  A hold may fail at any time, since the dialog may have been
closed by eXosip's thread before its event is read; while our own re-INVITE is
open eXosip answers 491 to the peer's.

**`EventQueue.tla`** (`eventqueue.c`).  `Notify`, `Wrap`, `Fill` and `Account` are
the steps of `write_event` by a ticker thread, `Callback`, `Step` and `Release`
those of `read_event`.  The ring's cells are units of the event sizes rather
than bytes; a cell knows the event it belongs to and its place in it, so that
reading from a wrong place yields `Garbage`.  The code leaves three holes: two
tickers may write at the same time (`eventqueue.c:57`), a lap that ends short of the end
leaves room that `freeroom` does not know to be gone, and `endptr` stays there for the
laps after it.  The history variable `orderly` says that none of this has happened:
each write began while no other ticker was writing, with an event that fits
before the end or with the writer at the end.  What is claimed of the queue is
claimed as long as `orderly` holds; it holds for the whole of the first 8192 bytes of
events of any sizes, written one at a time, and for ever when they are of one
size that divides 8192.  `upto`, also a history variable, adds up the sizes.

**`VideoMixer.tla`** (`video_mixer.c`, `mixer_layouts.c`).  `Process` is the whole of
`mixer_process`, which runs under the mixer's lock; `Tick` lets time pass and
pictures arrive, and `call_process` of `msticker.c` runs the filter again while
queues are not empty.  `Relayout`, `TwoParties` and `Composition` are its three
parts.  Of a picture only whose it is and the width it was scaled to are kept.

**`MSTicker.tla`** (`msticker.c`, the graph part of `msfilter.c`,
`video_stream_change_decoder`).  `Ticker` holds the steps of the ticker's thread and
`Main` those of the main thread; a call of the main thread is cut where it
takes or leaves the ticker's lock.  The recursion of `run_graph` is the sequence
`todo` of the calls still to be made.  `Graphs` are the sets of links that the application
makes before it attaches them; filters that run get no new neighbours, with one
exception: a stream that receives another payload type replaces its decoder
from inside the walk (`RunAndChangeDecoder`).  `TickerAssumption` says what the code
does of them: the receiver's only link goes to a decoder, and decoders, one of which takes the
place of another, are linked alike.  The count of ticks wraps to 0 as a `uint32_t` does,
and 0 is also what preparing a filter sets `last_tick` to: in the tick counted 0 a filter
that is new since the tick before (`Fresh`) passes for one that has run.  The properties
except these filters, and those they keep from running (`Missing`).  The order in which filters are
prepared does not matter, that of the sources is left open.

**`FilePlayer.tla`** (`file_stream.c`, the filters of `msvideoplayer.c`, and the
conditions of oRTP's Windows port).  `Application` is the main thread: open and start,
seek, stop (cut where it joins the reader), renew.  `Reader` and `Decoder(m)` are the threads, cut where
they take a lock, wait or test a shared flag; `Play(m)` is a player filter, which
outlives the file.  A read of the
reader may not come back (`Unanswered`), because `decode_interrupt_cb` never asks for
an end.  Decoding an audio packet moves between none and `MaxBlocks` blocks of 10 ms into the
output queue, after one look at its limit.  A condition of the Windows port is an auto-reset event:
`Wait` leaves the lock before it waits, and a signal with nobody waiting is
kept for the next one.  A packet is the *stretch* of reading it belongs to: every
opening and every seek carried out begins a new one, which is all that the
properties tell apart.  `leftover` marks the rest of an audio packet that
`audio_pkt_temp` still holds when the next file is opened.  `undefined` is set when
a stale thread handle is joined twice, or the output queues are flushed without
their locks while a filter takes a frame; the model says nothing of what follows.

**`Registration.tla`** (`proxy.c`, `authentication.c`, of `sal_eXosip2.c` and `callbacks.c` what
concerns a REGISTER, and of eXosip `eXosip_register_send_register`, the retries
and the automatic refresh).  Each commit gives a config `c` a new op, `<<c, n>>`, which
also stands for its registration in eXosip: eXosip is not told when an op is
released and goes on refreshing.  Of a transaction that is over only
whether it was accepted is kept.  `sal->pending_auths`, in which an op may be
entered twice, is a count for each op, and its order is left open.  `undefined`
is set where `linphone_core_add_auth_info` reads on in an entry it has freed, or reads
an entry whose op has been freed or has no challenge.  Simplifications: the
application has one listed config of an account at a time, the address of a freed
op is not used again, a request can always be built (when it cannot, `sal_register` leaves
the config in Progress with nothing under way).  Whether a challenge names a realm is
kept ("bare" if not), since `get_auth_data` then finds nothing and the handler returns in silence.

`MC*.tla` add symmetry sets or model values where a run needs them; `EventQueue`
and `VideoMixer` are run as they are.  `*Proofs.tla` hold the theorems.

## Runs

| Run | Expected | Shows |
|---|---|---|
| `conference` | pass | two calls, a webcam and the sound card compete for two ports of each medium, in every order, with starts, stops, mutes, layout switches and restarted streams: wiring, flags, picture and mutes stay consistent (`LinesAreRight`), and the ports of each medium implement `PortPool` |
| `conference_restart` | violation | a member whose streams its peer restarted is taken out |
| `itc` | pass | two sinks in turn and one source, two frames each, connected, cut off and muted at any point: FIFO, mutual exclusion, progress |
| `recorder` | pass | starts, restarts with or without success, stops, with up to three frames of each medium |
| `call_control` | pass | three parties on a core with room for two calls, with early media: every request, SIP event, ping reply, timer, transfer and nested iteration, with refusals at the limit |
| `call_members` | violation | a member's call that is freed |
| `event_queue` | pass | two tickers, two sizes of event, more than one lap of the ring: while writes are orderly callbacks match events, the ring is a `FrameChannel` and events are delivered |
| `event_queue_mixed` | violation | two sizes of event |
| `video_mixer` | pass | three inputs that come, go, resize and are muted: layout, own picture, scaling, flow of frames, fading of old pictures |
| `ticker` | pass | four graphs over seven filters, with a join, a loop and a decoder to replace, linked, attached, moved, detached and destroyed while the ticker walks |
| `file_player` | pass | a file or stream is opened, sought in, stopped and followed by another while the reader, two decoders and two player filters run; a stream may stop answering its reader |
| `registration` | pass | one account whose config is added, edited, removed and committed again, with the network, the password and the registrar's answers changing at any point, challenges without a realm and moved contacts without a limit among them |

### Bounds

* `conference`: two calls and two ports are enough for every relation the
  properties speak of: two holders of one port, a port that changes hands, a
  freed port below one in use, no port left for a third party (the card or the
  webcam).  `MaxVideoLayout` and `TeeOutputs` have their values in the code.
  `Bounds` keeps restarts and mutes apart: one member with restarted streams or one lost
  port number at a time, and mutes in fixed layout and without restarts only.  No
  action reads a mute together with the layout, `stream` or `lost`, so nothing hangs on
  their combinations; all six properties of the run are theorems, without any bound.
* `itc`: two sinks in turn, each with two frames, so that an old party's frame
  can be in the queue, in hand or on its way when the next one connects.
* `recorder`: `MaxFrames` = 3 per medium: one taken, one buffered, one queued.
* `call_control`: two of the three calls are enough for a current call and
  another; the third is the one that is refused.  `MaxMembers` bounds how often
  one address is a member.
* `event_queue`: four events of sizes 1 and 2 fill a ring of three units and go round it
  more than once, by two tickers in every order; `event_queue_mixed` has sizes 1 and 2 in a ring of 4 for events of 16
  and 32 bytes in 8192.
* `video_mixer`: three inputs reach the single picture, both frames of two
  parties and a composition.  One tick of time-out stands for 5000 ms, counts up
  to 2 for 20, a lead of 1 for 3.
* `ticker`: one receiver whose decoder is replaced, one source, a join of both, a
  loop behind it and an output make every way of being put off; with `MaxTicks` = 2 the
  count is 0, 1 and 2, the least in which a count that comes round could be mistaken,
  and comes to 0 again and again.

* `file_player`: `MaxStretch` = 2 gives two files or a file and a seek, two packets of
  each; the limits `MIN_FRAMES` = 1, `MIN_AUDIO_BUFS` = 1, `MIN_QUEUE` = 0 and `MAX_QUEUE_SIZE` = 0 make full queues frequent.
  `MaxBlocks` = 2 lets one packet complete none, one or two blocks; how many a packet may
  complete depends on codec and rates, and the theorems hold for any number.
  The safety properties were also checked with three stretches and with
  `MAX_QUEUE_SIZE` = 1, in instances too large to be kept as runs.
* `registration`: `MaxOps` = 2 so that answers to a former op come, `MaxRetry` = 2 rather than
  3, two changes of password, one event between two
  iterations.  How often the contact moves is not bounded.  Two configs that take turns at one account were also checked for
  safety (10.8 million states), and a longer queue of events and more changes in part.
  How these work together for any number is what the proofs are for.

`CHECK_DEADLOCK FALSE` appears where the system may stop: the frames or events
of a bound are used up, a thread has crashed, the program has aborted (`Conference`), or
nobody calls.

### Fairness

* `ConfItc`: each ticker thread goes on with a process call (weak fairness of
  each thread); nothing makes a party send.  The lock is not assumed to be fair
  beyond that.
* `Recorder`: the main thread's calls, once begun, and the writer thread go on.
  A recording that stops ends whatever the mixers do, since its sinks are cut first
  (`EveryJoinEnds`).  That a *restart* ends relies on finitely many frames meanwhile:
  the sinks stay connected, `av_read_buffer` reads as long as frames arrive, and only a
  writer that is faster than the mixers comes to the end.
* `CallControl`: the application's timer iterates the core for ever, hence
  `WF(StartDeferred(c))`.  Peers, users and networks owe nothing.
* `EventQueue`: the core is iterated for ever; a begun write goes on.  `EventsAreDelivered`
  ends where writes are no longer orderly.
* `MSTicker`: the thread runs for ever.  It sleeps without the lock between
  ticks, so that a call that waits for the lock gets it though the thread takes
  it again and again: strong fairness of the steps in a call.
* `FilePlayer`: a call of the main thread, once begun, the reader and each decoder
  go on (weak fairness of each), but for a reader that waits for a stream: nothing
  makes `av_read_frame` return there (`Unanswered`).  That the player filters run is assumed only
  inside `PacketsComeOut`, for which it is needed: with nothing playing, full queues
  are right to stay full.
* `Registration`: the core is iterated for ever, eXosip's transactions end at the
  latest by their time-out, and time passes until the next refresh.  Nothing is
  assumed of the registrar or the user: one that shows another contact with every answer, or
  challenges without a realm each time it is asked, keeps a config in Progress for ever, and
  `RegistrationConcludes` names both (`HeldUp`).
* `VideoMixer`: the ticker thread runs for ever.  `EveryOutputGetsFrames` is
  conditional on input 0 delivering, which is what the no-signal picture is
  for: by `PictureFillsIdleRegions` of `Conference` the picture is at input 0 whenever
  port 0 is idle.

## Proofs

Every theorem is about the specification of its module (`Spec`, of the ticker
`TickerSpec`) and every value of the constants
that the module's named assumption admits.

| Module | Inductive invariant | Why it is needed |
|---|---|---|
| `ConferenceProofs` | `ConferenceInv`: types, at most one holder per port, flags and filters as the holders' indexes say unless the streams were restarted, lost ports are nobody's, only those present hold; with it, `PictureInv` (every input of the tee is muted as the port and the layout say) and the mutes | `NoCrossedLines` and `MembersTalkAndListen` speak of filters at two ends; an unplug is only right if nobody else holds the port |
| `ConfItcProofs` | `ItcInv`: a thread between lock and unlock owns the lock, what it loaded is still the list, a frame in hand is the head | without it the store of one thread could undo the other's |
| `RecorderProofs` | `RecorderInv`: what each place in the main thread's calls has done to the file, the writer and the sinks; with it, `GapInv`: where the writer can be, that it flushes only while nothing is buffered, and that the frames of a connected sink end with the last one produced | `WriterHasFile` depends on the order of join and close; a frame put behind a queue continues it only if nothing was lost before |
| `CallControlProofs` | `CallControlInv`: listed calls are under way, the current call is listed and in a state that may be current, a call in conferencing has a member, BYEs under way hold different calls | each event reads three of these variables |
| `EventQueueProofs` | `RingInv`: while writes are orderly, `Sound`: the positions of reader and writer follow from the sizes, added up, of the events each has handled, the events between them lie whole, one behind the other, and only one ticker writes | the ring's indexes and `freeroom` are only right relative to these sums.  Assumes of the constants only that an event has a size and fits into the ring; `orderly` cannot be dropped (`event_queue_mixed`, and the two tickers below) |
| `FilePlayerProofs` | `PlayerInv`: where each thread can be while the main thread is at each of its places, which codecs and queues are then open, empty or marked; with `WakeUpsAreKept`, that a decoder which waits has its event set whenever its queue has packets or it is to end | what a queue may hold after a stop or a seek depends on which threads have been joined; a decoder that missed its signal would be joined for ever.  Assumes `MIN_FRAMES` > 0, which is 5 in the code: with 0 no decoder would ever start.  Audio's output queue is bounded by `MIN_AUDIO_BUFS` and the blocks of one packet together |
| `RegistrationProofs` | `RegistrationInv`: ops that the SAL finds are those of listed or deleted configs, challenges are listed, eXosip has one registration of an account; with `EventsTellLast`, that the last waiting event of an op tells whether its last request was accepted | an answer is looked up by op, and what is shown follows events that lag behind eXosip |
| `TickerProofs`, the ticker | `TickerIInv`: there is a set of attached filters, closed under the links, whose sources are exactly the list; only what the sources lead to is marked; in a tick a filter is marked when it has run, whatever follows one that ran is still to be come to, a decoder is not come to before its receiver ran, what is put off waits for one that has not run, what is forced is in or behind a loop | the set of attached filters is not `scheduled` while the main thread prepares or finishes some of them, and a decoder can be replaced in the middle of a walk only because the walk has not come to it.  In the tick counted 0 what is new is marked without having run, and so is left out of "marked when it has run" |
| `TickerProofs`, the mixer | `MixerInv`: regions in use equal the active inputs, two parties' frames are apart, scalers fit the number of regions | a scaler's width is only known through the region its input had |

Refinements proved: a slot queue and the event ring each implement
`FrameChannel` (`ItcQueueIsChannel`, `EventQueueImplementsChannel`), and the ports of
each medium implement `PortPool` (`ConferencePortsArePools`: under `ConferenceInv` the
holder of a port is the one party with its number, so each action is a step of both
pools or none).  Action properties proved: `ByeIsUndisturbed`, `InvitedOnce`, `SinksAreCut`, `CodecsAreFlushed`,
`RunsOncePerTick` and `UpstreamFirst` of the ticker,
`PictureFitsItsRegion` (with up to five inputs, where all regions of a layout
are of one size).

Proved but not run on their own, being parts or consequences of invariants
that are run: `UsedPortsAreHeld`, `NoCrossedLines`, `MembersTalkAndListen` (together
`LinesAreRight`), `MembershipAgrees`, `CurrentCallIsLive`, `InConferencingHasMember`, `CallsFit`,
`CallbacksMatchEvents`, `FramesInOrder`, `WriterHasFile`, `DrawsInLayout`.

`TickerProofs` holds the theorems about the two modules that the ticker's thread runs: the
graph it walks and the mixer, the filter at which all parties' graphs meet.

Only model-checked: all liveness (out of the prover's reach).  Of each property that leads
from one state to another the part that needs no fairness is proved, as a variant that
the threads' own steps lower and nobody raises, or as an invariant by which somebody can go
on.  These formulas stand with their theorems in the proof modules, and TLC agreed with
each one on the runs' instances before it was proved.  What is left to TLC is that a
thread which can go on does, and gets the lock.

| Property TLC checks | What is proved of it |
|---|---|
| `FramesGetThrough` | `SourceTakesAll`: the source ends its call only when the list is empty as it then is; `LockComesBack`: whoever has the lock gives it back within three steps; `SinkCallsEnd` |
| `RecordCallsReturn` | `WriterEnds` (`EveryJoinEnds`): what the joined writer has left to do falls with each of its steps; in a stop no frame adds to it, in a restart those to come are counted |
| `EventsAreDelivered` | `NothingIsLeft`: what has no callback yet is available to the reader or about to be; and the ring empties |
| `CallsReturn` of the ticker | `WalkEnds`: filters that have not run, then rounds of forcing, then calls still to be made, in graphs with loops too |
| `StopReturns`, `PacketsComeOut` | `StopEnds`: the places left for reader and decoders, wherever a stop finds them; `NobodyIsStuck`: no decoder sleeps over packets, no reader finds all queues full and empty |
| `SeekIsServed` | `SeekComesNext`: the reader is at the seek within three of its steps |
| `RegistrationConcludes` | `TriesAreCounted`: a password that was never accepted is used `MaxRetry` times at most, over all ops and challenges of its account |
| `EveryOutputGetsFrames` | `InputZeroCatchesUp`: with the leading input silent, each picture of input 0 lowers its lead until all outputs are served |
| `GonePicturesFade` | `EachAtItsPlace`: pictures are drawn in their inputs' own regions, which cover the layout |

`DeferredCallStarts` is left to TLC altogether: a call in `OutgoingInit` is listed
(`ListedIsUnderWay`), which is all that `StartDeferred` asks.

`LateAnswersAreIgnored` of `RegistrationProofs` is a further action property, checked in the
same way and proved: a config changes to registered, cleared or failed only on an event of
the op it holds.  `TriesAreCounted` says "until passwords are changed" for a reason: entering
the password of one account has a waiting request of another signed again, however often
that one's password was tried (`linphone_core_add_auth_info` does not look at `usecount`).

## Disagreements between code and documents

Shown by a run, quoted in `PROJECT.json`:

* `conference_restart`: a method is called on a filter that has not got it, which the type
  check of `ms_filter_call_method` is there to exclude; it aborts the MCU.
* `call_members`: members keep pointers to calls without a reference.
* `event_queue_mixed`: a stale `endptr` lets the reader miss the wrap.

Met while modelling, with the formula that fails on the models here, but not
kept as runs:

* `Conference`: `Cardinality(members) <= MaxUsers`.  With no port free a call joins all the
  same, silent and deaf, and `LinphoneConferenceFull` is never raised: `add_mb`
  (`conf_call.c:43`) expects -1 where the connect returns -2 (`confstream.c:274`), while
  `max_users` is the number of participants (`conf_private.h:46`).
* `Registration`: a config in `registered` whose last request was refused.  A refresh that
  fails leaves `registered` TRUE, while `linphone_proxy_config_is_registered` says "sucessfully
  registered" (`proxy.c:79`), and an application that asks it will not register again.
* `Registration`: `~undefined`.  A second challenge enters an op twice in `pending_auths`; the
  entry that stays is read by the next `linphone_core_add_auth_info`, whose walk also
  reads on in the entry that `sal_op_authenticate` frees (`authentication.c:258` and `270`).
* `Registration`: after a new password every waiting op is tried.  The walk ends after the
  first one, though its comment says "retry pending authentication operations"
  (`authentication.c:257`).
* `Registration`: the registration of a removed config ends.  Its unREGISTER ("this will
  unREGISTER", `proxy.c:525`) is thrown away when another request is in flight
  (`eXregister_api.c:313`), and eXosip goes on refreshing; an answer to it that shows
  another contact registers again as well (`sal_eXosip2.c:1566`).
* `Registration`: a refused registration is reported.  A challenge without a realm is dropped
  without a word (`sal_eXosip2.c:1115` and `1123`): a config shown as registered stays so,
  one in Progress stays in Progress, though the states have `LinphoneRegistrationFailed` to tell
  it (`linphonecore.h:303`).  `OkIsCurrent` excepts it.
* `Registration`: `RegistrationConcludes` without `HeldUp`.  A contact that moves with every answer is
  sent again without a limit (`register_again_with_updated_contact`, `sal_eXosip2.c:1501`).
* `FilePlayer`: `StopReturns` without its exception.  A stream whose server falls silent keeps
  the main thread in the join of `file_stream_stop`: `decode_interrupt_cb` always returns
  FALSE (`file_stream.c:352`), while the comment at its use says "will interrupt blocking
  functions if we quit!" (`file_stream.c:1004`).
* `FilePlayer`: `Len(outq["audio"]) <= MIN_AUDIO_BUFS`.  The limit is tested once a packet
  (`file_stream.c:527`), then all complete blocks of 10 ms are put into the queue (`568`); the
  first of them after a seek may begin with what was left of the packet before it.
* `MSTicker`: every attached filter runs in every tick.  A filter that is prepared, or
  a decoder that takes another's place, just before the tick counted 0 misses that
  tick, with what only it leads to (`msfilter.c:259` and `msticker.c:339`): after 2^32
  ticks of 10 ms, 497 days.
* `FilePlayer`: every seek asked for is carried out.  One that is asked for while
  another is pending replaces it, and one still pending when the file is stopped is carried out in the next file.
* `ConfItc`: `~crashed`.  A filter's thread tests `conf_slot_q` once
  (`conf_itc.c:49`) and dereferences it again after the main thread has set it
  to NULL.
* `CallControl`: `\A c \in calls : state[c] = "StreamsRunning" => current_call # NoCall`.  A call we
  hold and the peer resumes runs without being current, while
  `linphone_core_in_call` "Returns TRUE if there is a call running"
  (`linphonecore.c:2533`).
* `CallControl`: after accepting, no other call is `StreamsRunning`.  The loop of
  `linphone_core_accept_call` looks for `InConferencing` calls only; the comment
  says "can accept a new call only if others are on hold" (`linphonecore.c:2392`).
* `CallControl`: `\A c \in Calls : state[c] \in Incoming ~> state[c] \notin Incoming`.  The time-out
  of incoming calls is commented out in `linphone_core_iterate`, while
  `linphone_core_set_inc_timeout` promises it (`linphonecore.c:2660`).
* `EventQueue` with two tickers: `CallbacksMatchEvents` when writes overlap.  `wptr` is shared by the
  tickers without a lock (`eventqueue.c:57`): two events are written to one place.
* `VideoMixer` with seven inputs, six of them active: `PictureFitsItsRegion`.  Scalers are
  reset when the number of active inputs changes (`video_mixer.c:246`).  When one comes as
  another leaves, those between move to other regions with their old scalers, and
  the layout for six is the one whose regions differ in size: a picture is drawn off
  its centre, while `mixer_layouts.c:7` calls the coordinates "center of the video input".
* `VideoMixer`: `[][Process => queue' = {}]_vars`.  With two active inputs other than 0
  one picture stays, and `call_process` warns that all data should be consumed.

Read in the code, outside the models: connecting the sound card does not apply
the port's mute (`conf_device.c:87`); a restarted recorder keeps the frames of
the previous recording (`confstream.c:764`); some functions of a conference
without video dereference its video ports (`conference.c:394`,
`confstream.c:597` and `784`); slot queues have no limit; each recording leaks its recorder
(`confstream.c:803`); a call that the peer answers on hold becomes Paused as if we held
it (`callbacks.c:303`), and one whose hold could not be sent stays Pausing (`linphonecore.c:2566`).  In the player:
`packet_read_mutex` is unlocked by a thread that does not hold it; after a read error
`run` stays TRUE; with only one of the two players attached the other medium
fills the packet queues and both starve; output queues are not flushed by a
seek, and have no limit for RTMP.  In the registration: `r_retry` is reset by an
accepted request only, so that after three refusals a corrected password is
never sent for that op (`eXosip.c:438`); a password that once worked is tried for
ever after the registrar's was changed, and nothing is reported (`callbacks.c:519`).

## Not modelled

See "components" in `PROJECT.json`.  In short: offer and answer, the translation of
the SIP events of calls, presence and chat, the building of streams, codecs, user
interfaces and vendored code, which is nearly all of the repository's lines
(libsqlite3, librtmp, eXosip, osip, codecs and their wrappers).
Left out of modelled parts: changing the frame size of a running mixer
(`mixer_set_vsize`; the conference does it before the ticker starts), file
playing into the conference, ring tones, encoding and the synchroniser; of the
player, clocks and rates (which video frames are dropped is left open) and the
display of a `VideoPlayer`; of the registration, publishing, SIP set-up plugins and the
authentication of requests other than REGISTER.

## Plan

Done: `Conference` and `PortPool`, `ConfItc` and `FrameChannel`, `Recorder`, `CallControl`,
`EventQueue`, `VideoMixer`, `MSTicker`, `FilePlayer`, `Registration`, in this order, each with its runs and its first theorems.

Next, in this order:

1. `SalEvents.tla` (`sal_eXosip2.c`): from eXosip's events to the callbacks, with
   the dialogs' and transactions' identifiers; `CallControl`'s assumptions about
   when events come become its properties.
2. `OfferAnswer.tla` (`offeranswer.c`): matching of payloads and directions as pure
   operators, against what an answer must satisfy; TLC only where recursive.
3. `MCU.tla`: `Conference` with `CallControl`, so that the calls' part of the former
   is the latter's; streams and the event queue: filters are destroyed with events of
   theirs in the queue, which calls through their pointers (`eventqueue.c:77`).  Then
   `Conference` with `VideoMixer`: the picture at input 0.
4. The recorder's synchroniser (`write_video_frame`); a `VideoPlayer`'s own graph.
5. Proofs: the theorems of the new modules, with the variants of their calls that must return.
