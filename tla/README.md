# mpeg4ip: models of the player and the live server

mpeg4ip is a set of tools for streaming MPEG audio and video: a player
(`player/src`, with its own RTSP client in `player/lib/rtsp`), a live encoder
(`server/mp4live`), libraries for RTP, SDP, MP4 files and transport streams
(`lib/`), and a number of codecs, most of them vendored. What is hard about the
code is not in the codecs. It is in the threads around them: a decode thread per
media, one sync thread per session, an audio callback, a receive thread per
network stream, the thread of the user interface, and in the server a thread
per source, encoder and sink. They share rings, flags, semaphores and message
queues, often without a lock. This directory models those parts in TLA+,
model-checks them with TLC and proves the main invariants with TLAPS.

Paths below are relative to `src/`; `P/` stands for `player/src/` and `S/` for
`server/mp4live/`.

## 1. Inventory

| component | state | operations | who calls | hard behaviour |
|---|---|---|---|---|
| **Timed sync ring** `P/timed_sync.cpp`, `P/sync.h`, `P/video_sdl_sync.cpp`, `P/text.cpp` | `m_buffer_filled`, `m_play_this_at`, `m_fill_index`, `m_play_index`, `m_decode_waiting`, `m_dont_fill`, `m_eof` | `have_buffer_to_fill`, `set_video_frame`, `get_video_buffer`/`filled_video_buffers`, `have_frame`, `play_at`, `is_ready`, `flush_sync_buffers`, `flush_decode_buffers` | decode thread fills, sync thread plays, both flush | two threads, no lock; a sleeping decoder; one semaphore for three purposes |
| **Decode thread** `P/player_media_decode.cpp` | message queue, `decoding`, byte stream position | messages START, PAUSE, STOP; one frame per turn | controller sends, byte stream primes | sleeps in three places on one semaphore; flushes the ring of the sync thread |
| **Sync thread** `P/sync.cpp` | the `SYNC_STATE_*`, session clock, `m_sync_pause_done`, `m_session_state` | ten state handlers, `process_msg_queue` | controller sends, audio callback wakes | drains its queue; waits for readiness of others; ends the session |
| **Session and media control** `P/player_session.cpp`, `P/player_media.cpp` | `m_paused`, media list | `play_all_media`, `pause_all_media`, `do_play`, `do_pause`, seek | user interface, main loop | spins on an acknowledgement; orders messages to several threads |
| **Audio buffer** `P/audio_buffer.cpp`, `P/audio_sdl.cpp` | sample ring, fill and play offsets, resync offset, `m_audio_waiting_buffer` | `load_audio_buffer`, `audio_buffer_callback`, `check_audio_sync`, flushes | decode thread, SDL callback, sync thread | three threads; wrap of the offsets; resync in the middle of a buffer |
| **RTP byte stream** `P/rtp_bytestream.cpp`, `P/player_media_rtp.cpp` | doubly linked packet queue, wrap counters, buffering state | add, insert out of order, take frame, flush, time stamp to msec | receive thread adds, decode thread takes, both flush | 16 and 32 bit wraps; lost and reordered packets; lost wake-up |
| **RTSP client** `player/lib/rtsp` | response buffer, parse state, one outstanding command | send and receive, interleaved RTP, callbacks in the thread | controller | blocking commands across threads; TCP splits data anywhere |
| **MPEG-2 TS thread** `P/mpeg2t_thread.cpp` | demultiplexer, program list | as the receive thread | | as the receive thread |
| **File byte streams** `P/mp4_bytestream.cpp`, `P/avi_bytestream.cpp`, ... | file position, frame | read next frame, seek | decode thread, seek by the controller | a seek from another thread |
| **Media flow** `S/media_flow.cpp`, `S/media_feeder.cpp`, `S/media_sink.h`, `S/media_node.h`, `S/media_frame.h` | sink lists, message queues, reference counts | forward a frame, add and remove sinks, start, stop, join | each node's thread, the controller | reference counts over threads; shutdown order; messages left in a queue |
| **RTP transmitter, MP4 recorder** `S/rtp_transmitter.cpp`, `S/file_mp4_recorder.cpp` | destination list, queue of audio frames, previous frame of each track | send, bundle, write, stop | their own threads | keep references across messages; last frame on stop |
| user interface, configuration, SDP, codecs, container libraries | | | | sequential, or pure computation |

How the player's threads interact:

```
 controller --MSG_PAUSE/START--> decode thread --frames--> ring --play_at--> sync thread --> screen
     |                             ^   sleeps on m_decode_thread_sem           |  ^
     |                             +--------- notify_decode_thread ------------+  |
     +---------------- MSG_PAUSE_SESSION / MSG_START_SESSION ---------------------+
     <---------------- m_sync_pause_done, MSG_SESSION_FINISHED -------------------+
```

What makes each component correct:

* ring: a FIFO of frames whatever the interleaving; no slot is overwritten
  before it is played; the screen gets the newest due frame; a sleeping decoder
  is woken when there is room.
* decode thread: every message is handled; its ring is empty and open when it
  starts to decode.
* sync thread and control: a pause is acknowledged; nothing from before a seek is
  played after it; a stream that was delivered is played to its end.
* audio buffer: samples are played once and in order; fill and play offsets never
  cross; decoder and callback wake each other.
* RTP byte stream: packets leave the queue in sequence order across the wrap;
  time never runs back by a wrap; no packet is used after it was freed.
* media flow: a frame lives exactly as long as somebody refers to it; every thread
  can be joined; nothing is sent to a node that is gone.

The full list of hazards, with lines, is in `PROJECT.json` under `hazards`.

## 2. Modules

| module | models | composes |
|---|---|---|
| `FrameQueue` | abstract: a bounded queue of frames and a screen | |
| `FrameQueueProofs` | the steps of the queue for a queue of consecutive frames | `FrameQueue` |
| `TimedSync` | the ring, one decode thread, one sync thread, at the grain of accesses to shared memory | implements `FrameQueue` |
| `MCTimedSync` | constants for TLC | `TimedSync` |
| `TimedSyncProofs` | theorems about `TimedSync` | `TimedSync`, `FrameQueueProofs` |
| `PausePlay` | controller, decode thread and sync thread of a file session with one video track | `TimedSync` by INSTANCE |
| `MCPausePlay` | constants for TLC | `PausePlay` |
| `PausePlayProofs` | theorems about `PausePlay` | `PausePlay` |
| `PlayerSession` | a session of the player from start to join: main loop and keys, all states of the sync thread, audio callback, decode threads | |
| `MCPlayerSession` | constants for TLC | `PlayerSession` |
| `PlayerSessionProofs` | theorems about `PlayerSession` | `PlayerSession` |
| `MediaFlow` | the server: sources, encoders, recorders and transmitters as threads, and the thread that starts and stops them | |
| `MCMediaFlow` | the topologies for TLC | `MediaFlow` |
| `MediaFlowProofs` | theorems about frames and their counts in `MediaFlow` | `MediaFlow` |
| `MediaFlowStopProofs` | theorems about start and stop of `MediaFlow` | `MediaFlowProofs` |
| `RtpByteStream` | an RTP stream on demand: receive thread, packet list, decode thread, pausing | |
| `MCRtpByteStream` | the packets and streams for TLC | `RtpByteStream` |
| `RtpByteStreamProofs` | theorems about `RtpByteStream` | `RtpByteStream` |
| `AudioBuffer` | the sample ring of an audio session: decode thread, audio callback, sync thread, pausing | |
| `MCAudioBuffer` | the streams for TLC | `AudioBuffer` |
| `AudioBufferProofs` | theorems about `AudioBuffer` | `AudioBuffer` |

### TimedSync

`filled`, `playThisAt`, `content`, `fillIndex`, `playIndex`, `decodeWaiting`, `dontFill` and
`eof` are the members of `CTimedSync`; `decodeSem` is the value of the semaphore
`m_decode_sem` points to. `dpc` and `spc` say where the two threads are, `call`
holds the locals of the `play_at` in progress. `published`, `taken`, `lastTaken`,
`shown` and `overtaken` are history. A frame is its number in the order of publication and
the same number is its display time. `content` is the picture or text in a slot, apart from
`m_play_this_at`: both are written together, but the renderer of a text empties only the one.

A step is one access to shared state, or a run of accesses that the other
thread cannot tell apart:

* decode thread: `CheckSlot`, `SetWaiting`, `Awake`, `RecheckSlot` are
  `have_buffer_to_fill`; `WriteSlot` the copy of the picture,
  `RaiseFlag` a store of the flag, by SDL video's own code (`P/video_sdl_sync.cpp:201`, `277`) or by
  `increment_fill_index`. Nothing sets `m_dont_fill` in this module; a ring that is closed is the
  business of `PausePlay`.
* sync thread: `TestSlot`, `TestEof`, `FreeSlot`, `AdvancePlayIndex`,
  `PeekNextSlot`, `Render` are `play_at` in the order of the code: the slot is freed
  (`P/timed_sync.cpp:197`) before `Render` reads its contents (208), and a decode thread may have
  stored a newer frame there by then, which `overtaken` notes. `ClearSlot` is the renderer of a plain
  text, which empties the slot after it has drawn it (`P/text.cpp:25-30`);
  `NotifyDecodeThread` and `PostDecodeSem` are `notify_decode_thread`.
* `OtherPost` is any other post to the semaphore: a message to the decode
  thread, or a primed byte stream.

`PublishTwice` selects between the two classes that fill the ring: SDL video
sets the flag of a slot itself and then calls `increment_fill_index`, which sets
it again; timed text only calls `increment_fill_index`.

The memory is sequentially consistent. The code declares the flags `volatile`
and relies on that, so reordering by the processor is not modelled.

### PausePlay

The ring is `Ring == INSTANCE TimedSync`; its steps `FillStep` and `PlayStep` are
used as they are. Around them are

* the decode thread: `WaitForMessage` (outer `SDL_SemWait`), `ParseMessage`
  (`parse_decode_message`, in both places it is called), `FlushSlots`,
  `FlushIndexes`, `FlushDone` (`flush_decode_buffers`, store by store),
  `NextFrame` and `SetEof` (the inner loop up to the plugin call), `AbandonSlot`
  (`filled_video_buffers` finding `m_dont_fill` set after the picture was written);
* the sync thread: `ProcessMessages` (`process_msg_queue`), `WaitSync`,
  `Playing`, `PlayedToEnd` and `CloseRing` (the change to `SYNC_STATE_PAUSED`
  with `flush_sync_buffers`, store by store, and the acknowledgement);
* the controller: `pause_all_media` (`PauseDecoding`, `PostMessage`, `PauseSync`,
  `WaitPauseDone`) and `play_all_media` (`StartSync`, `Seek`, `StartDecoding`,
  `PostMessage`). `send_message` is two steps because the semaphore is posted
  after the queue's mutex is released.

The session is modelled from the point where `SYNC_STATE_INIT` is over and the
first `MSG_START_DECODING` is under way.

### PlayerSession

Where `PausePlay` has the ring of one video track access by access, `PlayerSession` has
the whole session at the grain of its messages: a file with audio, video or both, and a
user who presses keys at any time. The state is

* of a medium, `track[m]`: whether its device is `initialised`, `level` (frames or
  output buffers stored, up to the `Full` that `is_ready` or `is_audio_ready` ask for),
  `closed` (`m_dont_fill`), `eof`, its decode thread and the messages to it;
* `audio`: `m_audio_paused`, `m_have_resync`, and whether the hardware calls back;
  `waitingForAudio` is `m_waiting_for_audio`. `m_first_callback` is not a variable: it
  is set by `play_audio`, and only its report to a thread that waits has an effect;
* of the sync thread, `syncState`, the `newState` its handler returns, its place
  `spc` and its queue; `sessionState`, `pauseDone` and `hardwareError` are members
  of `CPlayerSession`;
* of the main thread, its place `mpc`, `after` (what follows `pause_all_media`), and
  in `ui` the locals of `main_start_session`.

A step of the sync thread is a handler after its queue has been drained
(`InitAudioFirst` to `InitMessage` for INIT, `WaitSync`, `WaitAudio`, `Playing`,
`AudioResync`, `WaitAudioReady`, `WaitTimedInit`), or one message of the drain
(`DrainQueue`), or a part of the change of state (`EnterState`, `PublishState`,
`AcknowledgePause`): that is where the main thread looks at or writes the same members.
PAUSED and DONE have a handler that only drains. `UserEvent` is
`process_sdl_events`, which runs in the sync thread. The main thread is
`TakeMasterMessage`, `LeaveInnerLoop` and `CountLoop` (`main_start_session`),
`PauseMedia`, `SendPause`, `SpinDone` (`pause_all_media`), `PlayState`, `SendStart`,
`PlayMedia` (`play_all_media`), `DeleteSession` and `JoinSyncThread` (the destructor).
The audio callback is one step, `Underrun` or `PlaySamples`.

A decode thread looks for one message per frame. A frame and the look that follows are
one step, and a message that comes after the look waits for one more frame at most:
in `"run"` the thread may or may not have looked, in `"look"` it will find a message.

Time is a choice: which of `check_audio_sync`'s answers a gap in the audio gives, whether
the video has frames that are due, whether an initialisation times out.

### MediaFlow

Every node (`CMediaNode`) has a queue `inbox`, a semaphore `sem` and a thread whose place
is `pc`; `"none"` is before `StartThread` and after `StopThread`. A feeder has its sink
list `attached` under the mutex `locked`. `refs` is `m_refcnt` of a frame, and a
frame with count 0 is not in memory and may be allocated again, as memory is.

* forwarding (`CMediaFeeder::ForwardFrame`): `LockSinks`, then for each sink
  `EnqueueFrame` and `PostFrame` (`send_message` appends under the queue's mutex
  and posts the semaphore after it), then `FinishForward`, which unlocks and gives up the
  feeder's reference. The list is visited in any order.
* sources: `Poll` and `Capture`, the loop of the V4L and OSS sources; the device of a source that is told to start may
  fail to open (`S/video_v4l_source.cpp:95`, `S/audio_oss_source.cpp:140`), and the source then waits for its next command.
* encoders: `Receive`, `Encode`, `ReleaseItem`, and at the end `Flush`
  (`DoStopAudio`) and `Drain`.
* sinks: `Receive`, `Consume`, `StopSink`, `Drain`. `KeptByRecorder` and
  `KeptByAudioTransmitter` say which frames stay with a sink until the next message: a
  recorder writes a frame when it knows the next, a transmitter bundles audio frames.
  The function pointer `m_audio_queue_frame` is never set by an encoder of this tree, so the bundling is
  that of `OldSendAudioFrame`.
* the controller (`cpc`, `ctl`): `CAVMediaFlow::Start` from `StartFlow` to `StartSources`,
  `RestartRecording`, and `CAVMediaFlow::Stop` from `StopFlow` to `StopStreams`. `Call` sends
  a command in three steps (`ControllerSend`, `ControllerPost`, and `Join` for
  `StopThread`).

Which nodes there are and which feeds which are constants. A capture video source
(`CaptureSources`) survives a stop: the next start finds it forwarding.
The mutex `m_pEnqueueMutex` of a sink is not modelled: the queue has a mutex of its own
and nothing else is shared in `EnqueueFrame`. An encoder
yields at most one frame for a frame, and one when it is flushed.

### RtpByteStream

One medium of a session that is played on demand over RTP. `queue` is the doubly linked list
from `m_head` to `m_tail`; a packet is a block of memory with a `Place` in the stream of the
sender, so that two copies of a packet are two blocks. `bs` has the other members of
`CRtpByteStreamBase`, `media` those of `CPlayerMedia` with its message queues and its
semaphore, `recv`, `dec` and `ctl` the places and locals of the three threads. `crash` says
that a pointer to a freed packet, or a null pointer, has been followed; the program then stops.

* receive thread: `Timeout` and `Arrive` (`recv_callback`: a packet while paused, and a jump of
  the time stamps), `ReceiverFlush` and `ReceiverUnlink` (`flush_rtp_packets`: the head is read
  without the mutex), `Add` (`add_rtp_packet_to_queue` under the mutex), `CheckBuffering`,
  `LookAtEnds` and `DecideBuffering` (`check_buffering`), `TellDecoder` and `PrimeDecoder` (the look at
  the tail for a decode thread that waits), `PostStart`, and `Periodic`
  (`rtp_periodic` and the next message of `recv_thread`).
* decode thread: `Awake`, `ParseMessage`, `DecoderFlush`, `DecoderUnlink`, `TestEof`, `HaveFrame`
  and `FindMbit` (`have_frame`), `Announce` (`wait_on_bytestream`), `BeginFrame`, `ReadHead`,
  `TakePacket` (`start_next_frame`, packet by packet), `DecodeFrame`, `SkipFrame` and `SkipPacket`
  (`skip_next_frame`).
* controller: `do_pause` in its four steps (`PauseReceiver` and those of `DoPause`), and `Play`.

`check_buffering` and the look at the tail read `m_head` and `m_tail` without the mutex. Each is two steps: the pointer is
loaded (`Loaded`, into `recv.look`), and later followed (`Follow`); a packet that is no longer in the list by then has been
freed, and a pointer loaded from an emptied list is null. Of the looks at both ends the one for a log message (`P/rtp_bytestream.cpp:410`) is left out.

`Insert` is pure: the comparisons of 16-bit sequence numbers of `add_rtp_packet_to_queue`, with
`Endless` for the search that goes round the list. `Clock` is `rtp_ts_to_msec`. A frame takes one
tick, and `TsMod` stands for the 2^32 of RTP time stamps. `ghost.recounts` counts the frames, as they are taken, that put the
clock back over a wrap or over the middle of a cycle, which makes `Clock` count a wrap that the sender did not make. The network loses packets by
never delivering them, delays one by at most `reorder` places, and repeats one by a second block.

### AudioBuffer

An audio-only session of a file, from the point where the hardware is open. A unit of the model is
a number of samples, and time is counted in the same units. `ring[i]` is the time of the sound at a place,
negative if it is silence; the copy of samples becomes the copy of their times, and a property
about what is heard is one about the times. `buf` has the offsets, the level and the resync of the ring, `flag` the
flags the threads signal each other with, `sem` is `m_audio_waiting`. `crash` says that
`m_filled_bytes`, which is unsigned, has gone below zero.

* decode thread: `NextFrame` (the look for a message, and, in a step of its own, `eof` and the frame: a message that
  comes in between has to wait), then `load_audio_buffer` as `LoadFrame` (`do_we_need_resync`),
  `AwaitResync`, `CheckForBytes` and `GiveUp` (`check_for_bytes`), `Announce` and `Awake`
  (`wait_for_callback`), `FillSilence`, `FillFrame`; `ParseMessage` flushes the ring.
* audio callback: `CallBack` (SDL has found that it is not paused and goes for its lock),
  `CallEmpty`, or `EnterCallback` (with `Adjust`, the correction of drift), `CopyOut` (one turn of the copy
  loop), `Underrun`, `StopForResync`, `ReportReady`, `CallbackDone`, `CallbackPost`.
* sync thread: `ProcessMessages`, `SyncPost`, `PauseDone` (`flush_sync_buffers` and the
  acknowledgement), `WaitSync` with `PlayAudio`, `StartHardware`, `WaitAudio`, and the answers of
  `check_audio_sync`: `AudioEnds`, `ResyncLater`, `ResyncNow`, `ResyncAnew`, `RestartFromStopped`.
* controller: `Pause` to `WaitDone`, then `PlaySync`, `Move` (to any frame), `StartDecoding`.

The callback runs under the lock of SDL, and so do the sections of the decode thread that use the ring
(`Unlocked`). The sync thread takes no lock, and `SDL_RunAudio` tests whether it is paused before it takes
its own: a callback can begin after the sound was stopped.

A unit is several samples, so that the two samples of tolerance in `do_we_need_resync` are not told
apart. Drift is corrected by any callback after the first one, not only after five seconds, by
dropping any part of what is stored or by putting one unit before it; `MaxAdjusts` bounds how often. Which
answer `check_audio_sync` gives at a resync depends on the clock and is a choice.

`ghost` is history: what has been heard (`start`, `due`, `broken`), the time the session was told (`clock`), and the
six ways the code has to go wrong that the properties name: `lost` (a resync was forgotten or overwritten, or survived
a flush), `early` (since the flush silence was filled before any frame, or a frame came with a resync while the first callback had yet to
report: `m_first_ts` belongs to later sound), `stale` (a callback was under way when the sound stopped or started), `missed` (a wake-up came
before the decode thread had said that it waits), and `lateEof` (the end of the file was noted in a sound that a pause was closing). `adjusts` counts corrections.

## 3. Runs

| run | bounds | expected | question |
|---|---|---|---|
| `text` | 3 slots, 5 frames, one foreign post, late limit 1 | pass | Is the ring, flagged once, a FIFO in every interleaving? Includes the refinement of `FrameQueue`. |
| `video` | 2 slots, 4 frames | violation | Is the ring of SDL video still a FIFO? |
| `sleeper` | 2 slots, 4 frames | violation | Is a sleeping decoder always signalled? |
| `pauseplay` | 2 slots, 2 frames, 2 restarts | pass | Is pausing, seeking and restarting safe, and is every message handled? |
| `session` | one track and two keys, or two tracks and one key (space, home, ctrl-x); one pass | pass | What may the threads of a session rely on of each other, whatever the user presses? |
| `end` | one video track, two keys (space, end), one pass | violation | Does a session that is told to end close? |
| `short` | 3 slots, 2 frames, no restart | violation | Is a stream that was delivered played to its end? |
| `flow` | audio and video, a sink each, 3 frames, one start | pass | Are frames counted right and every queue emptied from start to stop? |
| `flow_stop` | video to recorder and transmitter, 2 frames, 2 starts or one restart of the recording | pass | Does `Stop` return, and is all well when a source goes on from one start to the next? |
| `shared` | audio and video to one recorder, 2 frames | violation | Is the end of the audio recorded? |
| `rtp` | two to six packets in up to four frames: across both wraps with a late and a repeated packet; with a jump of the time stamps and a late packet; in order; with one pause | pass | What do the threads of an RTP stream guarantee whatever the network does? |
| `audio` | ring of 9 units, frames and output of 2; a stream with a gap, and one longer than the ring that jumps twice; one pause, one drift correction | pass | Is the sound in order and on time, is the decode thread woken, does the session end, and not before the stream? |

Why the bounds are enough. The ring wraps twice within 5 frames on 3 slots, so
that the flags, both indexes, a full ring, a sleep and a spurious wake-up all
occur in every order; the invariants of `text` are also proved for all values.
Two restarts let the messages of one restart meet those of the next; a third adds
no new pair of messages.
In `session` a home key pauses and restarts, so two of them let the messages and flags of a
restart meet those of the next; space and home give a pause that holds and one that does not, and
ctrl-x ends the session while it plays. With two tracks one key is enough to restart both decode
threads while the sync thread resynchronises the audio. Levels of two for audio and one for
video tell empty, short and ready apart.
In `rtp`, four packets and a copy from number 65534 on have a packet on each side of the wrap of the sequence numbers and, with `TsMod`
8 and a first time stamp of 7, of the time stamps too; one place of delay and one copy let a packet
come late, twice, and after the wrap. The jump of 3 ticks is over the limit of 2; six packets leave room for one
that is late behind the jump. Any packet may also be missing. A pause comes with a stream of its own, because the messages multiply with the packets.
In `audio`, 9 is not a multiple of the frame, so that frames and output buffers are split
at the end of the ring in each way; five frames of 2 go round it. The gap of 4 units is within the limit of
4 and filled: silence for two output buffers, so that the sound can begin before a frame that follows it. The two jumps of 16
are over the limit, and the second meets the first one pending. A look for a message and the `eof` behind it are two steps, so that a
pause comes between them.
2 slots are the least for which an overwritten slot differs from a full ring.
3 slots in `short` make `2 * MaxBuffers / 3` a slot the two frames do not reach,
as 10 of 16 is for a stream of ten frames.

With 3 frames in memory at a time there can be one with the source, one in the encoder
and one kept by a sink, or a bundle and a frame that follows it; frames are freed and
allocated again without bound. Frames are interchangeable, so `flow` uses symmetry;
`flow_stop` checks liveness and does not. A bundle is full at 2 frames. The second
start is the one that meets a running source.

`CHECK_DEADLOCK FALSE` in all runs: a session whose stream is played and whose
user does nothing stops, so does a ring whose stream has ended, a flow that
has been stopped for good, and a program that has crashed.

### What the violations show

* **`video`**. `set_video_frame` raises the flag of a slot
  (`P/video_sdl_sync.cpp:277`), then `increment_fill_index` raises it again
  (`P/timed_sync.cpp:74`). If `play_at` takes and frees the slot in between, the
  ring holds a frame that was played, and the two indexes are off by it.
* **`sleeper`**. The decoder tests its slot (`P/timed_sync.cpp:101`) before it
  announces that it waits (102). If the sync thread empties the ring in between
  it notifies nobody, and later calls of `play_at` find no frame and do not
  notify either (237). Only a message or a pause gets the decoder going again.
* **`end`**. Only a change of state to PAUSED acknowledges (`P/sync.cpp:778`). The space
  key pauses the session, the END key makes the main loop pause it again
  (`P/main.cpp:288`): nothing changes, and `pause_all_media` spins for ever
  (`P/player_session.cpp:546`). A `MSG_START_SESSION` and a `MSG_PAUSE_SESSION`
  drained in the same pass do the same. `--loop=count` meets it too: main pauses after the
  first pass and never plays again.
* **`short`**. `is_ready` (`P/video_sdl_sync.cpp:168`) needs the slot two thirds of
  the ring ahead, end of stream or not.

* **`shared`**. `CAVMediaFlow::Stop` stops the sinks of the video encoder
  (`S/media_flow.cpp:137`) before the audio encoder. A recorder that takes both is a sink of
  both: the audio encoder, still running, forwards frames to a recorder whose thread
  has ended. They are missing at the end of the file and their references are never given back.

### What the exceptions in the properties say

Properties of `RtpByteStream` and `AudioBuffer` hold up to exceptions, and the exceptions are what the code does:
each is a behaviour TLC found, named by the step of the code that causes it.

* `SearchEnds`, `QueueInOrder` (`NoSeqWrap`): across the wrap of the sequence numbers a late packet is compared as
  an integer (`P/rtp_bytestream.cpp:79`): it goes to the wrong place, or the search does not end and the
  receive thread keeps the mutex.
* `PointersAreLive`: only a jump of the time stamps makes the receive thread flush the list the decode
  thread is reading. But the receive thread looks at the ends of the list without its mutex (`P/rtp_bytestream.cpp:379-414`, 677,
  `P/player_media_rtp.cpp:301`), and during a pause the decode thread flushes the list (`P/player_media_decode.cpp:89`):
  a pointer loaded before the flush is followed after it, to a freed packet, or loaded after it, a null pointer.
* `TimeIsRight`: `rtp_ts_to_msec` counts a wrap whenever the top bit of the time stamps goes from one to zero
  (`P/rtp_bytestream.cpp:708`). A late frame from before the wrap, taken after one from behind it, is given the time of the new
  cycle, and the next frame has the wrap counted again; a late frame of the same cycle does this over its middle. The property says by how many cycles the clock is ahead.
* `LatestTakenIsShown`: `play_at` frees the slot it is about to render. A decode thread that waits for it, and is quick,
  has the screen show the frame one ring later, or nothing, and the renderer of a text then empties the slot
  with the newer text in it.
* `CompleteUnlessSkipped`: the branch "This should never happen" (`P/rtp_bytestream.cpp:940`) is
  reached, by `skip_next_frame` (1035), which goes on to a frame without looking for its end.
* `EndsAtEnd`: `set_eof` (`P/player_media_decode.cpp:215`) may come after the `clear_eof` of a pause, when the decode thread
  looked for a message just before the pause was sent. `flush_decode_buffers` does not clear it for the restart: the
  restarted session takes itself to be at its end as soon as the ring runs empty.
* `SleepsOnFrameOnlyIfMissed`, `StuckOnlyIfMissed`: a test, then the flag "I am waiting"
  (`P/player_media_decode.cpp:219`, `P/audio_buffer.cpp:136`): who signals in between finds nobody waiting.
  The audio decoder also sleeps for ever when it waits for a pending resync before the sound has begun (337):
  this needs no pause. And it does when it waits for a resync that has been lost, past which a drift correction has dropped.
* `BufferedIsStarted`: if the buffering is complete while `do_pause` is under way, the restart is lost. And a jump
  of the time stamps after the end of the stream was seen begins the buffering anew (`P/rtp_bytestream.cpp:436`), but
  `m_rtp_buffering` is still 1, so that no start message follows (`P/player_media_rtp.cpp:295`): the decode
  thread, which has ended, is never started again.
* `RingInOrder`, `UnderflowOnlyIfLost`: a resync is forgotten by `play_audio` (`P/audio_buffer.cpp:597`), overwritten by
  the next one, dropped over by a drift correction, or left by `flush_decode_buffers` with an offset that means
  nothing any more. In the latter cases the copy loop (847) may take more than there is.
* `SoundMatchesClock`: the clock is wrong when the decode thread notes a resync before the first callback has
  reported, when the ring begins with silence, or when a callback was under way as the sound was stopped or started.
  With a limit of two output buffers or more, silence alone can start the sound before the frame that sets
  `m_first_ts` is there: a smaller limit does not show it (section 4).
* `EofEnds` promises the end of the session, not that all of the sound was heard: a resync that is pending at
  the end, or an underrun, cuts it short. And it begins at PLAYING: a stream of less than two output buffers
  is never started.

### Fairness

`TimedSync` is checked for safety only and has none. In `PausePlay` each thread is
weakly fair as a whole: a thread that can take a step takes one, as the scheduler of
any operating system grants. The controller need not pause, but a pause or restart it has
begun goes on; waits are guards, so a thread in `SDL_SemWait` is not forced.
In `PlayerSession` the main thread and the sync thread are weakly fair, and so is the
audio callback while the hardware runs, which is SDL's promise. The decode threads and the user
need not do anything: a file may be slow, and no property depends on its delivery.
In `MediaFlow`, too, each thread is weakly fair. Two steps take a mutex that others
take again and again: `LockSinks` of an encoder and the steps of the controller in
`Stop`. They are strongly fair, which grants that a mutex that is free again and again is obtained in the end:
the holder spends the time of a capture or an encoding outside of it between two uses. The
controller need not stop the flow, but carries out a stop it has begun.
In `RtpByteStream` the receive and the decode thread are weakly fair, and `do_pause` goes on once begun. The
network need not deliver anything, since `rtp_recv` returns after its timeout; the user need not resume.
In `AudioBuffer` the decode, callback and sync threads are weakly fair: the hardware calls back while it runs.
The controller need not pause, and carries out a pause and the restart it has begun.

Weak fairness of the sync thread's clock is not assumed: `Playing` may choose any
time not before the last.

## 4. Proofs

`TimedSyncProofs` proves, for every number of slots from two on, every stream
length and every late limit:

* for both kinds of ring: `TypeCorrect` (`Spec => []TypeOK`) and `NotOverwritten`
  (`FramesNotOverwritten`, from `WriterHasFreeSlot`: between the test of the flag and the
  store the sync thread can free the slot, but nobody else can fill it);
* for a slot that is flagged once (`~PublishTwice`): `RingStaysAligned`
  (`RingAligned`), `TakenInOrder` (`FramesTakenInOrder`) and `LatestShown`
  (`LatestTakenIsShown`: the frame taken last is on the screen, or that of the next turn of the ring or
  none if the decode thread has overtaken the rendering).

`RingAligned` says that the flags are up exactly from `m_play_index` to
`m_fill_index` and that these slots hold the frames published and not taken. It is
not inductive. `RingInv` adds what each thread knows between its steps:
`FillerOwnsSlot` (a decode thread that is about to write has an empty slot at
`m_fill_index`, and after the write it holds the next frame), and
`TakerOwnsSlot` (a sync thread that is about to free a slot has a filled one, and
between the two halves of `increment_play_index` the slot it remembers is the
previous one). The step lemmas are one per thread: `FillStepRingInv` and
`PlayStepRingInv`, over `DistanceRange`, `FreeFillSlot` and
`DecodeThreadKeepsDistance`, which carry the modular arithmetic. `LatestShown`
needs `ShownInv`: while `play_at` is on its way from a frame it passed over to the next, that next
frame is filled and due; and `ContentInv`: what is in the slot that was freed and is still to be rendered is the frame taken
from it, or, if that slot has been overtaken, the one that is one ring later, or nothing. The double flag of SDL video breaks `FillerOwnsSlot`
at the second `RaiseFlag`: this is where the proof, like the run `video`, finds it.

`RingIsQueue` is the refinement: for a slot that is flagged once, `TimedSync` implements `FrameQueue` under the mapping
that reads the queue out of the ring. The contents of the ring are `Window(taken, published - taken)`, frames with consecutive
numbers, and `FrameQueueProofs` says in those terms what `Put`, `Take` and `Show` do, so that the steps of the
ring need no reasoning about sequences: the store of the flag is `Put`, the store that frees the slot is
`Take`, the rendering is `Show`, and a store into the slot that is still to be rendered is `Overtake`, which the queue
allows when it has one place left; all others are stutters. `FrameQueue` thus promises no more than the ring keeps: a screen that
shows the frame taken last unless its place has been given away. It uses `RingInv` and `ContentInv` before and after each step.

`PausePlayProofs` proves, for every ring of two slots or more, every stream and any number of restarts, all safety
properties of `PausePlay`: `PauseTypes`, `MessageCoverage`, `NothingStale`, `FlushIsExclusive` and `RingReopens`. The invariant
`PausePlayInv` has four parts. `TokensCoverMessages`: messages are covered by tokens in the semaphore, a token
about to be posted, or a decode thread that will look at the queue before it sleeps again; it may
take a token in `have_buffer_to_fill` for that reason only. `MessagesAlternate`: pause and start come in turn, and the last is the one
the controller sent last. `SyncPhases`: a pause that the sync thread has not acknowledged is one the controller waits
for. `RingInvariant`: from the closing of the ring for a pause until the flush for the restart (`RestartPending`) the
sync thread does not play, and the ring is closed or empty with nobody to fill it. The steps inside the ring enter by
what they leave alone (`FillRingEffect`, `PlayRingEffect`). `NotOverwrittenByRestarts` adds to this that no slot is overwritten before its
frame is played, whatever message comes and whenever the ring is flushed or closed: `WhoWrites` finds the two steps that store into the ring, and
`WriterHasFreeSlot` that they come from a test of the flag with no flush in between.

`PlayerSessionProofs` proves, for any media, any keys of the user in any number and any number of loops, every safety
property of `PlayerSession`: `SessionTypes`, `PauseIsAPause`, `StopIsObeyed`, `SessionStateAgrees`,
`NoSyncBeforeInit` and `AudioReports`. They rest on `Protocol` (`SessionProtocol`): a pause and the stop are the last message in the queue of the sync
thread, since the main thread waits for each (`SyncMessages`); a pause that was taken has a main thread that waits for it
(`OnePause`); and after its acknowledgement the sync thread rests until it is sent a start (`PauseKept`, `Rest`). `StateAgrees` holds
only where nothing is on its way (`Settled`). `AudioReports` needs more (`AudioStart`): from a pause to the next start the
audio has too few samples to count as ready, and its decode thread has no message that could take samples away later.
Only a pause during the initialisation is an exception (`initPause`).

`MediaFlowProofs` proves, for every finite set of nodes, every way to connect them with at
least one encoder, every set of frames and every bundle size:

* `FramesOutliveHolders` (`HeldFramesLive`): the count of a frame is never less than the
  number of queues, threads and sinks that hold it. A frame that somebody is about to read has
  not been deleted, in whichever order the holders let go of it.
* `FlowTypes` (`TypeOK`): no count falls below 0, that is, no reference is given back twice.

`HeldFramesLive` counts a queue once, so it is inductive only if a frame is in a queue once.
`FlowInv` therefore adds `QueuedOnce` and, to keep that, `ForwardedFrameIsNew`: the frame on its way
is the feeder's own and not yet in the queues of the sinks it is still to be given
to. Two feeders never forward the same frame because `maker` tells them apart; that a frame
that is made again is nowhere else follows from `HeldFramesLive` itself.
`ConsumerHasFrame` and `ControlTypes` are what the steps of sinks and controller need. The argument per
step is one of four (`CountAfter`, over `CountCovers`): nobody gains or loses a holder; a holder goes with
its reference; one comes with a reference; one takes the place of another.
The controller touches no reference (`Quiet`); its steps need types only.
The assumption `NodesAssumption` asks for one encoder because a flow without one has nothing to forward to.

`MediaFlowStopProofs` proves what depends on the topology, with the hypothesis `NoSinkIsShared`: no sink is fed by two
encoders. Both passing instances satisfy it, and the run `shared` shows that it is needed: with a shared recorder
`ForwardedFramesAreTaken` fails.

* `SemaphoresOutliveSenders` (`SemaphoreOutlivesSenders`): `StopThread` never destroys a semaphore that a feeder is
  about to post. `StopInv` says how far a stop has come in each phase: a feeder forwards only under its mutex, and while the
  controller holds it nobody does (`MutexInv`); what has been cut off stays cut off (`CutInv`); a node that somebody feeds has its
  semaphore (`LiveInv`).
* `ForwardedFramesAreTakenAlways` (`ForwardedFramesAreTaken`): a node's queue is empty when its thread ends, and nobody
  puts a frame in later. `EndingInv` adds that a thread that drains its queue was told to end, by a controller
  that waits for it, and by then nobody feeds the node.
* `NoFrameIsLost` (`NoFrameLeaks`): a frame in memory is held by somebody. Here a count must not exceed the number of holders,
  which fails as soon as one holder has two references. `GivenOnce` excludes it: a sink is given a frame once. `HandledInv`
  says that a thread has a frame only while it handles or forwards it, and `DeletedInv` that a queue is deleted only after
  its thread has ended, so that nothing is left in it.

`RtpByteStreamProofs` proves, for every set of packets, every way the network loses, delays and repeats
them, every modulus of sequence numbers and time stamps and any number of pauses:

* `RtpTypes` (`TypeOK`);
* `SearchesEnd` (`SearchEnds`): the search for the place of a packet fails to end only if the list
  straddles the wrap. It rests on `SignedDifference`: two numbers less than half the modulus apart compare as
  integers as they do modulo, unless one is beyond the wrap;
* `LivePointers` (`PointersAreLive`): who takes packets out follows no pointer to a packet the other has freed, unless the time
  stamps have jumped; who looks at the ends of the list may besides if the player was paused;
* `FramesComplete` (`CompleteUnlessSkipped`): a frame found by its marker bit is whole when it is read.

The last two hold because, without a jump, the decode thread is the only one that takes packets out of
the list. `LiveInv` says so: `FlushOnlyAfterJump`, `SkipsCounted`, and as long as nothing has jumped, `SoleReader`: what the
decode thread has read of the list is still there, and a marker bit it has found still follows.
`ReceiverOnlyAdds` shows that a step of the receive thread leaves the list at least what it was
(`InsertKeeps`: an insertion loses no packet; its place exists by `LeastNumber`, from the library's minimum of a
well-founded order), and the steps of the decode thread take only the packet it holds. That the receive thread's unlocked
look at the ends finds live packets as long as nobody has paused is `LooksSafely`: during the look the decode thread idles, because the buffering is
not complete (`IdleUntilBuffered`) or the start not sent, or it sleeps and nobody but the receive thread posts (`Tokens`).

* `PacketsInOrder` (`QueueInOrder`): `InsertSorted` shows that the comparisons of `add_rtp_packet_to_queue` find the place of a packet
  in a list that is in order, as long as no packet is more than nine places late (`Arrivals`): the code takes a distance of less than ten from
  the tail or the head for granted. `NoSeqWrap` states which streams do not pass the wrap; `SearchEnds` and the run say what
  happens to the others.
* `FramesHaveNoHole` (`FrameHasNoHole`): `Gathered`, what has been put together of a frame has no hole, follows from
  `NextModulo`; a flush or a skip begins anew. `StampsTellFrames` excludes streams with two frames of the same time stamp or 65535
  packets in a frame, which RTP does not allow.
* `ClockIsRight` (`TimeIsRight`): `ClockInv` relates wraps, last time stamp and base to the time of the sender and to the frames that
  have put the clock back. `TopBitsTellCycle` is the arithmetic: for times no more than half a cycle apart the two top bits tell whether
  the clock counts a wrap, and the numbers of their cycles whether it should. The hypothesis (`ghost.steady`) leaves out frames more than half a cycle from the
  one before, frames behind a jump, and skips that forget a wrap; a late frame is covered.
* `SleepIsMissedOnce` (`SleepsOnFrameOnlyIfMissed`): `Wakeful`, a complete frame that waits for a sleeping decode thread has a
  receive thread on its way to wake it.
* `BufferingStarts` (`BufferedIsStarted`): `StartInv` follows the start message from the receive thread to the decode thread: it comes behind
  the flush of the pause before (`StartIsLast`, `FlushIsFirst`), and only the end of the stream stops a decode thread that
  has read it (`Decodes`). Looking for this invariant is how the second exception of `BufferedIsStarted` was found; `rtp` now has a stream that meets it.

`AudioBufferProofs` proves, for every size of the ring, of frames and of output buffers such that a frame and the longest
silence fit into the ring, every stream, and any number of pauses and drift corrections:

* `AudioTypes` (`TypeOK`);
* `SoundInOrder` (`RingInOrder`) and `BelowZeroIfLost` (`UnderflowOnlyIfLost`). `RingInv` adds to them that a resync that is pending is at
  a place that waits (`ResyncWaits`) and that what the decode thread will fill next continues what waits
  (`NextFollows`). `Filling` and `FillInOrder` are the two writes of the decode thread across the end of the ring; `WrapIs` replaces the
  remainder by a case distinction, which the provers can handle.
* `ClockMatchesSound` (`SoundMatchesClock`): the time that `audio_is_ready` is told is that of the first sound, and what is
  heard goes on from there. Three invariants over `RingInv`:
  * `Protocol`: how a pause and a restart pass between the controller and both threads. The queues end with what was
    sent last (`QueueEnds`), a thread that closes the sound has nothing left to read (`SyncPhases`), and from the flush of the sync
    thread until the decode thread reads the restart the ring rests (`RingRests`): it refuses sound, or is empty.
  * `TimeInv`: the time of the sound that waits. `InLine` compares any two units, not neighbours, because the step
    from neighbours to any two is an induction; a pending resync has the time of its place (`ResyncTimed`).
  * `ClockInv`: after the flush of the decode thread all rests (`Drained`); otherwise the sound runs only while the sync
    thread lets it (`SilentWhilePaused`), what comes next continues what was heard last (`GoesOn`), and `m_first_ts` is the
    time of what will be heard first for as long as somebody will read it (`ClockSet`). `Starting` covers the
    callback that was under way when the sound was started: it finds the two output buffers for which `play_audio` waits.

  The attempt corrected the model: as it had been stated, `early` was noted only when the frame behind the silence was
  filled, and the property failed for a limit of silence of two output buffers or more, which no run had and `audio` now
  has. And `stale` is noted when a callback begins, no longer in its copy loop: a sound that is stopped in the middle of a
  callback needs no exception.

* `SleeperIsWoken` (`StuckOnlyIfMissed`): where nobody is left to wake the decode thread, one of the named wake-ups was missed.
  "Nobody is left" is a predicate of the state (`Stuck`, with `SyncRests` for the sync thread), not `ENABLED`, so that it can be
  proved; `StuckStays` shows that it means what it says: no thread has a step in such a state, and only a pause of the user
  leads out of it. `SleepInv` has four parts. `SleeperKnown`: a thread that sleeps has said so or has its token.
  `WillWake`: somebody is on the way to wake it (`Waking`), or what it waits for is there (`WorthWaiting`): sound
  to start with if it waits for room, a pending resync or running sound otherwise; and if the ring is closed, the flush that closed it has the
  post still before it. `ReadyComes`: a sync thread that waits for `audio_is_ready` has a callback that will report.
  `StatesTell`: sound that is not paused runs, and a session rests in PAUSED only while the controller holds it there.

  The theorem has a hypothesis, `RoomToStart`: when there is no room for a frame and its silence, at least two output buffers
  are in the ring, which is what the sync thread waits for. The code sees to it where it chooses the size: the output
  buffer is at most a quarter of the ring (`P/audio_sdl.cpp:140`), and frame and silence are at most 5 of the 32 frames of the ring, or
  a quarter of its second (`P/audio_buffer.cpp:245-251`). It is not granted if the user sets `LimitAudioSdlBuffer` above 1
  (`P/audio_sdl.cpp:130`) or if the hardware insists on a larger buffer. In `audio` it holds with equality; with a ring of 7 units TLC
  finds a decode thread that waits for room and a sync thread that waits for sound.
* `EndIsTheEnd` (`EndsAtEnd`): the session ends only when the decode thread is at the end of the stream. `EofTells` says that
  `m_eof` has the decode thread at the end and no restart under way, from `Protocol`: from the flush of the sync thread until the decode
  thread reads the restart the ring is closed or nobody fills it, so that an end reported then is one the property excepts.

  The attempt corrected the model and the property. The model looked for a message and read on in one step, where the code lets a pause come
  in between (`P/player_media_decode.cpp:205-215`): with the step split, `m_eof` can outlive a restart, and `lateEof`
  marks it. And `StuckOnlyIfMissed` lacked the lost resync, which a stream longer than the ring with two jumps shows: `audio` now has one.

The assumptions on constants are as weak as the proofs allow: `BuffersAssumption` (a ring of one slot has no next
slot to look at), `LoopAssumption`, `FilesAssumption` and `KeysAssumption` (the values the program accepts),
`SizesAssumption` (a frame and its silence fit into the sample ring, which is allocated for 32 frames, or for a second of sound).

Every invariant and action property of a passing run is a theorem. Model-checked only is liveness (`MessagesHandled`, `StopReturns`,
`EofEndsDecoding`, `EofEnds`), which the prover does not treat.

`FramesNotOverwritten`, which holds of both kinds of ring (`NotOverwritten`) and of the ring as `PausePlay` uses it
(`NotOverwrittenByRestarts`), is proved and has no run of its own.

## 5. Plan

1. **Ring and its proofs; pause and restart and their proofs** (above).
2. **`MediaFlow` and its proofs** (above).
3. **`PlayerSession` and its proofs** (above).
4. **`RtpByteStream` and its proofs** (above).
5. **`AudioBuffer` and its proofs** (above).
6. **`RtspClient`**, not begun: commands, interleaved data, quitting.

## 6. Not modelled

* The preview flow, raw sink and raw recorder, text media and RTP destinations of the server;
  `MAX_SINKS` (`AddSink` fails for a ninth sink and nobody looks).
* Codecs, plugins, container libraries, SDP and configuration: sequential computation
  without shared state.
* The RTSP client and the MPEG-2 TS thread: planned (section 5), or like the RTP receive thread.
* In `RtpByteStream`: the broadcast branch of `rtp_ts_to_msec` and RTCP synchronisation, the audio and plugin byte
  streams, bytes left in the buffer between frames, the first phase (`rtp_check_payload`), and `MSG_STOP`. The end of
  the stream is a silence of the network, and may come while packets are still queued (640-650): no property
  forbids it. A repeated packet in the middle of the list is inserted twice; `FrameHasNoHole` covers what comes of it.
* In `AudioBuffer`: pass-through of AC3 (767-785, 797-825), choosing formats and sizes and opening the hardware, the
  correction of jitter, the conversion of samples, volume, and the drivers other than SDL.
* `CONFIG_SHORT_VIDEO_RENDER` access by access: `PlayerSession` has it as `shortRender`, where the sync thread drops the frames
  of the video at once; that it flushes the decoder's side of the ring while the decode thread fills it (`P/sync.cpp:467`) is
  not modelled. Nor is the race of `do_play` with a decode thread that is still reading a frame
  (`P/player_media.cpp:668`) at a finer grain than that of a frame.
* In `TimedSync`, a picture that is overwritten while it is being drawn: a slot is stored and rendered in one step each, so
  that the screen shows the one frame or the other, never parts of both.
* Window creation, resizing, full screen and volume, and the GUI: they touch neither the rings nor
  the state of the session.
* In `PlayerSession`: timed text, more than one track of a kind, streaming sessions, the
  play list, and the inside of an audio callback.
* `CMsgQueue` is a FIFO under a mutex: one atomic append, one atomic removal. Its unlocked
  test for emptiness before the lock can only see a message later.
* Frame skipping of the decode thread when it is late: a skipped frame never reaches the ring.
