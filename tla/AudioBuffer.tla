----------------------------- MODULE AudioBuffer -----------------------------
(***************************************************************************)
(* The ring of audio samples of the player (CBufferAudioSync over SDL) in  *)
(* a session with audio only, played from a file: the decode thread loads  *)
(* frames into it, the audio callback plays them, the sync thread (sync.cpp)*)
(* starts, restarts and stops the sound, the controller pauses and resumes.*)
(* The callback runs under the lock of SDL, which the decode thread takes  *)
(* too: a section of the decode thread under it is one step, and not       *)
(* possible while a callback has it.  The sync thread takes no lock.       *)
(*                                                                         *)
(* Numbers count units of sound, one unit of a frame being several samples;*)
(* time is counted in the same units.  A place of the ring holds the time  *)
(* of the sound in it, negative if it is silence.                          *)
(*                                                                         *)
(* The session is past its initialisation: the hardware is open.           *)
(***************************************************************************)
EXTENDS Integers, Sequences

CONSTANTS
  RingSize,      \* m_sample_buffer_size
  FrameSize,     \* m_samples_per_frame
  OutSize,       \* m_output_buffer_size_bytes, what a callback asks for
  SilenceLimit,  \* 4 * m_samples_per_frame: a longer gap is no silence
  WaitLimit,     \* check_for_bytes gives up after 5 waits
  Streams,       \* what may be played: the times of the frames
  MaxPauses,     \* bound: how often the user pauses
  MaxAdjusts     \* bound: how often a callback adds or removes sound

ASSUME SizesAssumption ==
  /\ RingSize \in Nat \ {0} /\ FrameSize \in Nat \ {0} /\ OutSize \in Nat \ {0}
  /\ SilenceLimit \in Nat /\ WaitLimit \in Nat \ {0}
  /\ FrameSize + SilenceLimit <= RingSize
ASSUME StreamsAssumption ==
  Streams \subseteq Seq(Nat \ {0}) /\ MaxPauses \in Nat /\ MaxAdjusts \in Nat

VARIABLES
  stream,  \* the stream that is played
  ring,    \* m_sample_buffer
  buf,     \* the members that belong to the ring
  flag,    \* the flags the threads signal each other with, and m_eof
  sem,     \* m_audio_waiting
  dec,     \* decode thread: where it is, position in the stream, its frame
  cb,      \* callback: where it is, what is left of the output buffer
  sync,    \* sync thread: where it is, its state and message queue
  ctl,     \* controller: where it is, pauses so far; queue of the decode thread
  crash,   \* m_filled_bytes has become negative, that is huge
  ghost    \* history for the properties

vars == <<stream, ring, buf, flag, sem, dec, cb, sync, ctl, crash, ghost>>

None == -1

DecodePC == {"wait", "top", "read", "load", "pending", "room", "fail", "announce", "asleep",
             "silence", "frame"}
CallbackPC == {"idle", "called", "copy", "underrun", "resync", "report", "done", "post"}
SyncPC == {"top", "start", "post", "done"}
SyncState == {"WAIT_SYNC", "WAIT_AUDIO", "PLAYING", "PAUSED", "DONE"}
ControlPC == {"playing", "pauseSync", "waitDone", "paused", "move", "startDecoding"}

Buffer ==
  [fill : 0 .. RingSize - 1, play : 0 .. RingSize, filled : 0 .. RingSize,
   firstFilled : BOOLEAN, firstTs : Nat, next : Nat,
   resync : BOOLEAN, resyncAt : 0 .. RingSize - 1, resyncTs : Nat]
Flags ==
  [dontFill : BOOLEAN, waiting : BOOLEAN, paused : BOOLEAN, firstCall : BOOLEAN,
   running : BOOLEAN, awaited : BOOLEAN, eof : BOOLEAN]
Decoder ==
  [pc : DecodePC, pos : Nat \ {0}, frame : Nat, silence : 0 .. SilenceLimit,
   need : BOOLEAN, tries : 0 .. WaitLimit]
Callback ==
  [pc : CallbackPC, len : 0 .. OutSize]
Sync ==
  [pc : SyncPC, state : SyncState, queue : Seq({"START", "PAUSE"}), done : BOOLEAN]
Control ==
  [pc : ControlPC, pauses : 0 .. MaxPauses, queue : Seq({"START", "PAUSE"})]

Init ==
  /\ stream \in Streams
  /\ ring = [i \in 0 .. RingSize - 1 |-> 0]
  /\ buf = [fill |-> 0, play |-> 0, filled |-> 0, firstFilled |-> FALSE, firstTs |-> 0,
            next |-> 0, resync |-> FALSE, resyncAt |-> 0, resyncTs |-> 0]
  /\ flag = [dontFill |-> FALSE, waiting |-> FALSE, paused |-> TRUE, firstCall |-> TRUE,
             running |-> FALSE, awaited |-> FALSE, eof |-> FALSE]
  /\ sem = 0
  /\ dec = [pc |-> "top", pos |-> 1, frame |-> 0, silence |-> 0, need |-> FALSE,
            tries |-> 0]
  /\ cb = [pc |-> "idle", len |-> 0]
  /\ sync = [pc |-> "top", state |-> "WAIT_SYNC", queue |-> << >>, done |-> FALSE]
  /\ ctl = [pc |-> "playing", pauses |-> 0, queue |-> << >>]
  /\ crash = FALSE
  /\ ghost = [lost |-> FALSE, early |-> FALSE, missed |-> FALSE, stale |-> FALSE,
              lateEof |-> FALSE, broken |-> FALSE, start |-> None, due |-> None, clock |-> None,
              adjusts |-> 0]

-----------------------------------------------------------------------------
(* The ring. *)

Wrap(i) == i % RingSize

Place(i) == Wrap(buf.play + i)

TimeAt(i) == IF ring[i] < 0 THEN -ring[i] ELSE ring[i]

(* The ring when the units in sound, numbered from 0, are written from fill on. *)
Written(sound) ==
  [i \in 0 .. RingSize - 1 |->
     LET j == Wrap(i - buf.fill) IN IF j \in DOMAIN sound THEN sound[j] ELSE ring[i]]

Filled(n) == [buf EXCEPT !.fill = Wrap(@ + n), !.filled = @ + n]

(* History: nothing has been heard since. *)
Silent == [ghost EXCEPT !.broken = FALSE, !.start = None, !.due = None, !.clock = None]

-----------------------------------------------------------------------------
(* The decode thread. *)

DStep(from, to) == dec.pc = from /\ dec' = [dec EXCEPT !.pc = to]

(* The callback has the lock from its beginning to its end. *)
Unlocked == cb.pc \in {"idle", "called"}

(* flush_decode_buffers.  A resync that is pending stays. *)
FlushDecodeBuffers ==
  /\ Unlocked
  /\ buf' = [buf EXCEPT !.fill = 0, !.play = 0, !.filled = 0, !.firstFilled = FALSE]
  /\ flag' = [flag EXCEPT !.dontFill = FALSE, !.paused = TRUE]

(* parse_decode_message, in the outer loop and in the inner one. *)
ParseMessage ==
  /\ dec.pc \in {"wait", "top"} /\ ctl.queue # << >>
  /\ ctl' = [ctl EXCEPT !.queue = Tail(@)]
  /\ dec' = [dec EXCEPT !.pc = IF Head(ctl.queue) = "START" THEN "top" ELSE "wait"]
  /\ FlushDecodeBuffers
  /\ ghost' = [Silent EXCEPT !.lost = buf.resync, !.early = FALSE, !.stale = FALSE]
  /\ UNCHANGED <<stream, ring, sem, cb, sync, crash>>

(* No message: on to the end of the byte stream, or the next frame of it.  A *)
(* message that comes in between has to wait.                                *)
NextFrame ==
  /\ \/ ctl.queue = << >> /\ DStep("top", "read") /\ UNCHANGED <<flag, ghost>>
     \/ /\ dec.pos > Len(stream) /\ DStep("read", "wait")
        /\ flag' = [flag EXCEPT !.eof = TRUE]
        /\ ghost' = [ghost EXCEPT !.lateEof = flag.dontFill]
     \/ /\ dec.pos <= Len(stream) /\ dec.pc = "read"
        /\ dec' = [dec EXCEPT !.pc = "load", !.frame = stream[dec.pos], !.pos = @ + 1]
        /\ UNCHANGED <<flag, ghost>>
  /\ UNCHANGED <<stream, ring, buf, sem, cb, sync, ctl, crash>>

FrameDone ==
  [dec EXCEPT !.pc = "top", !.frame = 0, !.silence = 0, !.need = FALSE, !.tries = 0]

Gap == dec.frame - buf.next

(* load_audio_buffer as far as do_we_need_resync. *)
LoadFrame ==
  /\ dec.pc = "load"
  /\ IF flag.dontFill
     THEN dec' = FrameDone
     ELSE LET need == buf.firstFilled /\ Gap \notin 0 .. SilenceLimit IN
          dec' = [dec EXCEPT !.pc = IF need THEN "pending" ELSE "room", !.need = need,
                    !.silence = IF buf.firstFilled /\ ~need THEN Gap ELSE 0]
  /\ UNCHANGED <<stream, ring, buf, flag, sem, cb, sync, ctl, crash, ghost>>

(* While another resync is pending one callback is waited for. *)
AwaitResync ==
  /\ Unlocked
  /\ DStep("pending", IF buf.resync THEN "announce" ELSE "room")
  /\ UNCHANGED <<stream, ring, buf, flag, sem, cb, sync, ctl, crash, ghost>>

ToInsert == FrameSize + dec.silence

(* A turn of the loop of check_for_bytes. *)
CheckForBytes ==
  /\ dec.pc = "room" /\ Unlocked
  /\ dec' = IF flag.dontFill THEN [dec EXCEPT !.pc = "fail"]
            ELSE IF RingSize - buf.filled >= ToInsert THEN [dec EXCEPT !.pc = "silence"]
            ELSE [dec EXCEPT !.pc = "announce", !.tries = @ + 1]
  /\ UNCHANGED <<stream, ring, buf, flag, sem, cb, sync, ctl, crash, ghost>>

(* No room: the frame is dropped, or tried again without its silence. *)
GiveUp ==
  /\ dec.pc = "fail"
  /\ dec' = IF dec.silence = 0 THEN FrameDone
            ELSE [dec EXCEPT !.pc = "room", !.silence = 0, !.need = TRUE, !.tries = 0]
  /\ UNCHANGED <<stream, ring, buf, flag, sem, cb, sync, ctl, crash, ghost>>

(* wait_for_callback up to its SDL_SemWait, and from there on. *)
Announce ==
  /\ DStep("announce", "asleep")
  /\ flag' = [flag EXCEPT !.waiting = TRUE]
  /\ UNCHANGED <<stream, ring, buf, sem, cb, sync, ctl, crash, ghost>>

Awake ==
  /\ sem > 0 /\ sem' = sem - 1
  /\ DStep("asleep", IF dec.tries = WaitLimit THEN "fail" ELSE "room")
  /\ flag' = [flag EXCEPT !.waiting = FALSE]
  /\ ghost' = [ghost EXCEPT !.missed = FALSE]
  /\ UNCHANGED <<stream, ring, buf, cb, sync, ctl, crash>>

(* fill_silence *)
FillSilence ==
  /\ Unlocked
  /\ DStep("silence", "frame")
  /\ ring' = Written([j \in 0 .. dec.silence - 1 |-> -(buf.next + j)])
  /\ buf' = Filled(dec.silence)
  /\ ghost' = [ghost EXCEPT !.early = @ \/ (dec.silence > 0 /\ ~buf.firstFilled)]
  /\ UNCHANGED <<stream, flag, sem, cb, sync, ctl, crash>>

(* The rest of load_audio_buffer: the frame is copied and a resync noted,    *)
(* over one that may be pending still.                                       *)
FillFrame ==
  /\ dec.pc = "frame" /\ Unlocked
  /\ dec' = FrameDone
  /\ ring' = Written([j \in 0 .. FrameSize - 1 |-> dec.frame + j])
  /\ buf' = [Filled(FrameSize) EXCEPT
               !.resync = @ \/ dec.need,
               !.resyncAt = IF dec.need THEN buf.fill ELSE @,
               !.resyncTs = IF dec.need THEN dec.frame ELSE @,
               !.firstTs = IF dec.need \/ ~buf.firstFilled THEN dec.frame ELSE @,
               !.firstFilled = TRUE,
               !.next = dec.frame + FrameSize]
  /\ ghost' = [ghost EXCEPT !.lost = @ \/ (dec.need /\ buf.resync),
                            !.early = @ \/ (dec.need /\ flag.firstCall)]
  /\ UNCHANGED <<stream, flag, sem, cb, sync, ctl, crash>>

DecodeThread ==
  /\ ~crash
  /\ \/ ParseMessage \/ NextFrame \/ LoadFrame \/ AwaitResync \/ CheckForBytes \/ GiveUp
     \/ Announce \/ Awake \/ FillSilence \/ FillFrame

-----------------------------------------------------------------------------
(* The audio callback, called by the audio thread of SDL. *)

CbStep(from, to) == cb.pc = from /\ cb' = [cb EXCEPT !.pc = to]

(* SDL_RunAudio tests whether it is paused before it takes the lock. *)
CallBack ==
  /\ flag.running /\ CbStep("idle", "called")
  /\ UNCHANGED <<stream, ring, buf, flag, sem, dec, sync, ctl, crash, ghost>>

(* StopHardware, and the flags that let the sync thread start again. *)
Stopped == [flag EXCEPT !.running = FALSE, !.paused = TRUE]

(* Mutant: the sync thread is not told that the sound has stopped.           *)
CallEmptyUntold ==
  /\ buf.filled = 0
  /\ CbStep("called", "idle")
  /\ flag' = [flag EXCEPT !.running = FALSE] /\ buf' = [buf EXCEPT !.firstFilled = FALSE]
  /\ UNCHANGED <<stream, ring, sem, dec, sync, ctl, crash, ghost>>

(* Nothing to play: the hardware is stopped and nobody is told. *)
CallEmpty ==
  /\ buf.filled = 0
  /\ CbStep("called", "idle")
  /\ flag' = Stopped /\ buf' = [buf EXCEPT !.firstFilled = FALSE]
  /\ UNCHANGED <<stream, ring, sem, dec, sync, ctl, crash, ghost>>

(* Mutant: the offset is not wrapped. *)
AdjustUnwrapped(drop, add) ==
  /\ drop + add > 0 => ~flag.firstCall /\ ghost.adjusts < MaxAdjusts
  /\ add = 0 \/ buf.play # 0
  /\ cb' = [pc |-> "copy", len |-> OutSize - add]
  /\ buf' = [buf EXCEPT !.filled = @ - drop, !.play = @ + drop]
  /\ ghost' = [ghost EXCEPT !.adjusts = IF drop + add > 0 THEN @ + 1 ELSE @]

(* After five seconds the callback makes up for the drift of the hardware:   *)
(* it drops sound, or puts an interpolated unit before it.                   *)
Adjust(drop, add) ==
  /\ drop + add > 0 => ~flag.firstCall /\ ghost.adjusts < MaxAdjusts
  /\ add = 0 \/ buf.play # 0
  /\ cb' = [pc |-> "copy", len |-> OutSize - add]
  /\ buf' = [buf EXCEPT !.filled = @ - drop,
               !.play = IF @ + drop > RingSize THEN @ + drop - RingSize ELSE @ + drop]
  /\ ghost' = [ghost EXCEPT
       !.adjusts = IF drop + add > 0 THEN @ + 1 ELSE @,
       !.stale = @ \/ ~flag.running,
       !.due = IF @ = None THEN None ELSE @ + drop,
       !.lost = @ \/ (buf.resync /\ \E i \in 0 .. drop - 1 : Place(i) = buf.resyncAt)]

EnterCallback ==
  /\ cb.pc = "called" /\ buf.filled > 0
  /\ \/ \E drop \in 0 .. buf.filled : Adjust(drop, 0)
     \/ Adjust(0, 1)
  /\ UNCHANGED <<stream, ring, flag, sem, dec, sync, ctl, crash>>

(* Mutant: not over the end of the ring, but over the end of the sound. *)
DecodedUnfilled ==
  IF buf.resync
  THEN IF buf.resyncAt < buf.play THEN RingSize - buf.play ELSE buf.resyncAt - buf.play
  ELSE RingSize - buf.play

(* Mutant: over the end of the ring. *)
DecodedPastEnd ==
  IF buf.resync
  THEN IF buf.resyncAt < buf.play THEN RingSize - buf.play ELSE buf.resyncAt - buf.play
  ELSE buf.filled

(* Up to the resync if one is pending, else up to the end of the sound; but  *)
(* not over the end of the ring.                                             *)
Decoded ==
  IF buf.resync
  THEN IF buf.resyncAt < buf.play THEN RingSize - buf.play ELSE buf.resyncAt - buf.play
  ELSE IF buf.play + buf.filled > RingSize THEN RingSize - buf.play ELSE buf.filled

(* What one turn of the copy loop takes. *)
Chunk == IF Decoded < cb.len THEN Decoded ELSE cb.len

(* One turn of the copy loop. *)
CopyOut ==
  LET n == Chunk
      play == IF buf.play + n >= RingSize THEN 0 ELSE buf.play + n
      done == \/ cb.len = n \/ buf.filled = n
              \/ buf.resync /\ play = buf.resyncAt
      heard == [i \in 0 .. n - 1 |-> TimeAt(Place(i))]
  IN  /\ cb.pc = "copy"
      /\ IF n > buf.filled
         THEN crash' = TRUE /\ UNCHANGED <<buf, cb, ghost>>
         ELSE /\ buf' = [buf EXCEPT !.play = play, !.filled = @ - n]
              /\ cb' = [cb EXCEPT !.pc = IF done THEN "underrun" ELSE "copy",
                                  !.len = @ - n]
              /\ ghost' = IF n = 0 THEN ghost ELSE
                   [ghost EXCEPT
                      !.broken = \/ @
                                 \/ \E i \in 1 .. n - 1 : heard[i] # heard[0] + i
                                 \/ ghost.due # None /\ heard[0] # ghost.due,
                      !.due = heard[n - 1] + 1,
                      !.start = IF @ = None THEN heard[0] ELSE @]
              /\ UNCHANGED crash
      /\ UNCHANGED <<stream, ring, flag, sem, dec, sync, ctl>>

(* Mutant: the time of the first sound stays valid. *)
UnderrunKeepsTime ==
  /\ CbStep("underrun", "resync")
  /\ flag' = IF buf.filled = 0 /\ cb.len # 0 /\ ~flag.eof THEN Stopped ELSE flag
  /\ UNCHANGED <<stream, ring, buf, sem, dec, sync, ctl, crash, ghost>>

(* "ran out of bytes" *)
Underrun ==
  /\ CbStep("underrun", "resync")
  /\ IF buf.filled = 0 /\ cb.len # 0 /\ ~flag.eof
     THEN flag' = Stopped /\ buf' = [buf EXCEPT !.firstFilled = FALSE]
     ELSE UNCHANGED <<flag, buf>>
  /\ UNCHANGED <<stream, ring, sem, dec, sync, ctl, crash, ghost>>

StopForResync ==
  /\ CbStep("resync", "report")
  /\ flag' = IF buf.resync /\ buf.play = buf.resyncAt THEN Stopped ELSE flag
  /\ UNCHANGED <<stream, ring, buf, sem, dec, sync, ctl, crash, ghost>>

(* The first callback after play_audio tells the session that the audio is   *)
(* ready and at what time.                                                   *)
ReportReady ==
  /\ CbStep("report", "done")
  /\ flag' = IF flag.firstCall THEN [flag EXCEPT !.firstCall = FALSE, !.awaited = FALSE]
             ELSE flag
  /\ ghost' = IF flag.firstCall
              THEN [ghost EXCEPT !.clock = buf.firstTs]
              ELSE ghost
  /\ UNCHANGED <<stream, ring, buf, sem, dec, sync, ctl, crash>>

(* The decode thread has found that it must wait, but has not said so yet. *)
NotYetWaiting == ~flag.waiting /\ dec.pc = "announce"

(* Mutant: the decode thread is woken only while there is sound to play. *)
CallbackDoneNotEmpty ==
  /\ CbStep("done", IF flag.waiting /\ buf.filled > 0 THEN "post" ELSE "idle")
  /\ ghost' = [ghost EXCEPT !.missed = @ \/ NotYetWaiting]
  /\ UNCHANGED <<stream, ring, buf, flag, sem, dec, sync, ctl, crash>>

(* callback_done *)
CallbackDone ==
  /\ CbStep("done", IF flag.waiting THEN "post" ELSE "idle")
  /\ ghost' = [ghost EXCEPT !.missed = @ \/ NotYetWaiting]
  /\ UNCHANGED <<stream, ring, buf, flag, sem, dec, sync, ctl, crash>>

CallbackPost ==
  /\ CbStep("post", "idle")
  /\ flag' = [flag EXCEPT !.waiting = FALSE] /\ sem' = sem + 1
  /\ UNCHANGED <<stream, ring, buf, dec, sync, ctl, crash, ghost>>

AudioCallback ==
  /\ ~crash
  /\ \/ CallBack \/ CallEmpty \/ EnterCallback \/ CopyOut \/ Underrun \/ StopForResync
     \/ ReportReady \/ CallbackDone \/ CallbackPost

-----------------------------------------------------------------------------
(* The sync thread. *)

SyncTo(state) == sync' = [sync EXCEPT !.state = state]

AtTop(state) == sync.pc = "top" /\ sync.state = state /\ sync.queue = << >>

(* Mutant: the end of the stream survives the pause. *)
ProcessMessagesKeepEof ==
  LET last == sync.queue[Len(sync.queue)]
      state == IF last = "START" THEN "WAIT_SYNC" ELSE "PAUSED"
  IN  /\ sync.pc = "top" /\ sync.queue # << >>
      /\ IF state # "PAUSED" \/ sync.state = "PAUSED"
         THEN /\ sync' = [sync EXCEPT !.state = state, !.queue = << >>]
              /\ UNCHANGED <<flag, ghost>>
         ELSE /\ sync' = [sync EXCEPT !.state = state, !.queue = << >>,
                            !.pc = IF flag.waiting THEN "post" ELSE "done"]
              /\ flag' = [flag EXCEPT !.running = FALSE, !.dontFill = TRUE]
              /\ ghost' = [ghost EXCEPT !.missed = @ \/ NotYetWaiting]
      /\ UNCHANGED <<stream, ring, buf, sem, dec, cb, ctl, crash>>

(* process_msg_queue takes all there is.  When the state becomes PAUSED the  *)
(* sound is flushed: flush_sync_buffers, up to the test of callback_done.    *)
ProcessMessages ==
  LET last == sync.queue[Len(sync.queue)]
      state == IF last = "START" THEN "WAIT_SYNC" ELSE "PAUSED"
  IN  /\ sync.pc = "top" /\ sync.queue # << >>
      /\ IF state # "PAUSED" \/ sync.state = "PAUSED"
         THEN /\ sync' = [sync EXCEPT !.state = state, !.queue = << >>]
              /\ UNCHANGED <<flag, ghost>>
         ELSE /\ sync' = [sync EXCEPT !.state = state, !.queue = << >>,
                            !.pc = IF flag.waiting THEN "post" ELSE "done"]
              /\ flag' = [flag EXCEPT !.eof = FALSE, !.running = FALSE, !.dontFill = TRUE]
              /\ ghost' = [ghost EXCEPT !.missed = @ \/ NotYetWaiting]
      /\ UNCHANGED <<stream, ring, buf, sem, dec, cb, ctl, crash>>

SyncPost ==
  /\ sync.pc = "post" /\ sync' = [sync EXCEPT !.pc = "done"]
  /\ flag' = [flag EXCEPT !.waiting = FALSE] /\ sem' = sem + 1
  /\ UNCHANGED <<stream, ring, buf, dec, cb, ctl, crash, ghost>>

(* m_sync_pause_done *)
PauseDone ==
  /\ sync.pc = "done" /\ sync' = [sync EXCEPT !.pc = "top", !.done = TRUE]
  /\ UNCHANGED <<stream, ring, buf, flag, sem, dec, cb, ctl, crash, ghost>>

(* play_audio up to its StartHardware.  A resync that is pending is gone.    *)
PlayAudio(firstTs) ==
  /\ buf' = [buf EXCEPT !.resync = FALSE, !.firstTs = firstTs]
  /\ ghost' = [Silent EXCEPT !.lost = @ \/ (buf.resync /\ buf.resyncAt # Wrap(buf.play)),
                             !.stale = @ \/ cb.pc # "idle"]

(* is_audio_ready *)
WaitSync ==
  /\ AtTop("WAIT_SYNC")
  /\ ~flag.dontFill /\ buf.filled >= 2 * OutSize
  /\ sync' = [sync EXCEPT !.state = "WAIT_AUDIO", !.pc = "start"]
  /\ flag' = [flag EXCEPT !.awaited = TRUE, !.paused = FALSE, !.firstCall = TRUE]
  /\ PlayAudio(buf.firstTs)
  /\ UNCHANGED <<stream, ring, sem, dec, cb, ctl, crash>>

StartHardware ==
  /\ sync.pc = "start" /\ sync' = [sync EXCEPT !.pc = "top"]
  /\ flag' = [flag EXCEPT !.running = TRUE]
  /\ UNCHANGED <<stream, ring, buf, sem, dec, cb, ctl, crash, ghost>>

WaitAudio ==
  /\ AtTop("WAIT_AUDIO") /\ ~flag.awaited
  /\ SyncTo("PLAYING")
  /\ UNCHANGED <<stream, ring, buf, flag, sem, dec, cb, ctl, crash, ghost>>

(* check_audio_sync: the end, when the callback has stopped. *)
AudioEnds ==
  /\ AtTop("PLAYING") /\ flag.eof /\ flag.paused
  /\ SyncTo("DONE")
  /\ UNCHANGED <<stream, ring, buf, flag, sem, dec, cb, ctl, crash, ghost>>

(* check_audio_sync: at a resync; the time up to it decides what is done.    *)
ResyncDue == AtTop("PLAYING") /\ ~flag.eof /\ buf.resync /\ flag.paused

ResyncLater ==
  /\ ResyncDue
  /\ buf' = [buf EXCEPT !.firstTs = buf.resyncTs]
  /\ UNCHANGED <<stream, ring, flag, sem, dec, cb, sync, ctl, crash, ghost>>

ResyncNow ==
  /\ ResyncDue
  /\ sync' = [sync EXCEPT !.pc = "start"]
  /\ flag' = [flag EXCEPT !.paused = FALSE, !.firstCall = TRUE]
  /\ PlayAudio(buf.resyncTs)
  /\ UNCHANGED <<stream, ring, sem, dec, cb, ctl, crash>>

ResyncAnew ==
  /\ ResyncDue
  /\ SyncTo("WAIT_SYNC")
  /\ buf' = [buf EXCEPT !.firstTs = buf.resyncTs]
  /\ UNCHANGED <<stream, ring, flag, sem, dec, cb, ctl, crash, ghost>>

(* check_audio_sync: the sound had run out, and there is enough again. *)
RestartFromStopped ==
  /\ AtTop("PLAYING") /\ ~flag.eof /\ ~buf.resync /\ flag.paused
  /\ buf.filled >= 2 * OutSize
  /\ SyncTo("WAIT_SYNC")
  /\ UNCHANGED <<stream, ring, buf, flag, sem, dec, cb, ctl, crash, ghost>>

SyncThread ==
  /\ ~crash
  /\ \/ ProcessMessages \/ SyncPost \/ PauseDone \/ WaitSync \/ StartHardware
     \/ WaitAudio \/ AudioEnds \/ ResyncLater \/ ResyncNow \/ ResyncAnew
     \/ RestartFromStopped

-----------------------------------------------------------------------------
(* The controller: pause_all_media, and play_all_media from any position. *)

CStep(from, to) == ctl.pc = from /\ ctl' = [ctl EXCEPT !.pc = to]

Pause ==
  /\ ctl.pc = "playing" /\ ctl.pauses < MaxPauses
  /\ ctl' = [pc |-> "pauseSync", pauses |-> ctl.pauses + 1,
             queue |-> Append(ctl.queue, "PAUSE")]
  /\ UNCHANGED <<sync, dec>>

PauseSync ==
  /\ CStep("pauseSync", "waitDone")
  /\ sync' = [sync EXCEPT !.queue = Append(@, "PAUSE"), !.done = FALSE]
  /\ UNCHANGED dec

WaitDone ==
  /\ sync.done /\ CStep("waitDone", "paused")
  /\ UNCHANGED <<sync, dec>>

PlaySync ==
  /\ CStep("paused", "move")
  /\ sync' = [sync EXCEPT !.queue = Append(@, "START")]
  /\ UNCHANGED dec

(* m_byte_stream->play; the decode thread may not have stopped yet. *)
Move ==
  /\ CStep("move", "startDecoding")
  /\ \E pos \in 1 .. Len(stream) : dec' = [dec EXCEPT !.pos = pos]
  /\ UNCHANGED sync

StartDecoding ==
  /\ ctl.pc = "startDecoding"
  /\ ctl' = [ctl EXCEPT !.pc = "playing", !.queue = Append(@, "START")]
  /\ UNCHANGED <<sync, dec>>

Controller ==
  /\ ~crash
  /\ Pause \/ PauseSync \/ WaitDone \/ PlaySync \/ Move \/ StartDecoding
  /\ UNCHANGED <<stream, ring, buf, flag, sem, cb, crash, ghost>>

Next == DecodeThread \/ AudioCallback \/ SyncThread \/ Controller

(* The threads run on, and a pause that has begun is completed; nobody has   *)
(* to pause.  Between ResyncLater and ResyncNow time passes, which it does.  *)
Fairness ==
  /\ WF_vars(DecodeThread) /\ WF_vars(AudioCallback) /\ WF_vars(SyncThread)
  /\ WF_vars(Controller /\ ctl.pc # "playing")

Spec == Init /\ [][Next]_vars /\ Fairness

-----------------------------------------------------------------------------
(* Properties. *)

(* Every variable stays in its range; the offsets never leave the ring.      *)
TypeOK ==
  /\ stream \in Streams
  /\ ring \in [0 .. RingSize - 1 -> Int]
  /\ buf \in Buffer /\ flag \in Flags /\ sem \in Nat
  /\ dec \in Decoder /\ cb \in Callback /\ sync \in Sync /\ ctl \in Control
  /\ crash \in BOOLEAN

(* The three numbers the threads keep of the ring agree. *)
OffsetsAgree == Wrap(buf.play + buf.filled) = buf.fill

(* The sound in the ring has no jump but at the resync that is pending. *)
NoJump ==
  \A i \in 1 .. buf.filled - 1 :
    \/ TimeAt(Place(i)) = TimeAt(Place(i - 1)) + 1
    \/ buf.resync /\ Place(i) = buf.resyncAt

(* fill_silence, load_audio_buffer and audio_buffer_callback: the offsets    *)
(* agree across every wrap, and the sound that waits is in order, unless a   *)
(* resync has been lost.                                                     *)
RingInOrder == OffsetsAgree /\ (ghost.lost \/ NoJump)

(* audio_buffer_callback copies up to a resync without looking at the level: *)
(* m_filled_bytes can go below zero, but only if a resync was lost or is     *)
(* stale.                                                                    *)
UnderflowOnlyIfLost == crash => ghost.lost

(* What audio_is_ready is told is the time of the first sound that is heard, *)
(* and from there on the sound goes on without a jump, so that the clock of  *)
(* the session is that of the sound: unless a resync was lost, m_first_ts    *)
(* had been set to the time of later sound, or a callback was under way when *)
(* the sound was stopped or started.                                         *)
SoundMatchesClock ==
  \/ ghost.lost
  \/ /\ ~ghost.broken
     /\ \/ ghost.early \/ ghost.stale
        \/ ghost.clock = None \/ ghost.start = None
        \/ ghost.clock = ghost.start

(* The sync thread has nothing to do: no message, and none of the conditions *)
(* that its states wait for.                                                 *)
SyncRests ==
  /\ sync.pc = "top" /\ sync.queue = << >>
  /\ sync.state = "WAIT_SYNC" => flag.dontFill \/ buf.filled < 2 * OutSize
  /\ sync.state = "WAIT_AUDIO" => flag.awaited
  /\ sync.state = "PLAYING" /\ flag.paused =>
       ~flag.eof /\ ~buf.resync /\ buf.filled < 2 * OutSize

(* Nobody is left to wake the decode thread; the end of the session would.   *)
Stuck ==
  /\ dec.pc = "asleep" /\ sem = 0
  /\ cb.pc = "idle" /\ ~flag.running
  /\ SyncRests /\ sync.state # "DONE"
  /\ ctl.pc = "playing"

(* wait_for_callback sleeps for ever in three cases only: the callback, or   *)
(* the flush of a pause, came between its test and m_audio_waiting_buffer;   *)
(* it waits for a resync that is pending and the sound has not begun; or a   *)
(* resync was lost.                                                          *)
StuckOnlyIfMissed ==
  Stuck => ghost.missed \/ ghost.lost \/ (dec.tries = 0 /\ buf.resync)

(* check_audio_sync ends the session only when the decode thread is at the   *)
(* end of the stream, although m_eof is set by one thread and cleared by     *)
(* another: unless set_eof came after the clear_eof of a pause.              *)
EndsAtEnd == sync.state = "DONE" => dec.pos > Len(stream) \/ ghost.lateEof

(* When the stream has ended the session plays out and ends. *)
EofEnds ==
  (flag.eof /\ sync.state = "PLAYING") ~> (crash \/ sync.state \in {"PAUSED", "DONE"})
=============================================================================
