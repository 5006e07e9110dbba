---------------------------- MODULE PlayerSession ----------------------------
(***************************************************************************)
(* A session of the player from its start to its destruction: the main     *)
(* loop with the keys of the user (main.cpp), CPlayerSession::             *)
(* pause_all_media and play_all_media, the sync thread with all ten states *)
(* of sync.cpp, the audio callback, and a decode thread per medium.        *)
(* The media come from a file: at most one audio and one video track.      *)
(*                                                                         *)
(* The rings are abstract here (TimedSync and PausePlay have the video     *)
(* ring in detail): a level, which is Full when is_audio_ready or is_ready *)
(* have what they ask for.  Time is abstract: what depends on it is chosen.*)
(***************************************************************************)
EXTENDS Integers, Sequences, FiniteSets

CONSTANTS MaxLoop,   \* --loop, -1 for ever
          Files,     \* the sets of tracks a file can have
          UserKeys,  \* the events the user can make
          MaxKeys    \* bound: how many with one track; one less with two

Media == {"audio", "video"}
Keys == {"SPACE", "HOME", "END", "CTRL_X", "QUIT"}

ASSUME LoopAssumption == MaxLoop \in Nat \cup {-1}
ASSUME FilesAssumption == Files \subseteq SUBSET Media \ {{}}
ASSUME KeysAssumption == UserKeys \subseteq Keys /\ MaxKeys \in Nat

VARIABLES
  shortRender,     \* CONFIG_SHORT_VIDEO_RENDER
  media,           \* tracks found in the file
  track,           \* what sync and decode thread keep of each medium
  audio,           \* flags of CBufferAudioSync
  waitingForAudio, \* m_waiting_for_audio
  syncState,       \* state of the sync thread
  newState,        \* what its state handler returns
  spc,             \* where the sync thread is
  syncQueue,       \* m_sync_thread_msg_queue
  sessionState,    \* m_session_state
  pauseDone,       \* m_sync_pause_done
  hardwareError,   \* m_hardware_error
  mpc,             \* where the main thread is
  after,           \* where it goes on after pause_all_media
  ui,              \* locals of main_start_session
  paused,          \* m_paused
  masterQueue,     \* m_master_msg_queue
  keys,            \* history: events the user has made
  initPause        \* history: a pause acknowledged before initialisation

mediaVars == <<media, track, audio, waitingForAudio>>
syncLoopVars == <<syncState, newState, spc>>
syncVars == <<syncLoopVars, hardwareError>>
mainVars == <<mpc, after, ui, paused>>
history == <<keys, initPause>>
vars == <<shortRender, mediaVars, syncVars, syncQueue, sessionState, pauseDone,
          mainVars, masterQueue, history>>

Full(m) == IF m = "audio" THEN 2 ELSE 1
SyncStates == {"INIT", "WAIT_SYNC", "WAIT_AUDIO", "PLAYING", "PAUSED",
               "AUDIO_RESYNC", "DONE", "EXIT", "WAIT_AUDIO_READY",
               "WAIT_TIMED_INIT"}
SyncPC == {"start", "top", "initMessage", "enter", "publish", "acknowledge", "ended"}
PausePC == {"pause", "sendPause", "spin"}
PlayPC == {"play", "sendStart", "playMedia"}
MainPC == {"inner", "count", "delete", "join", "ended"} \cup PausePC \cup PlayPC

HasAudio == "audio" \in media
HasVideo == "video" \in media
Initialised(tr, m) == tr[m].setup = "initialised"

Init ==
  /\ shortRender \in BOOLEAN
  /\ media = {}
  /\ track = [m \in Media |-> [setup |-> "none", level |-> 0, closed |-> FALSE,
                               eof |-> FALSE, dpc |-> "wait", queue |-> << >>]]
  /\ audio = [paused |-> TRUE, running |-> FALSE, resync |-> FALSE]
  /\ waitingForAudio = FALSE
  /\ syncState = "INIT" /\ newState = "INIT" /\ spc = "start"
  /\ syncQueue = << >> /\ masterQueue = << >>
  /\ sessionState = "PAUSED" /\ pauseDone = FALSE /\ hardwareError = FALSE
  /\ mpc = "inner" /\ after = "inner" /\ paused = FALSE
  /\ ui = [paused |-> FALSE, stop |-> FALSE, maxLoop |-> MaxLoop, loopCount |-> 0]
  /\ keys = 0 /\ initPause = "no"

-----------------------------------------------------------------------------
(* The decode thread of a medium.  It looks for one message per frame, so    *)
(* that one which comes after it has looked waits for a frame: in "run" the  *)
(* thread may have looked or be about to, and stores one frame at most       *)
(* before it takes a message; in "look" there is one for it to take.         *)

NextTurn(queue) == IF queue = << >> THEN "run" ELSE "look"

Flushed(t) == [t EXCEPT !.closed = FALSE, !.level = 0]

SendDecoders(message, ms) ==
  track' = [m \in Media |-> IF m \in ms
                            THEN [track[m] EXCEPT !.queue = Append(@, message)]
                            ELSE track[m]]

(* The threads of the media end with the session. *)
DecoderLeaves ==
  /\ mpc # "ended"
  /\ UNCHANGED <<shortRender, media, waitingForAudio, syncVars, syncQueue,
                 sessionState, pauseDone, mainVars, masterQueue, history>>

(* parse_decode_message; a flush of the audio buffer also marks it paused.   *)
TakeDecodeMessage(m) ==
  LET t == track[m]
  IN  /\ t.queue # << >>
      /\ track' = [track EXCEPT ![m] = [Flushed(t) EXCEPT
                     !.queue = Tail(@),
                     !.dpc = IF Head(t.queue) = "PAUSE" THEN "wait"
                             ELSE IF t.dpc = "wait" THEN NextTurn(Tail(t.queue))
                             ELSE "run"]]
      /\ audio' = IF m = "audio" THEN [audio EXCEPT !.paused = TRUE] ELSE audio
      /\ DecoderLeaves

Configured(t) == IF t.setup = "none" THEN "configured" ELSE t.setup

(* Mutant: no wait for room. *)
DecodeFrameUnchecked(m) ==
  /\ track[m].dpc = "run"
  /\ track' = [track EXCEPT ![m].setup = Configured(track[m]),
                            ![m].dpc = NextTurn(track[m].queue), ![m].level = @ + 1]
  /\ UNCHANGED audio
  /\ DecoderLeaves

(* A frame is decoded and stored, unless the ring is closed; a full ring     *)
(* makes the thread wait.  Audio that does not follow the last samples is    *)
(* marked for a resync.                                                      *)
DecodeFrame(m) ==
  /\ track[m].dpc = "run"
  /\ \/ track[m].closed /\ track' = [track EXCEPT ![m].setup = Configured(track[m]),
                                                  ![m].dpc = NextTurn(track[m].queue)]
                        /\ UNCHANGED audio
     \/ /\ ~track[m].closed /\ track[m].level < Full(m)
        /\ track' = [track EXCEPT ![m].setup = Configured(track[m]),
                                  ![m].dpc = NextTurn(track[m].queue),
                                  ![m].level = @ + 1]
        /\ \/ UNCHANGED audio
           \/ /\ m = "audio" /\ track[m].level > 0
              /\ audio' = [audio EXCEPT !.resync = TRUE]
  /\ DecoderLeaves

EndOfFile(m) ==
  /\ track[m].dpc = "run"
  /\ track' = [track EXCEPT ![m].eof = TRUE, ![m].dpc = "wait"]
  /\ UNCHANGED audio
  /\ DecoderLeaves

DecodeThread(m) ==
  TakeDecodeMessage(m) \/ DecodeFrame(m) \/ EndOfFile(m)

-----------------------------------------------------------------------------
(* audio_buffer_callback, called by SDL while the hardware runs.             *)

CallbackLeaves ==
  /\ mpc # "ended"
  /\ UNCHANGED <<shortRender, media, syncVars, syncQueue, sessionState, pauseDone,
                 mainVars, masterQueue, history>>

Underrun ==
  /\ audio.running /\ track["audio"].level = 0
  /\ audio' = [audio EXCEPT !.running = FALSE, !.paused = TRUE]
  /\ UNCHANGED <<track, waitingForAudio>>
  /\ CallbackLeaves

(* The hardware stops at the point of a resync, or if the samples run out    *)
(* before the end of the stream.  The first call after play_audio for which  *)
(* there are any (m_first_callback) reports that the audio is ready; later   *)
(* nobody waits for that.                                                    *)
PlaySamples ==
  /\ audio.running /\ track["audio"].level > 0
  /\ track' = [track EXCEPT !["audio"].level = @ - 1]
  /\ \E stop \in {audio.resync, track["audio"].level = 1 /\ ~track["audio"].eof, FALSE} :
       audio' = [audio EXCEPT !.running = ~stop, !.paused = @ \/ stop]
  /\ waitingForAudio' = FALSE
  /\ CallbackLeaves

AudioCallback == Underrun \/ PlaySamples

-----------------------------------------------------------------------------
(* The sync thread.  At "top" it polls SDL, and goes on with the handler of  *)
(* its state, which drains the queue first unless the state is INIT.         *)

SStep(from, to) == spc = from /\ spc' = to

(* The handler of syncState returns s. *)
Return(s) ==
  /\ newState' = s
  /\ spc' = IF s = syncState THEN "top" ELSE "enter"

(* Mutant: flush_sync_buffers leaves m_dont_fill alone. *)
OpenTracks(tr, ms) ==
  [m \in Media |-> IF m \in ms THEN [tr[m] EXCEPT !.eof = FALSE] ELSE tr[m]]

(* flush_sync_buffers of the media ms in the tracks tr. *)
ClosedTracks(tr, ms) ==
  [m \in Media |-> IF m \in ms THEN [tr[m] EXCEPT !.closed = TRUE, !.eof = FALSE]
                               ELSE tr[m]]

StopAudio(ms) == IF "audio" \in ms THEN [audio EXCEPT !.running = FALSE] ELSE audio

FlushSync(ms) == track' = ClosedTracks(track, ms) /\ audio' = StopAudio(ms)

SyncLeaves == UNCHANGED <<shortRender, mainVars, keys>>

(* c_sync_thread, start_session_work and the play_all_media it calls; a      *)
(* session that cannot be started makes one turn in EXIT.                    *)
StartSession ==
  /\ spc = "start"
  /\ \/ /\ media' \in Files
        /\ sessionState' = "BUFFERING"
        /\ syncQueue' = Append(syncQueue, "START")
        /\ SendDecoders("START", media')
        /\ spc' = "top"
        /\ UNCHANGED <<syncState, newState, masterQueue>>
     \/ /\ masterQueue' = Append(masterQueue, "ERROR")
        /\ syncState' = "EXIT" /\ newState' = "EXIT" /\ spc' = "top"
        /\ UNCHANGED <<media, track, sessionState, syncQueue>>
  /\ UNCHANGED <<audio, waitingForAudio, hardwareError, pauseDone, initPause>>
  /\ SyncLeaves

At(s) == spc = "top" /\ syncState = s /\ newState = s

(* process_sdl_events. *)
UserEvent ==
  /\ At(syncState)
  /\ keys + Cardinality(media) <= MaxKeys /\ keys' = keys + 1
  /\ \E k \in UserKeys : masterQueue' = Append(masterQueue, k)
  /\ UNCHANGED <<shortRender, mediaVars, syncVars, syncQueue, sessionState,
                 pauseDone, mainVars, initPause>>

ThreadEnds ==
  /\ At("EXIT") /\ spc' = "ended"
  /\ UNCHANGED <<mediaVars, syncState, newState, hardwareError, syncQueue,
                 sessionState, pauseDone, masterQueue, initPause>>
  /\ SyncLeaves

(* The media that a call of their initialize routine finds configured. *)
Tried(ms) ==
  [m \in Media |-> IF m \in ms /\ track[m].setup = "configured"
                   THEN [track[m] EXCEPT !.setup = "initialised"] ELSE track[m]]

InitLeaves ==
  /\ sessionState' = "BUFFERING"
  /\ UNCHANGED <<media, waitingForAudio, syncState, syncQueue, pauseDone, initPause>>
  /\ SyncLeaves

(* sync_thread_init: the audio comes first, and with a short video render    *)
(* alone.                                                                    *)
InitAudioFirst ==
  /\ At("INIT") /\ HasAudio /\ shortRender
  /\ track' = Tried({"audio"}) /\ Initialised(track', "audio")
  /\ Return("WAIT_AUDIO_READY")
  /\ UNCHANGED <<audio, masterQueue, hardwareError>>
  /\ InitLeaves

InitMedia ==
  /\ At("INIT")
  /\ track' = Tried(media)
  /\ ~(HasAudio /\ shortRender /\ Initialised(track', "audio"))
  /\ IF \A m \in media : Initialised(track', m)
     THEN Return("WAIT_SYNC")
     ELSE spc' = "initMessage" /\ UNCHANGED newState
  /\ UNCHANGED <<audio, masterQueue, hardwareError>>
  /\ InitLeaves

(* The audio hardware fails, or a medium did not come in time. *)
InitFails ==
  /\ At("INIT")
  /\ \/ HasAudio /\ track["audio"].setup = "configured"
        /\ track' = ClosedTracks(Tried(media \ {"audio"}), media)
     \/ /\ \E m \in media : track[m].setup = "none"
        /\ ~(HasAudio /\ shortRender /\ track["audio"].setup # "none")
        /\ track' = ClosedTracks(Tried(media), media)
  /\ audio' = StopAudio(media)
  /\ masterQueue' = Append(masterQueue, "QUIT")
  /\ hardwareError' = TRUE
  /\ Return("DONE")
  /\ InitLeaves

InitMessageLeaves ==
  /\ UNCHANGED <<mediaVars, syncState, hardwareError, sessionState, masterQueue>>
  /\ SyncLeaves

(* Mutant: a stop is taken from the queue and not looked at. *)
InitMessageNoStop ==
  /\ spc = "initMessage"
  /\ \/ syncQueue = << >> /\ Return("INIT") /\ UNCHANGED <<syncQueue, pauseDone, initPause>>
     \/ /\ syncQueue # << >> /\ syncQueue' = Tail(syncQueue)
        /\ Return("INIT")
        /\ IF Head(syncQueue) = "PAUSE" THEN pauseDone' = TRUE /\ initPause' = "now"
                                        ELSE UNCHANGED <<pauseDone, initPause>>
  /\ InitMessageLeaves

(* Mutant: messages change the state here as they do elsewhere. *)
InitMessageAsElsewhere ==
  /\ spc = "initMessage"
  /\ \/ syncQueue = << >> /\ Return("INIT") /\ UNCHANGED syncQueue
     \/ /\ syncQueue # << >> /\ syncQueue' = Tail(syncQueue)
        /\ Return(CASE Head(syncQueue) = "STOP" -> "EXIT"
                    [] Head(syncQueue) = "PAUSE" -> "PAUSED"
                    [] OTHER -> "INIT")
  /\ UNCHANGED <<pauseDone, initPause>>
  /\ InitMessageLeaves

(* One message per turn: a pause is acknowledged, although the session goes  *)
(* on with its initialisation.                                               *)
InitMessage ==
  /\ spc = "initMessage"
  /\ \/ syncQueue = << >> /\ Return("INIT") /\ UNCHANGED <<syncQueue, pauseDone, initPause>>
     \/ /\ syncQueue # << >> /\ syncQueue' = Tail(syncQueue)
        /\ Return(IF Head(syncQueue) = "STOP" THEN "EXIT" ELSE "INIT")
        /\ IF Head(syncQueue) = "PAUSE" THEN pauseDone' = TRUE /\ initPause' = "now"
                                        ELSE UNCHANGED <<pauseDone, initPause>>
  /\ InitMessageLeaves

(* process_msg_queue: the state after message msg in state s. *)
AfterMessage(msg, s) ==
  CASE msg = "PAUSE" -> "PAUSED"
    [] msg = "STOP" -> "EXIT"
    [] msg = "START" /\ s \in {"INIT", "WAIT_AUDIO_READY", "WAIT_TIMED_INIT"} -> s
    [] OTHER -> "WAIT_SYNC"

DrainQueue ==
  /\ spc = "top" /\ syncState \notin {"INIT", "EXIT"} /\ syncQueue # << >>
  /\ newState' = AfterMessage(Head(syncQueue), newState)
  /\ syncQueue' = Tail(syncQueue)
  /\ UNCHANGED <<mediaVars, syncState, spc, hardwareError, sessionState, pauseDone,
                 masterQueue, initPause>>
  /\ SyncLeaves

(* In PAUSED and DONE the handler does no more than drain the queue. *)
In(s) == At(s) /\ syncQueue = << >>

HandlerLeaves ==
  /\ UNCHANGED <<media, syncState, syncQueue, hardwareError, sessionState,
                 pauseDone, masterQueue, initPause>>
  /\ SyncLeaves

(* play_audio; without a device StartHardware does nothing. *)
PlayingAudio ==
  [paused |-> FALSE, running |-> Initialised(track, "audio"), resync |-> FALSE]

(* is_ready and is_audio_ready.  The size that the level of the audio is     *)
(* compared with is uninitialised without a device.                          *)
CanBeReady(m) ==
  /\ ~track[m].closed
  /\ \/ track[m].level = Full(m)
     \/ m = "audio" /\ ~Initialised(track, m)
CanBeUnready(m) ==
  \/ ~CanBeReady(m)
  \/ m = "audio" /\ ~Initialised(track, m)

StartAudio(next) ==
  /\ audio' = PlayingAudio /\ waitingForAudio' = TRUE
  /\ Return(next)

WaitSync ==
  /\ In("WAIT_SYNC")
  /\ \/ /\ \A m \in media : CanBeReady(m)
        /\ \/ HasAudio /\ StartAudio("WAIT_AUDIO")
           \/ ~HasAudio /\ waitingForAudio' = FALSE /\ Return("PLAYING")
                        /\ UNCHANGED audio
     \/ /\ \E m \in media : CanBeUnready(m)
        /\ Return("WAIT_SYNC") /\ UNCHANGED <<audio, waitingForAudio>>
  /\ UNCHANGED track
  /\ HandlerLeaves

WaitAudio ==
  /\ In("WAIT_AUDIO")
  /\ Return(IF waitingForAudio THEN "WAIT_AUDIO" ELSE "PLAYING")
  /\ UNCHANGED <<track, audio, waitingForAudio>>
  /\ HandlerLeaves

WaitAudioReady ==
  /\ In("WAIT_AUDIO_READY")
  /\ \/ CanBeReady("audio") /\ StartAudio("WAIT_TIMED_INIT")
     \/ CanBeUnready("audio") /\ Return("WAIT_AUDIO_READY")
                              /\ UNCHANGED <<audio, waitingForAudio>>
  /\ UNCHANGED track
  /\ HandlerLeaves

(* What check_audio_sync can say: a resync, also with a restart because its  *)
(* time is past, or that play_audio has been called.                         *)
AudioSync ==
  IF track["audio"].eof THEN {"fine"}
  ELSE IF audio.resync /\ audio.paused THEN {"resync", "fine", "played"}
  ELSE IF audio.paused /\ track["audio"].level = Full("audio") THEN {"resync", "restart"}
  ELSE {"fine"}

AudioAfter(check) == IF check = "played" THEN PlayingAudio ELSE audio

(* A short video render drops the frames of the video, both sides of the     *)
(* ring, in the sync thread.                                                 *)
DropVideo ==
  track' = [track EXCEPT !["video"] = IF HasVideo
              THEN Flushed(ClosedTracks(track, {"video"})["video"]) ELSE @]

(* play_at of the video; it may take frames, and tells the end. *)
PlayVideo(eof) ==
  \E n \in 0 .. track["video"].level :
    /\ track' = [track EXCEPT !["video"].level = @ - n]
    /\ eof = (~HasVideo \/ (track["video"].eof /\ n = 0 /\ track["video"].level = 0))

(* The session is done when every medium has come to its end; the audio has  *)
(* when it is paused at the end of the file.                                 *)
Playing ==
  /\ In("PLAYING")
  /\ \E check \in IF HasAudio THEN AudioSync ELSE {"fine"} :
       /\ audio' = AudioAfter(check)
       /\ IF check \in {"resync", "restart"}
          THEN /\ IF HasVideo /\ shortRender THEN DropVideo ELSE UNCHANGED track
               /\ Return(IF ~HasVideo THEN "WAIT_SYNC"
                         ELSE IF shortRender THEN "WAIT_AUDIO_READY" ELSE "AUDIO_RESYNC")
          ELSE \E eof \in BOOLEAN :
                 /\ PlayVideo(eof)
                 /\ Return(IF eof /\ (HasAudio => track["audio"].eof /\ audio.paused)
                           THEN "DONE" ELSE "PLAYING")
  /\ UNCHANGED waitingForAudio
  /\ HandlerLeaves

(* The video goes on alone until the time of the audio after a gap; which of *)
(* the two is first, the clock decides.                                      *)
AudioResync ==
  /\ In("AUDIO_RESYNC")
  /\ \E check \in AudioSync :
       /\ audio' = AudioAfter(check)
       /\ CASE check = "restart" -> Return("WAIT_SYNC") /\ UNCHANGED track
            [] check \in {"fine", "played"} -> Return("PLAYING") /\ UNCHANGED track
            [] check = "resync" -> /\ \E eof \in BOOLEAN : PlayVideo(eof)
                                   /\ Return("AUDIO_RESYNC") \/ Return("WAIT_SYNC")
  /\ UNCHANGED waitingForAudio
  /\ HandlerLeaves

WaitTimedInit ==
  /\ In("WAIT_TIMED_INIT")
  /\ \E check \in AudioSync :
       /\ audio' = AudioAfter(check)
       /\ IF check \in {"resync", "restart"}
          THEN DropVideo /\ Return("WAIT_AUDIO_READY")
          ELSE /\ track' = Tried(media \ {"audio"})
               /\ Return(IF HasVideo => Initialised(track', "video")
                         THEN "PLAYING" ELSE "WAIT_TIMED_INIT")
  /\ UNCHANGED waitingForAudio
  /\ HandlerLeaves

(* The change of state in sync_thread, to what the handler returns or to what *)
(* the messages have changed it to.  The buffers are closed for PAUSED and   *)
(* EXIT, DONE tells the main loop.                                           *)
EnterState ==
  /\ \/ spc = "enter"
     \/ spc = "top" /\ syncQueue = << >> /\ newState # syncState
  /\ syncState' = newState
  /\ IF newState \in {"PAUSED", "EXIT"} THEN FlushSync(media)
                                        ELSE UNCHANGED <<track, audio>>
  /\ masterQueue' = IF newState = "DONE" THEN Append(masterQueue, "FINISHED")
                                         ELSE masterQueue
  /\ spc' = CASE newState = "EXIT" -> "ended"
              [] newState \in {"WAIT_AUDIO", "AUDIO_RESYNC"} -> "top"
              [] OTHER -> "publish"
  /\ UNCHANGED <<media, waitingForAudio, newState, syncQueue, hardwareError,
                 sessionState, pauseDone, initPause>>
  /\ SyncLeaves

(* The m_session_state that belongs to a state of the sync thread. *)
Shown(s) ==
  CASE s \in {"PLAYING", "WAIT_TIMED_INIT", "AUDIO_RESYNC"} -> "PLAYING"
    [] s = "PAUSED" -> "PAUSED"
    [] s = "DONE" -> "DONE"
    [] OTHER -> "BUFFERING"

PublishState ==
  /\ SStep("publish", IF syncState = "PAUSED" THEN "acknowledge" ELSE "top")
  /\ sessionState' = Shown(syncState)
  /\ UNCHANGED <<mediaVars, syncState, newState, syncQueue, hardwareError,
                 pauseDone, masterQueue, initPause>>
  /\ SyncLeaves

AcknowledgePause ==
  /\ SStep("acknowledge", "top")
  /\ pauseDone' = TRUE
  /\ UNCHANGED <<mediaVars, syncState, newState, syncQueue, hardwareError,
                 sessionState, masterQueue, initPause>>
  /\ SyncLeaves

StateHandler ==
  \/ WaitSync \/ WaitAudio \/ Playing \/ AudioResync
  \/ WaitAudioReady \/ WaitTimedInit

SyncThread ==
  \/ StartSession \/ ThreadEnds \/ InitAudioFirst \/ InitMedia \/ InitFails
  \/ InitMessage \/ DrainQueue \/ StateHandler \/ EnterState
  \/ PublishState \/ AcknowledgePause

-----------------------------------------------------------------------------
(* The main thread. *)

MStep(from, to) == mpc = from /\ mpc' = to

MainLeaves ==
  UNCHANGED <<shortRender, media, audio, waitingForAudio, syncVars, keys>>

LoopLeaves ==
  /\ UNCHANGED <<track, syncQueue, sessionState, pauseDone, paused, initPause>>
  /\ MainLeaves

(* The inner loop of main_start_session and process_sdl_key_events.  The     *)
(* arrow keys that seek do as HOME does, to another time.                    *)
TakeMasterMessage ==
  /\ mpc = "inner" /\ masterQueue # << >>
  /\ masterQueue' = Tail(masterQueue)
  /\ LET msg == Head(masterQueue) IN
     \/ /\ msg \in {"FINISHED", "END"}
        /\ ui' = [ui EXCEPT !.stop = TRUE] /\ UNCHANGED <<mpc, after>>
     \/ /\ msg \in {"ERROR", "QUIT"}
        /\ ui' = [ui EXCEPT !.stop = TRUE, !.maxLoop = 0] /\ UNCHANGED <<mpc, after>>
     \/ /\ msg = "CTRL_X"
        /\ ui' = [ui EXCEPT !.stop = TRUE, !.loopCount = ui.maxLoop]
        /\ UNCHANGED <<mpc, after>>
     \/ /\ msg = "SPACE" /\ ui' = [ui EXCEPT !.paused = ~@]
        /\ after' = "inner" /\ mpc' = IF ui.paused THEN "play" ELSE "pause"
     \/ /\ msg = "HOME" /\ mpc' = "pause" /\ after' = "play" /\ UNCHANGED ui
  /\ LoopLeaves

LeaveInnerLoop ==
  /\ mpc = "inner" /\ masterQueue = << >> /\ ui.stop
  /\ after' = "count"
  /\ mpc' = IF ui.maxLoop = -1 \/ ui.loopCount # ui.maxLoop THEN "pause" ELSE "count"
  /\ UNCHANGED <<masterQueue, ui>>
  /\ LoopLeaves

CountLoop ==
  /\ mpc = "count"
  /\ LET n == ui.loopCount + 1 IN
     IF ui.maxLoop # -1 /\ n >= ui.maxLoop
     THEN mpc' = "delete" /\ ui' = [ui EXCEPT !.loopCount = n]
     ELSE /\ mpc' = "inner"
          /\ ui' = [ui EXCEPT !.paused = FALSE, !.stop = FALSE,
                              !.loopCount = IF ui.maxLoop = -1 THEN @ ELSE n]
  /\ after' = "inner" /\ UNCHANGED masterQueue
  /\ LoopLeaves

CallKeeps == UNCHANGED <<ui, masterQueue>> /\ MainLeaves
CallLeaves == UNCHANGED after /\ CallKeeps

(* pause_all_media. *)
PauseMediaStarts ==
  /\ MStep("pause", "sendPause")
  /\ sessionState' = "PAUSED"
  /\ SendDecoders("PAUSE", media)
  /\ UNCHANGED <<syncQueue, paused, initPause>>
  /\ CallLeaves

(* Mutant: the acknowledgement of the last pause is still there. *)
PauseMediaKeepsDone == PauseMediaStarts /\ UNCHANGED pauseDone

PauseMedia == PauseMediaStarts /\ pauseDone' = FALSE

SendPause ==
  /\ MStep("sendPause", "spin")
  /\ syncQueue' = Append(syncQueue, "PAUSE")
  /\ UNCHANGED <<track, sessionState, pauseDone, paused, initPause>>
  /\ CallLeaves

SpinDone ==
  /\ pauseDone
  /\ MStep("spin", after) /\ after' = "inner"
  /\ paused' = TRUE
  /\ UNCHANGED <<track, sessionState, syncQueue, pauseDone, initPause>>
  /\ CallKeeps

(* play_all_media. *)
PlayState ==
  /\ MStep("play", "sendStart")
  /\ sessionState' = "BUFFERING" /\ paused' = FALSE
  /\ initPause' = IF initPause = "now" THEN "earlier" ELSE initPause
  /\ UNCHANGED <<track, syncQueue, pauseDone>>
  /\ CallLeaves

SendStart ==
  /\ MStep("sendStart", "playMedia")
  /\ syncQueue' = Append(syncQueue, "START")
  /\ UNCHANGED <<track, sessionState, pauseDone, paused, initPause>>
  /\ CallLeaves

(* Mutant: the session is said to be buffering once all are told to play. *)
PlayMediaThenState ==
  /\ MStep("playMedia", "inner")
  /\ SendDecoders("START", media)
  /\ sessionState' = "BUFFERING"
  /\ UNCHANGED <<syncQueue, pauseDone, paused, initPause>>
  /\ CallLeaves

PlayMedia ==
  /\ MStep("playMedia", "inner")
  /\ SendDecoders("START", media)
  /\ UNCHANGED <<sessionState, syncQueue, pauseDone, paused, initPause>>
  /\ CallLeaves

(* ~CPlayerSession: the sync thread is stopped and joined. *)
DeleteSession ==
  /\ MStep("delete", "join")
  /\ syncQueue' = Append(syncQueue, "STOP")
  /\ UNCHANGED <<track, sessionState, pauseDone, paused, initPause>>
  /\ CallLeaves

JoinSyncThread ==
  /\ spc = "ended"
  /\ MStep("join", "ended")
  /\ UNCHANGED <<track, sessionState, syncQueue, pauseDone, paused, initPause>>
  /\ CallLeaves

PauseAllMedia == PauseMedia \/ SendPause \/ SpinDone
PlayAllMedia == PlayState \/ SendStart \/ PlayMedia

MainThread ==
  \/ TakeMasterMessage \/ LeaveInnerLoop \/ CountLoop
  \/ PauseAllMedia \/ PlayAllMedia
  \/ DeleteSession \/ JoinSyncThread

Next ==
  \/ MainThread \/ SyncThread \/ UserEvent
  \/ AudioCallback \/ \E m \in media : DecodeThread(m)

(* The main thread and the sync thread run, and SDL calls back while the     *)
(* hardware does; nothing is assumed of the decode threads and the user.     *)
Fairness == WF_vars(MainThread) /\ WF_vars(SyncThread) /\ WF_vars(AudioCallback)

Spec == Init /\ [][Next]_vars /\ Fairness

-----------------------------------------------------------------------------
TypeOK ==
  /\ shortRender \in BOOLEAN /\ media \subseteq Media
  /\ track \in [Media -> [setup : {"none", "configured", "initialised"},
                          level : 0 .. 2, closed : BOOLEAN, eof : BOOLEAN,
                          dpc : {"wait", "run", "look"},
                          queue : Seq({"START", "PAUSE"})]]
  /\ audio \in [paused : BOOLEAN, running : BOOLEAN, resync : BOOLEAN]
  /\ waitingForAudio \in BOOLEAN
  /\ syncState \in SyncStates /\ newState \in SyncStates /\ spc \in SyncPC
  /\ syncQueue \in Seq({"START", "PAUSE", "STOP"})
  /\ sessionState \in {"PAUSED", "BUFFERING", "PLAYING", "DONE"}
  /\ pauseDone \in BOOLEAN /\ hardwareError \in BOOLEAN
  /\ mpc \in MainPC /\ after \in {"inner", "play", "count"} /\ paused \in BOOLEAN
  /\ ui \in [paused : BOOLEAN, stop : BOOLEAN, maxLoop : {MaxLoop, 0}, loopCount : Int]
  /\ masterQueue \in Seq(Keys \cup {"FINISHED", "ERROR"})
  /\ keys \in 0 .. MaxKeys + 1 /\ initPause \in {"no", "now", "earlier"}

(* Messages do not get a session past its initialisation: whatever the user  *)
(* presses meanwhile, sync_thread_wait_sync and what follows see media whose *)
(* device or window exists.  A short video render gives that up, and so does *)
(* a session that has failed.                                                *)
InitialisedBeforeSync ==
  /\ ~shortRender /\ ~hardwareError
  /\ syncState \in {"WAIT_SYNC", "WAIT_AUDIO", "PLAYING", "AUDIO_RESYNC", "PAUSED"}
  => \A m \in media : Initialised(track, m)

(* From the return of pause_all_media to the next play_all_media the sync    *)
(* thread is in SYNC_STATE_PAUSED, or on its way out, and the audio hardware *)
(* is stopped.  Only a pause during the initialisation is no pause.          *)
PauseHolds ==
  paused /\ initPause # "now" => syncState \in {"PAUSED", "EXIT"} /\ ~audio.running

(* The two threads that write m_session_state leave it at what belongs to    *)
(* the state of the sync thread, once the messages of the main thread are    *)
(* drained.  Not so in INIT, which writes it every turn and may still be to, *)
(* nor in WAIT_TIMED_INIT, which ignores a start that the main thread has    *)
(* announced.                                                                *)
StateAgrees ==
  /\ At(syncState) /\ syncQueue = << >>
  /\ mpc \notin PausePC \cup PlayPC
  /\ syncState \in {"WAIT_SYNC", "WAIT_AUDIO", "WAIT_AUDIO_READY", "PLAYING",
                    "AUDIO_RESYNC", "PAUSED", "DONE"}
  => sessionState = Shown(syncState)

(* sync_thread_wait_audio waits for a callback that comes: until the audio   *)
(* has reported, the hardware runs and has samples, or a pause is under way  *)
(* that takes the sync thread out of the state.  The decode thread can take  *)
(* the samples away; it does so for messages, and none from before the start *)
(* may be left when play_audio is called.                                    *)
AudioWillReport ==
  /\ syncState = "WAIT_AUDIO" /\ waitingForAudio
  /\ initPause = "no" /\ ~hardwareError
  => (audio.running /\ track["audio"].level > 0) \/ mpc \in PausePC

(* The destructor can join the sync thread: the stop it has sent is on its   *)
(* way or has been obeyed, and no other message comes after it.              *)
StopNotLost ==
  mpc = "join" => \/ syncState = "EXIT" \/ newState = "EXIT"
                  \/ syncQueue # << >> /\ syncQueue[Len(syncQueue)] = "STOP"

(* "They want the end - just close, or go on to the next playlist."          *)
(* (main.cpp:116): once the inner loop is told to stop by the user, or by    *)
(* the end of the session, the session is closed.                            *)
EndCloses == ui.stop /\ ui.maxLoop = 1 ~> mpc = "ended"
=============================================================================
