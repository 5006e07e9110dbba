------------------------------ MODULE PausePlay ------------------------------
(***************************************************************************)
(* Pausing and restarting a session with one SDL video track played from a *)
(* file: the controller (CPlayerSession::pause_all_media, play_all_media   *)
(* and CPlayerMedia::do_pause, do_play), the decode thread                 *)
(* (CPlayerMedia::decode_thread) and the sync thread (sync.cpp) around the *)
(* ring of TimedSync.  The ring is emptied by the decode thread when it    *)
(* handles a message, and closed by the sync thread when it pauses; no     *)
(* lock orders the two.                                                    *)
(*                                                                         *)
(* The session is past its initialisation (SYNC_STATE_INIT): the media and *)
(* the window exist, and the first MSG_START_DECODING is on its way.       *)
(***************************************************************************)
EXTENDS Integers, Sequences

CONSTANTS MaxBuffers, StreamLength,
          MaxRestarts    \* bound: how often the session is paused and restarted

ASSUME BuffersAssumption == MaxBuffers \in Nat \ {0, 1} /\ StreamLength \in Nat
ASSUME RestartsAssumption == MaxRestarts \in Nat

VARIABLES
  filled, playThisAt, content, fillIndex, playIndex, decodeWaiting, decodeSem,
  dontFill, eof, dpc, spc, call, published, taken, lastTaken, shown, overtaken,
  posts,
  decodeQueue,   \* m_decode_msg_queue
  afterFlush,    \* where the decode thread goes on after flush_decode_buffers
  position,      \* next frame of the byte stream, StreamLength at its end
  syncQueue,     \* m_sync_thread_msg_queue
  syncState,     \* state of the sync thread
  pauseDone,     \* m_sync_pause_done
  cpc,           \* where the controller is
  restarts       \* history: pauses so far

(* The ring, with the steps of a thread inside have_buffer_to_fill, the      *)
(* publication of a frame, or play_at.  The semaphore is posted by nobody    *)
(* but the threads of this module.                                           *)
Ring == INSTANCE TimedSync WITH PublishTwice <- TRUE, LateLimit <- 0, MaxPosts <- 0

ringHistory == <<published, taken, lastTaken, shown, overtaken, posts>>
ringVars == <<filled, playThisAt, content, fillIndex, playIndex, ringHistory>>
decodeVars == <<dpc, afterFlush, position>>
syncVars == <<spc, call, syncState, pauseDone>>
controlVars == <<cpc, restarts>>
vars == <<Ring!vars, decodeVars, syncVars, controlVars, decodeQueue, syncQueue>>

FlushPC == {"flushSlots", "flushIndexes", "flushDone"}
DecodePC == Ring!DecodePC \cup FlushPC \cup {"wait", "parse", "eofTest", "setEof"}
PausePC == {"closeRing", "clearEof", "notifyClosed", "postClosed", "pauseDone"}
ControlPC == {"play", "postPause", "pauseSync", "waitDone", "paused",
              "seek", "startDecoding", "postStart"}
SyncState == {"WAIT_SYNC", "PLAYING", "PAUSED", "DONE"}

Init ==
  /\ filled = [i \in Ring!Slots |-> FALSE]
  /\ playThisAt = [i \in Ring!Slots |-> Ring!NoFrame]
  /\ content = [i \in Ring!Slots |-> Ring!NoFrame]
  /\ fillIndex = 0 /\ playIndex = 0
  /\ decodeWaiting = FALSE /\ decodeSem = 1
  /\ dontFill = FALSE /\ eof = FALSE
  /\ dpc = "wait" /\ spc = "out"
  /\ call = [time |-> 0, resync |-> FALSE, index |-> 0, used |-> FALSE,
             eof |-> FALSE]
  /\ published = 0 /\ taken = 0
  /\ lastTaken = Ring!NoFrame /\ shown = Ring!NoFrame /\ overtaken = FALSE
  /\ posts = 0
  /\ decodeQueue = <<"START">> /\ syncQueue = << >>
  /\ afterFlush = "wait" /\ position = 0
  /\ syncState = "WAIT_SYNC" /\ pauseDone = FALSE
  /\ cpc = "play" /\ restarts = 0

-----------------------------------------------------------------------------
(* The decode thread. *)

DStep(from, to) == dpc = from /\ dpc' = to

(* The outer SDL_SemWait of decode_thread. *)
WaitForMessage ==
  /\ decodeSem > 0 /\ decodeSem' = decodeSem - 1
  /\ DStep("wait", "parse")
  /\ UNCHANGED <<ringVars, decodeWaiting, dontFill, eof, afterFlush, position,
                 syncVars, controlVars, decodeQueue, syncQueue>>

(* parse_decode_message takes one message; a PAUSE ends the decoding, a      *)
(* START begins it, and both flush the ring first.                           *)
TakeMessage(onStart) ==
  /\ decodeQueue # << >>
  /\ decodeQueue' = Tail(decodeQueue)
  /\ dpc' = "flushSlots"
  /\ afterFlush' = IF Head(decodeQueue) = "START" THEN onStart ELSE "wait"

NoMessage(next) ==
  /\ decodeQueue = << >> /\ dpc' = next
  /\ UNCHANGED <<decodeQueue, afterFlush>>

(* Mutant: messages are looked at after the outer wait only. *)
ParseMessageOuter ==
  /\ \/ dpc = "parse" /\ (TakeMessage("idle") \/ NoMessage("wait"))
     \/ DStep("idle", "eofTest") /\ UNCHANGED <<decodeQueue, afterFlush>>
  /\ UNCHANGED <<ringVars, decodeWaiting, decodeSem, dontFill, eof, position,
                 syncVars, controlVars, syncQueue>>

(* After the outer wait, and at the top of the inner loop. *)
ParseMessage ==
  /\ \/ dpc = "parse" /\ (TakeMessage("idle") \/ NoMessage("wait"))
     \/ dpc = "idle" /\ (TakeMessage("eofTest") \/ NoMessage("eofTest"))
  /\ UNCHANGED <<ringVars, decodeWaiting, decodeSem, dontFill, eof, position,
                 syncVars, controlVars, syncQueue>>

(* flush_decode_buffers, in the order of its stores. *)
FlushSlots ==
  /\ DStep("flushSlots", "flushIndexes")
  /\ filled' = [i \in Ring!Slots |-> FALSE]
  /\ UNCHANGED <<playThisAt, content, fillIndex, playIndex, ringHistory,
                 decodeWaiting, decodeSem, dontFill, eof, afterFlush, position,
                 syncVars, controlVars, decodeQueue, syncQueue>>

FlushIndexes ==
  /\ DStep("flushIndexes", "flushDone")
  /\ fillIndex' = 0 /\ playIndex' = 0
  /\ UNCHANGED <<filled, playThisAt, content, ringHistory, decodeWaiting,
                 decodeSem, dontFill, eof, afterFlush, position, syncVars,
                 controlVars, decodeQueue, syncQueue>>

(* Mutant: the ring stays closed. *)
FlushDoneClosed ==
  /\ DStep("flushDone", afterFlush)
  /\ UNCHANGED <<ringVars, decodeWaiting, decodeSem, dontFill, eof, afterFlush,
                 position, syncVars, controlVars, decodeQueue, syncQueue>>

FlushDone ==
  /\ DStep("flushDone", afterFlush)
  /\ dontFill' = FALSE
  /\ UNCHANGED <<ringVars, decodeWaiting, decodeSem, eof, afterFlush, position,
                 syncVars, controlVars, decodeQueue, syncQueue>>

(* Mutant: a frame is read without a look at the end of the stream. *)
NextFrameUnchecked ==
  /\ DStep("eofTest", "check")
  /\ position' = position + 1
  /\ UNCHANGED <<ringVars, decodeWaiting, decodeSem, dontFill, eof, afterFlush,
                 syncVars, controlVars, decodeQueue, syncQueue>>

(* At the end of the byte stream the thread goes back to the outer wait;     *)
(* otherwise start_next_frame hands a frame to the plugin.                   *)
NextFrame ==
  /\ \/ position = StreamLength /\ DStep("eofTest", "setEof") /\ UNCHANGED position
     \/ /\ position < StreamLength
        /\ DStep("eofTest", "check")
        /\ position' = position + 1
  /\ UNCHANGED <<ringVars, decodeWaiting, decodeSem, dontFill, eof, afterFlush,
                 syncVars, controlVars, decodeQueue, syncQueue>>

SetEof ==
  /\ DStep("setEof", "wait")
  /\ eof' = TRUE
  /\ UNCHANGED <<ringVars, decodeWaiting, decodeSem, dontFill, afterFlush,
                 position, syncVars, controlVars, decodeQueue, syncQueue>>

(* The plugin passes the decoded frame to the ring. *)
FillRing ==
  /\ Ring!FillStep
  /\ UNCHANGED <<afterFlush, position, syncState, pauseDone, controlVars,
                 decodeQueue, syncQueue>>

(* A plugin that decodes straight into the slot got it from                  *)
(* get_video_buffer; filled_video_buffers gives up once dont_fill is set.    *)
AbandonSlot ==
  /\ dontFill
  /\ DStep("write", "idle")
  /\ content' = [content EXCEPT ![fillIndex] = published]
  /\ UNCHANGED <<filled, playThisAt, fillIndex, playIndex, ringHistory,
                 decodeWaiting, decodeSem, dontFill, eof, afterFlush, position,
                 syncVars, controlVars, decodeQueue, syncQueue>>

DecodeThread ==
  \/ WaitForMessage \/ ParseMessage \/ FlushSlots \/ FlushIndexes \/ FlushDone
  \/ NextFrame \/ SetEof \/ FillRing \/ AbandonSlot

-----------------------------------------------------------------------------
(* The sync thread.  spc is "out" at the top of its loop; call.eof is the    *)
(* have_eof that play_at has just returned.                                  *)

SStep(from, to) == spc = from /\ spc' = to

AtTop(state) == spc = "out" /\ ~call.eof /\ syncState = state

(* process_msg_queue drains the queue: the last message decides.  Only a     *)
(* change of state has consequences.                                         *)
ProcessMessages ==
  /\ spc = "out" /\ ~call.eof
  /\ syncQueue # << >> /\ syncQueue' = << >>
  /\ syncState' = IF syncQueue[Len(syncQueue)] = "PAUSE" THEN "PAUSED"
                                                         ELSE "WAIT_SYNC"
  /\ spc' = IF syncState' = "PAUSED" /\ syncState # "PAUSED" THEN "closeRing"
                                                             ELSE "out"
  /\ UNCHANGED <<ringVars, decodeWaiting, decodeSem, dontFill, eof, call,
                 pauseDone, decodeVars, controlVars, decodeQueue>>

(* Mutant: readiness without m_dont_fill, as for timed text. *)
IsReadyWhenClosed == filled[(playIndex + (2 * MaxBuffers) \div 3) % MaxBuffers]

(* is_ready: enough frames to start with. *)
IsReady ==
  /\ ~dontFill
  /\ filled[(playIndex + (2 * MaxBuffers) \div 3) % MaxBuffers]

(* sync_thread_wait_sync of a session without audio: the clock starts at the *)
(* time of the first frame.                                                  *)
WaitSync ==
  /\ AtTop("WAIT_SYNC") /\ syncQueue = << >>
  /\ IsReady
  /\ syncState' = "PLAYING"
  /\ call' = [call EXCEPT !.time = playThisAt[playIndex]]
  /\ UNCHANGED <<ringVars, decodeWaiting, decodeSem, dontFill, eof, spc,
                 pauseDone, decodeVars, controlVars, decodeQueue, syncQueue>>

(* sync_thread_playing calls play_at with the clock. *)
Playing ==
  /\ AtTop("PLAYING") /\ syncQueue = << >>
  /\ \E t \in call.time .. published : Ring!CallPlayAt(t, FALSE)
  /\ UNCHANGED <<syncState, pauseDone, afterFlush, position, controlVars,
                 decodeQueue, syncQueue>>

PlayRing ==
  /\ Ring!PlayStep
  /\ UNCHANGED <<syncState, pauseDone, afterFlush, position, controlVars,
                 decodeQueue, syncQueue>>

(* play_at saw an empty ring and the end of file. *)
PlayedToEnd ==
  /\ spc = "out" /\ call.eof
  /\ syncState' = "DONE"
  /\ call' = [call EXCEPT !.eof = FALSE]
  /\ UNCHANGED <<ringVars, decodeWaiting, decodeSem, dontFill, eof, spc,
                 pauseDone, decodeVars, controlVars, decodeQueue, syncQueue>>

(* The change to SYNC_STATE_PAUSED: flush_sync_buffers, then the             *)
(* acknowledgement.                                                          *)
CloseRing ==
  /\ \/ SStep("closeRing", "clearEof") /\ dontFill' = TRUE
        /\ UNCHANGED <<eof, decodeWaiting, decodeSem, pauseDone>>
     \/ SStep("clearEof", "notifyClosed") /\ eof' = FALSE
        /\ UNCHANGED <<dontFill, decodeWaiting, decodeSem, pauseDone>>
     \/ SStep("notifyClosed", IF decodeWaiting THEN "postClosed" ELSE "pauseDone")
        /\ decodeWaiting' = FALSE
        /\ UNCHANGED <<dontFill, eof, decodeSem, pauseDone>>
     \/ SStep("postClosed", "pauseDone") /\ decodeSem' = decodeSem + 1
        /\ UNCHANGED <<dontFill, eof, decodeWaiting, pauseDone>>
     \/ SStep("pauseDone", "out") /\ pauseDone' = TRUE
        /\ UNCHANGED <<dontFill, eof, decodeWaiting, decodeSem>>
  /\ UNCHANGED <<ringVars, call, syncState, decodeVars, controlVars,
                 decodeQueue, syncQueue>>

SyncThread ==
  ProcessMessages \/ WaitSync \/ Playing \/ PlayRing \/ PlayedToEnd \/ CloseRing

-----------------------------------------------------------------------------
(* The controller.  A message is appended to a queue first; the semaphore of *)
(* the decode thread is posted next.                                         *)

CStep(from, to) == cpc = from /\ cpc' = to

ControllerLeaves ==
  UNCHANGED <<ringVars, decodeWaiting, dontFill, eof, dpc, afterFlush, spc,
              call, syncState>>

PauseDecoding ==
  /\ restarts < MaxRestarts
  /\ CStep("play", "postPause")
  /\ restarts' = restarts + 1
  /\ decodeQueue' = Append(decodeQueue, "PAUSE")
  /\ UNCHANGED <<decodeSem, position, syncQueue, pauseDone>>
  /\ ControllerLeaves

(* Mutant: the semaphore is posted only to a thread in its outer wait. *)
PostMessageToSleeper ==
  /\ CStep("postPause", "pauseSync") \/ CStep("postStart", "play")
  /\ decodeSem' = IF dpc = "wait" THEN decodeSem + 1 ELSE decodeSem
  /\ UNCHANGED <<restarts, decodeQueue, position, syncQueue, pauseDone>>
  /\ ControllerLeaves

PostMessage ==
  /\ CStep("postPause", "pauseSync") \/ CStep("postStart", "play")
  /\ decodeSem' = decodeSem + 1
  /\ UNCHANGED <<restarts, decodeQueue, position, syncQueue, pauseDone>>
  /\ ControllerLeaves

PauseSync ==
  /\ CStep("pauseSync", "waitDone")
  /\ pauseDone' = FALSE
  /\ syncQueue' = Append(syncQueue, "PAUSE")
  /\ UNCHANGED <<restarts, decodeQueue, decodeSem, position>>
  /\ ControllerLeaves

(* Mutant: a single delay instead of the spin loop. *)
DelayOnly ==
  /\ CStep("waitDone", "paused")
  /\ UNCHANGED <<restarts, decodeQueue, decodeSem, position, syncQueue, pauseDone>>
  /\ ControllerLeaves

(* The spin loop at the end of pause_all_media. *)
WaitPauseDone ==
  /\ pauseDone
  /\ CStep("waitDone", "paused")
  /\ UNCHANGED <<restarts, decodeQueue, decodeSem, position, syncQueue, pauseDone>>
  /\ ControllerLeaves

StartSync ==
  /\ CStep("paused", "seek")
  /\ syncQueue' = Append(syncQueue, "START")
  /\ UNCHANGED <<restarts, decodeQueue, decodeSem, position, pauseDone>>
  /\ ControllerLeaves

(* do_play: the byte stream is set to where the session goes on. *)
Seek ==
  /\ CStep("seek", "startDecoding")
  /\ position' \in 0 .. StreamLength
  /\ UNCHANGED <<restarts, decodeQueue, decodeSem, syncQueue, pauseDone>>
  /\ ControllerLeaves

StartDecoding ==
  /\ CStep("startDecoding", "postStart")
  /\ decodeQueue' = Append(decodeQueue, "START")
  /\ UNCHANGED <<restarts, decodeSem, position, syncQueue, pauseDone>>
  /\ ControllerLeaves

Controller ==
  \/ PauseDecoding \/ PostMessage \/ PauseSync \/ WaitPauseDone
  \/ StartSync \/ Seek \/ StartDecoding

Next == DecodeThread \/ SyncThread \/ Controller

(* The threads run; the user need not pause, but a pause once begun, and the *)
(* restart once begun, are carried through.                                  *)
Fairness ==
  /\ WF_vars(DecodeThread)
  /\ WF_vars(SyncThread)
  /\ WF_vars(PostMessage \/ PauseSync \/ WaitPauseDone \/ Seek \/ StartDecoding)

Spec == Init /\ [][Next]_vars /\ Fairness

-----------------------------------------------------------------------------
TypeOK ==
  /\ filled \in [Ring!Slots -> BOOLEAN]
  /\ playThisAt \in [Ring!Slots -> Nat \cup {Ring!NoFrame}]
  /\ content \in [Ring!Slots -> Nat \cup {Ring!NoFrame}]
  /\ fillIndex \in Ring!Slots /\ playIndex \in Ring!Slots
  /\ decodeWaiting \in BOOLEAN /\ decodeSem \in Nat
  /\ dontFill \in BOOLEAN /\ eof \in BOOLEAN
  /\ dpc \in DecodePC /\ spc \in Ring!SyncPC \cup PausePC
  /\ decodeQueue \in Seq({"PAUSE", "START"}) /\ syncQueue \in Seq({"PAUSE", "START"})
  /\ afterFlush \in {"wait", "idle", "eofTest"}
  /\ position \in 0 .. StreamLength
  /\ syncState \in SyncState /\ pauseDone \in BOOLEAN
  /\ cpc \in ControlPC /\ restarts \in 0 .. MaxRestarts

(* Where the sync thread has decided to take a frame or is taking it. *)
Taking == spc \in {"free", "advance", "peek", "render"}

(* The semaphore counts at least the messages of the decode thread, although *)
(* have_buffer_to_fill takes tokens of it too: the thread never sleeps with  *)
(* a message in its queue.                                                   *)
NoMessageForgotten ==
  dpc \in {"wait", "sleep"} /\ decodeSem = 0 =>
    \/ decodeQueue = << >>
    \/ cpc \in {"postPause", "postStart"} /\ Len(decodeQueue) = 1

(* A restarted session does not play frames from before the restart: while   *)
(* MSG_START_DECODING waits in the queue the sync thread takes no frame.     *)
NoStaleFramePlayed == (\E i \in DOMAIN decodeQueue : decodeQueue[i] = "START") => ~Taking

(* flush_decode_buffers, which resets the indexes of both threads for a      *)
(* restart, never runs while play_at works on the ring.                      *)
RestartFlushIsExclusive ==
  dpc \in FlushPC /\ afterFlush = "idle" => ~Taking

(* Once the decode thread has handled all messages of a restart the ring is  *)
(* open: the m_dont_fill of the pause cannot outlive it.                     *)
OpenAfterRestart ==
  cpc = "play" /\ decodeQueue = << >> /\ dpc \notin FlushPC => ~dontFill

(* Every message to the decode thread is handled, wherever the thread is     *)
(* when it is sent.                                                          *)
MessagesHandled == decodeQueue # << >> ~> decodeQueue = << >>

(* sync_thread_wait_sync is to "wait until all decoding threads have put     *)
(* data into the sync classes" (sync.cpp:343): a session whose only decode   *)
(* thread has delivered its whole stream gets past it and comes to its end.  *)
WholeStreamIsPlayed == eof /\ published > 0 ~> syncState = "DONE"
=============================================================================
