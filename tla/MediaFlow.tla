------------------------------ MODULE MediaFlow ------------------------------
(***************************************************************************)
(* The flow of media frames through the live server (server/mp4live):      *)
(* sources capture frames and forward them to encoders, encoders forward   *)
(* what they produce to recorders and RTP transmitters (CMediaFeeder,      *)
(* CMediaSink, CMediaCodec).  Each of these nodes is a thread with a       *)
(* message queue and a semaphore (CMediaNode).  A frame is shared by       *)
(* reference counting (CMediaFrame).  One more thread, the controller,     *)
(* starts the flow and stops it (CAVMediaFlow::Start, Stop); a capture     *)
(* video source goes on capturing between a stop and the next start.       *)
(***************************************************************************)
EXTENDS Integers, Sequences, FiniteSets

CONSTANTS
  Sources,            \* nodes that only forward
  Encoders,           \* nodes that receive and forward
  Sinks,              \* nodes that only receive
  CaptureSources,     \* sources that survive a stop of the flow
  AudioEncoders,      \* encoders that flush their output when they stop
  Recorders,          \* sinks that keep the previous frame of each encoder
  AudioTransmitters,  \* sinks that bundle frames
  SourceOf,           \* SourceOf[e]: the source that feeds encoder e
  SinksOf,            \* SinksOf[e]: the sinks fed by encoder e
  EncoderOrder,       \* the encoders in the order in which Stop visits them
  Frames,             \* bound: frames that are in memory at the same time
  MaxBundle,          \* m_audioQueueMaxCount
  MaxStarts,          \* bound: starts of the flow and restarts of recordings
  None                \* no frame, or no node

Feeders == Sources \cup Encoders
Receivers == Encoders \cup Sinks
Nodes == Sources \cup Encoders \cup Sinks
Commands == {"START", "STOP", "STOP_THREAD"}

ASSUME NodesAssumption ==
  /\ IsFiniteSet(Nodes) /\ None \notin Nodes
  /\ Sources \cap Encoders = {} /\ Sources \cap Sinks = {}
  /\ Encoders \cap Sinks = {}
  /\ CaptureSources \subseteq Sources /\ AudioEncoders \subseteq Encoders
  /\ Recorders \subseteq Sinks /\ AudioTransmitters \subseteq Sinks
  /\ SourceOf \in [Encoders -> Sources]
  /\ SinksOf \in [Encoders -> SUBSET Sinks]
  /\ EncoderOrder \in Seq(Encoders) /\ EncoderOrder # << >>

ASSUME FramesAssumption ==
  /\ None \notin Frames /\ Frames \cap Commands = {}
  /\ MaxBundle \in Nat /\ MaxStarts \in Nat

VARIABLES
  refs,        \* m_refcnt of a frame; 0 when it is not in memory
  maker,       \* who made the frame: its m_type
  attached,    \* m_sinks of a feeder
  locked,      \* m_pSinksMutex of a feeder
  inbox,       \* m_myMsgQueue of a node: commands, and frames of MSG_SINK_FRAME
  sem,         \* value of m_myMsgQueueSemaphore
  stopThread,  \* m_stop_thread
  active,      \* m_source of a source, m_sink of a sink
  pc,          \* where the thread of a node is; "none" before StartThread and
               \* after StopThread, when there is no semaphore either
  item,        \* the frame of the message being handled
  out,         \* the frame being forwarded
  todo,        \* the sinks it has still to be given to
  target,      \* the sink whose semaphore is to be posted
  kept,        \* previous frames of a recorder, m_audioQueue of a transmitter
  cpc,         \* where the controller is
  ctl,         \* its loop variables and the message being sent
  starts       \* history: starts of the flow and restarts of recordings

frameVars == <<refs, maker>>
feedVars == <<attached, locked, out, todo, target>>
queueVars == <<inbox, sem>>
nodeVars == <<stopThread, active, pc, item, kept>>
controlVars == <<cpc, ctl, starts>>
vars == <<frameVars, feedVars, queueVars, nodeVars, controlVars>>

Init ==
  /\ refs = [f \in Frames |-> 0] /\ maker = [f \in Frames |-> None]
  /\ attached = [n \in Feeders |-> {}] /\ locked = [n \in Feeders |-> FALSE]
  /\ inbox = [n \in Nodes |-> << >>] /\ sem = [n \in Nodes |-> 0]
  /\ stopThread = [n \in Nodes |-> FALSE] /\ active = [n \in Nodes |-> FALSE]
  /\ pc = [n \in Nodes |-> "none"]
  /\ item = [n \in Nodes |-> None] /\ out = [n \in Feeders |-> None]
  /\ todo = [n \in Feeders |-> {}] /\ target = [n \in Feeders |-> None]
  /\ kept = [n \in Sinks |-> {}]
  /\ cpc = "stopped"
  /\ ctl = [enc |-> 1, left |-> {}, node |-> None, msg |-> "START", back |-> "stopped"]
  /\ starts = 0

Move(n, from, to) == pc[n] = from /\ pc' = [pc EXCEPT ![n] = to]

(* RemoveReference for each frame of a set; at 0 the frame is deleted. *)
Release(fs) == refs' = [f \in Frames |-> IF f \in fs THEN refs[f] - 1 ELSE refs[f]]

-----------------------------------------------------------------------------
(* CMediaFeeder::ForwardFrame.                                               *)

(* A new frame, with the reference of its maker. *)
Emit(n) ==
  \E f \in Frames :
    /\ refs[f] = 0
    /\ refs' = [refs EXCEPT ![f] = 1]
    /\ maker' = [maker EXCEPT ![f] = n]
    /\ out' = [out EXCEPT ![n] = f]
    /\ UNCHANGED <<attached, locked, todo, target>>

LockSinks(n) ==
  /\ ~locked[n] /\ locked' = [locked EXCEPT ![n] = TRUE]
  /\ Move(n, "lock", "forward")
  /\ todo' = [todo EXCEPT ![n] = attached[n]]
  /\ UNCHANGED <<frameVars, attached, out, target, queueVars, stopThread, active,
                 item, kept, controlVars>>

(* Mutant: the frame is passed on without a reference of its own. *)
EnqueueUncounted(n) ==
  \E s \in todo[n] :
    /\ Move(n, "forward", "post")
    /\ inbox' = [inbox EXCEPT ![s] = Append(@, out[n])]
    /\ todo' = [todo EXCEPT ![n] = @ \ {s}]
    /\ target' = [target EXCEPT ![n] = IF pc[s] = "none" THEN None ELSE s]
    /\ UNCHANGED <<frameVars, attached, locked, out, sem, stopThread, active,
                   item, kept, controlVars>>

(* CMediaSink::EnqueueFrame and the first half of send_message; the          *)
(* semaphore to post is an argument, so it is read now.                      *)
EnqueueFrame(n) ==
  \E s \in todo[n] :
    /\ Move(n, "forward", "post")
    /\ refs' = [refs EXCEPT ![out[n]] = @ + 1]
    /\ inbox' = [inbox EXCEPT ![s] = Append(@, out[n])]
    /\ todo' = [todo EXCEPT ![n] = @ \ {s}]
    /\ target' = [target EXCEPT ![n] = IF pc[s] = "none" THEN None ELSE s]
    /\ UNCHANGED <<maker, attached, locked, out, sem, stopThread, active, item,
                   kept, controlVars>>

(* The second half.  A semaphore that was destroyed meanwhile is not         *)
(* counted, whatever posting it may do.                                      *)
PostFrame(n) ==
  /\ Move(n, "post", "forward")
  /\ sem' = [s \in Nodes |->
       IF s = target[n] /\ pc[s] # "none" THEN sem[s] + 1 ELSE sem[s]]
  /\ target' = [target EXCEPT ![n] = None]
  /\ UNCHANGED <<frameVars, attached, locked, out, todo, inbox, stopThread,
                 active, item, kept, controlVars>>

(* Where a thread goes on after ForwardFrame. *)
Resume(n) == IF n \in Sources THEN "poll"
             ELSE IF item[n] # None THEN "release" ELSE "drain"

(* Mutant: the mutex stays locked. *)
FinishForwardLocked(n) ==
  /\ todo[n] = {}
  /\ Move(n, "forward", Resume(n))
  /\ Release({out[n]}) /\ out' = [out EXCEPT ![n] = None]
  /\ UNCHANGED <<maker, attached, locked, todo, target, queueVars, stopThread,
                 active, item, kept, controlVars>>

FinishForward(n) ==
  /\ todo[n] = {}
  /\ Move(n, "forward", Resume(n))
  /\ locked' = [locked EXCEPT ![n] = FALSE]
  /\ Release({out[n]}) /\ out' = [out EXCEPT ![n] = None]
  /\ UNCHANGED <<maker, attached, todo, target, queueVars, stopThread, active,
                 item, kept, controlVars>>

Forward(n) == LockSinks(n) \/ EnqueueFrame(n) \/ PostFrame(n) \/ FinishForward(n)

-----------------------------------------------------------------------------
(* A source: ThreadMain of the capture classes.                              *)

(* Top of the loop: a pending command is handled before the next capture.    *)
(* Init fails if the device cannot be opened or set up; the source is left   *)
(* without m_source then and waits for the next command.                     *)
Poll(n) ==
  /\ \/ /\ sem[n] > 0 /\ sem' = [sem EXCEPT ![n] = @ - 1]
        /\ inbox[n] # << >> /\ inbox' = [inbox EXCEPT ![n] = Tail(@)]
        /\ \/ /\ Head(inbox[n]) = "STOP_THREAD" /\ Move(n, "poll", "exited")
              /\ active' = [active EXCEPT ![n] = FALSE]
           \/ /\ Head(inbox[n]) = "START" /\ Move(n, "poll", "capture")
              /\ active' = [active EXCEPT ![n] = TRUE]
           \/ /\ Head(inbox[n]) = "START" /\ ~active[n] /\ Move(n, "poll", "poll")
              /\ UNCHANGED active
     \/ /\ sem[n] = 0 /\ active[n] /\ Move(n, "poll", "capture")
        /\ UNCHANGED <<active, inbox, sem>>
  /\ UNCHANGED <<frameVars, feedVars, stopThread, item, kept, controlVars>>

(* ProcessVideo or ProcessAudio, with or without a frame. *)
Capture(n) ==
  /\ \/ Move(n, "capture", "lock") /\ Emit(n)
     \/ Move(n, "capture", "poll") /\ UNCHANGED <<frameVars, feedVars>>
  /\ UNCHANGED <<queueVars, stopThread, active, item, kept, controlVars>>

SourceThread(n) == Poll(n) \/ Capture(n) \/ Forward(n)

-----------------------------------------------------------------------------
(* Encoders and sinks: ThreadMain, one message per token.                    *)

(* Where a message leads. *)
Handler(n, m) ==
  CASE m = "STOP_THREAD" -> IF n \in Encoders THEN "flush" ELSE "finish"
    [] m = "STOP"        -> IF n \in Sinks THEN "pause" ELSE "wait"
    [] m = "START"       -> "wait"
    [] OTHER             -> IF n \in Encoders THEN "encode" ELSE "consume"

(* The start of a sink: it fails when the recorder cannot create its file or *)
(* the transmitter has no destination.                                       *)
StartSink(n) == active' \in {active, [active EXCEPT ![n] = TRUE]}

(* A token is posted after its message, so there is one in the queue.        *)
Receive(n) ==
  /\ sem[n] > 0 /\ sem' = [sem EXCEPT ![n] = @ - 1]
  /\ inbox[n] # << >> /\ inbox' = [inbox EXCEPT ![n] = Tail(@)]
  /\ Move(n, "wait", Handler(n, Head(inbox[n])))
  /\ item' = IF Head(inbox[n]) \in Frames
               THEN [item EXCEPT ![n] = Head(inbox[n])] ELSE item
  /\ IF Head(inbox[n]) = "START" /\ n \in Sinks THEN StartSink(n)
                                                ELSE UNCHANGED active
  /\ UNCHANGED <<frameVars, feedVars, stopThread, kept, controlVars>>

(* A frame for an encoder: ProcessVideoYUVFrame or ProcessAudioFrame, unless *)
(* the thread is told to stop; it may yield a frame to forward.              *)
Encode(n) ==
  /\ \/ ~stopThread[n] /\ Move(n, "encode", "lock") /\ Emit(n)
     \/ Move(n, "encode", "release") /\ UNCHANGED <<frameVars, feedVars>>
  /\ UNCHANGED <<queueVars, stopThread, active, item, kept, controlVars>>

ReleaseItem(n) ==
  /\ Move(n, "release", "wait")
  /\ Release({item[n]}) /\ item' = [item EXCEPT ![n] = None]
  /\ UNCHANGED <<maker, feedVars, queueVars, stopThread, active, kept, controlVars>>

(* DoStopAudio forwards what is left in the audio encoder; DoStopVideo does  *)
(* not.                                                                      *)
Flush(n) ==
  /\ \/ n \in AudioEncoders /\ Move(n, "flush", "lock") /\ Emit(n)
     \/ Move(n, "flush", "drain") /\ UNCHANGED <<frameVars, feedVars>>
  /\ UNCHANGED <<queueVars, stopThread, active, item, kept, controlVars>>

(* The loop after the thread's main loop. *)
Drain(n) ==
  /\ \/ inbox[n] = << >> /\ Move(n, "drain", "exited") /\ UNCHANGED <<refs, inbox>>
     \/ /\ inbox[n] # << >> /\ Move(n, "drain", "drain")
        /\ inbox' = [inbox EXCEPT ![n] = Tail(@)]
        /\ Release({Head(inbox[n])} \cap Frames)
  /\ UNCHANGED <<maker, feedVars, sem, stopThread, active, item, kept, controlVars>>

EncoderThread(n) ==
  Receive(n) \/ Encode(n) \/ ReleaseItem(n) \/ Flush(n) \/ Drain(n) \/ Forward(n)

-----------------------------------------------------------------------------
(* A frame for a sink.                                                       *)

(* DoWriteFrame writes the previous frame of the encoder and keeps this one; *)
(* video is dropped before the first audio and the first key frame.          *)
KeptByRecorder(n) ==
  LET previous == {f \in kept[n] : maker[f] = maker[item[n]]}
      waiting == previous = {} /\ maker[item[n]] \notin AudioEncoders
  IN  {(kept[n] \ previous) \cup {item[n]}} \cup (IF waiting THEN {kept[n]} ELSE {})

(* OldSendAudioFrame puts the frame into the bundle, sends the bundle before *)
(* or after that, or sends a jumbo frame on its own.                         *)
KeptByAudioTransmitter(n) ==
  {ks \in {kept[n] \cup {item[n]}, {item[n]}, {}} : Cardinality(ks) < MaxBundle}

(* What the sink may keep afterwards; other transmitters send at once.       *)
KeptAfter(n) ==
  CASE active[n] /\ n \in Recorders -> KeptByRecorder(n)
    [] active[n] /\ n \in AudioTransmitters -> KeptByAudioTransmitter(n)
    [] OTHER -> {kept[n]}

Consume(n) ==
  /\ Move(n, "consume", "wait")
  /\ \E ks \in KeptAfter(n) :
       /\ kept' = [kept EXCEPT ![n] = ks]
       /\ Release((kept[n] \cup {item[n]}) \ ks)
  /\ item' = [item EXCEPT ![n] = None]
  /\ UNCHANGED <<maker, feedVars, queueVars, stopThread, active, controlVars>>

(* Mutant: the last frame is written and not released. *)
StopSinkKeeping(n) ==
  /\ Move(n, "finish", "drain") \/ Move(n, "pause", "wait")
  /\ kept' = [kept EXCEPT ![n] = {}] /\ active' = [active EXCEPT ![n] = FALSE]
  /\ UNCHANGED <<frameVars, feedVars, queueVars, stopThread, item, controlVars>>

(* DoStopRecord, DoStopTransmit. *)
StopSink(n) ==
  /\ Move(n, "finish", "drain") \/ Move(n, "pause", "wait")
  /\ Release(kept[n]) /\ kept' = [kept EXCEPT ![n] = {}]
  /\ active' = [active EXCEPT ![n] = FALSE]
  /\ UNCHANGED <<maker, feedVars, queueVars, stopThread, item, controlVars>>

SinkThread(n) == Receive(n) \/ Consume(n) \/ StopSink(n) \/ Drain(n)

-----------------------------------------------------------------------------
(* The controller.                                                           *)

Encoder == EncoderOrder[ctl.enc]

ThreadsLeave == UNCHANGED <<frameVars, out, todo, target, active, item, kept>>

(* StartThread, unless there is a thread. *)
StartThread(ns) ==
  /\ pc' = [n \in Nodes |-> IF n \in ns /\ pc[n] = "none"
                             THEN IF n \in Sources THEN "poll" ELSE "wait"
                             ELSE pc[n]]
  /\ sem' = [n \in Nodes |-> IF n \in ns /\ pc[n] = "none" THEN 0 ELSE sem[n]]
  /\ stopThread' = [n \in Nodes |->
       IF n \in ns /\ pc[n] = "none" THEN FALSE ELSE stopThread[n]]

GoTo(phase, enc, left) ==
  /\ cpc' = phase
  /\ ctl' = [ctl EXCEPT !.enc = enc, !.left = left]

(* The next encoder of a loop over the encoders, or what follows the loop. *)
NextEncoder(phase, after) ==
  IF ctl.enc < Len(EncoderOrder)
    THEN GoTo(phase, ctl.enc + 1, SinksOf[EncoderOrder[ctl.enc + 1]])
    ELSE GoTo(after, 1, SinksOf[EncoderOrder[1]])

(* CAVMediaFlow::Start: the sources that are not there yet. *)
StartFlow ==
  /\ cpc = "stopped" /\ starts < MaxStarts /\ starts' = starts + 1
  /\ StartThread(Sources)
  /\ GoTo("create", 1, {})
  /\ UNCHANGED <<attached, locked, inbox>> /\ ThreadsLeave

(* FindOrCreateVideoEncoder, FindOrCreateAudioEncoder. *)
CreateEncoder ==
  /\ cpc = "create" /\ ~locked[SourceOf[Encoder]]
  /\ StartThread({Encoder})
  /\ attached' = [attached EXCEPT ![SourceOf[Encoder]] = @ \cup {Encoder}]
  /\ NextEncoder("create", "addSinks")
  /\ UNCHANGED <<locked, inbox, starts>> /\ ThreadsLeave

(* InitRtpSink and CreateFileRecorder, each followed by AddSink. *)
AddSink ==
  /\ cpc = "addSinks" /\ ~locked[Encoder]
  /\ \E s \in ctl.left :
       /\ StartThread({s})
       /\ attached' = [attached EXCEPT ![Encoder] = @ \cup {s}]
       /\ GoTo("addSinks", ctl.enc, ctl.left \ {s})
  /\ UNCHANGED <<locked, inbox, starts>> /\ ThreadsLeave

AllSinksAdded ==
  /\ cpc = "addSinks" /\ ctl.left = {}
  /\ NextEncoder("addSinks", "startEncoder")
  /\ UNCHANGED <<attached, locked, queueVars, pc, stopThread, starts>>
  /\ ThreadsLeave

(* SendMessage: the message first, then the semaphore; StopThread sets its   *)
(* flag before and waits for the thread after.  Without a thread StopThread  *)
(* does nothing more.                                                        *)
Call(n, m, back, left) ==
  /\ cpc' = IF m = "STOP_THREAD" /\ pc[n] = "none" THEN back ELSE "send"
  /\ ctl' = [ctl EXCEPT !.node = n, !.msg = m, !.back = back, !.left = left]
  /\ stopThread' = IF m = "STOP_THREAD" THEN [stopThread EXCEPT ![n] = TRUE]
                                        ELSE stopThread

ControllerSend ==
  /\ cpc = "send" /\ cpc' = "post"
  /\ inbox' = [inbox EXCEPT ![ctl.node] = Append(@, ctl.msg)]
  /\ UNCHANGED <<attached, locked, sem, pc, stopThread, ctl, starts>>
  /\ ThreadsLeave

ControllerPost ==
  /\ cpc = "post" /\ cpc' = IF ctl.msg = "STOP_THREAD" THEN "join" ELSE ctl.back
  /\ sem' = [sem EXCEPT ![ctl.node] = @ + 1]
  /\ UNCHANGED <<attached, locked, inbox, pc, stopThread, ctl, starts>>
  /\ ThreadsLeave

(* Mutant: the semaphore goes without a wait for the thread. *)
JoinUnwaited ==
  /\ cpc = "join" /\ cpc' = ctl.back
  /\ pc' = [pc EXCEPT ![ctl.node] = "none"]
  /\ UNCHANGED <<attached, locked, queueVars, stopThread, ctl, starts>>
  /\ ThreadsLeave

(* SDL_WaitThread, then the semaphore is destroyed. *)
Join ==
  /\ cpc = "join" /\ cpc' = ctl.back
  /\ pc[ctl.node] = "exited" /\ pc' = [pc EXCEPT ![ctl.node] = "none"]
  /\ UNCHANGED <<attached, locked, queueVars, stopThread, ctl, starts>>
  /\ ThreadsLeave

(* The start of an encoder and, with its mutex locked, of its sinks. *)
StartEncoder ==
  /\ cpc = "startEncoder"
  /\ Call(Encoder, "START", "lockSinks", attached[Encoder])
  /\ UNCHANGED <<attached, locked, queueVars, pc, starts>> /\ ThreadsLeave

LockSinksOf ==
  /\ cpc \in {"lockSinks", "lockStopSinks"} /\ ~locked[Encoder]
  /\ locked' = [locked EXCEPT ![Encoder] = TRUE]
  /\ GoTo(IF cpc = "lockSinks" THEN "startSinks" ELSE "stopSinks", ctl.enc,
          attached[Encoder])
  /\ UNCHANGED <<attached, queueVars, pc, stopThread, starts>> /\ ThreadsLeave

StartSinks ==
  /\ cpc = "startSinks"
  /\ \E s \in ctl.left : Call(s, "START", "startSinks", ctl.left \ {s})
  /\ UNCHANGED <<attached, locked, queueVars, pc, starts>> /\ ThreadsLeave

AllSinksStarted ==
  /\ cpc = "startSinks" /\ ctl.left = {}
  /\ locked' = [locked EXCEPT ![Encoder] = FALSE]
  /\ IF ctl.enc < Len(EncoderOrder) THEN GoTo("startEncoder", ctl.enc + 1, {})
                                    ELSE GoTo("startSources", 1, Sources)
  /\ UNCHANGED <<attached, queueVars, pc, stopThread, starts>> /\ ThreadsLeave

StartSources ==
  /\ cpc = "startSources"
  /\ \/ \E s \in ctl.left : Call(s, "START", "startSources", ctl.left \ {s})
     \/ ctl.left = {} /\ GoTo("running", 1, {}) /\ UNCHANGED stopThread
  /\ UNCHANGED <<attached, locked, queueVars, pc, starts>> /\ ThreadsLeave

(* RestartFileRecording: for each recorder, a stop and a start.              *)
RestartRecording ==
  /\ \/ /\ cpc = "running" /\ starts < MaxStarts /\ starts' = starts + 1
        /\ GoTo("restart", 1, Recorders) /\ UNCHANGED stopThread
     \/ /\ cpc = "restart" /\ UNCHANGED starts
        /\ \/ \E r \in ctl.left : Call(r, "STOP", "restarting", ctl.left \ {r})
           \/ ctl.left = {} /\ GoTo("running", 1, {}) /\ UNCHANGED stopThread
     \/ /\ cpc = "restarting" /\ UNCHANGED starts
        /\ Call(ctl.node, "START", "restart", ctl.left)
  /\ UNCHANGED <<attached, locked, queueVars, pc>> /\ ThreadsLeave

(* CAVMediaFlow::Stop: first the sources, but not a capture video source. *)
StopFlow ==
  /\ cpc = "running" /\ GoTo("stopSources", 1, Sources \ CaptureSources)
  /\ UNCHANGED <<attached, locked, queueVars, pc, stopThread, starts>>
  /\ ThreadsLeave

(* RemoveAllSinks, then StopThread. *)
StopSource ==
  /\ cpc = "stopSources"
  /\ \E s \in ctl.left :
       /\ ~locked[s] /\ attached' = [attached EXCEPT ![s] = {}]
       /\ Call(s, "STOP_THREAD", "stopSources", ctl.left \ {s})
  /\ UNCHANGED <<locked, queueVars, pc, starts>> /\ ThreadsLeave

AllSourcesStopped ==
  /\ cpc = "stopSources" /\ ctl.left = {}
  /\ GoTo("removeEncoder", 1, {})
  /\ UNCHANGED <<attached, locked, queueVars, pc, stopThread, starts>>
  /\ ThreadsLeave

(* Mutant: RemoveSink does not take the mutex. *)
RemoveEncoderUnlocked ==
  /\ cpc = "removeEncoder"
  /\ attached' = [attached EXCEPT ![SourceOf[Encoder]] = @ \ {Encoder}]
  /\ Call(Encoder, "STOP_THREAD", "lockStopSinks", {})
  /\ UNCHANGED <<locked, queueVars, pc, starts>> /\ ThreadsLeave

(* RemoveSink from a source that is still active, then StopThread. *)
RemoveEncoder ==
  /\ cpc = "removeEncoder"
  /\ IF SourceOf[Encoder] \in CaptureSources
       THEN /\ ~locked[SourceOf[Encoder]]
            /\ attached' = [attached EXCEPT ![SourceOf[Encoder]] = @ \ {Encoder}]
       ELSE UNCHANGED attached
  /\ Call(Encoder, "STOP_THREAD", "lockStopSinks", {})
  /\ UNCHANGED <<locked, queueVars, pc, starts>> /\ ThreadsLeave

StopSinks ==
  /\ cpc = "stopSinks"
  /\ \E s \in ctl.left : Call(s, "STOP_THREAD", "stopSinks", ctl.left \ {s})
  /\ UNCHANGED <<attached, locked, queueVars, pc, starts>> /\ ThreadsLeave

(* A queue that is deleted does not release the frames in it. *)
Delete(ns) == inbox' = [n \in Nodes |-> IF n \in ns THEN << >> ELSE inbox[n]]

(* The encoder is deleted, and with it its transmitter; recorders are        *)
(* stopped and deleted at the end, by their streams.                         *)
DeleteEncoder ==
  /\ cpc = "stopSinks" /\ ctl.left = {}
  /\ locked' = [locked EXCEPT ![Encoder] = FALSE]
  /\ Delete({Encoder} \cup (attached[Encoder] \ Recorders))
  /\ attached' = [attached EXCEPT ![Encoder] = {}]
  /\ IF ctl.enc < Len(EncoderOrder) THEN GoTo("removeEncoder", ctl.enc + 1, {})
                                    ELSE GoTo("stopStreams", 1, Recorders)
  /\ UNCHANGED <<sem, pc, stopThread, starts>> /\ ThreadsLeave

StopStreams ==
  /\ cpc = "stopStreams"
  /\ \/ /\ \E r \in ctl.left : Call(r, "STOP_THREAD", "stopStreams", ctl.left \ {r})
        /\ UNCHANGED inbox
     \/ /\ ctl.left = {} /\ GoTo("stopped", 1, {}) /\ UNCHANGED stopThread
        /\ Delete(Recorders)
  /\ UNCHANGED <<attached, locked, sem, pc, starts>> /\ ThreadsLeave

Starting ==
  \/ CreateEncoder \/ AddSink \/ AllSinksAdded \/ StartEncoder \/ StartSinks
  \/ AllSinksStarted \/ StartSources

Stopping ==
  \/ StopSource \/ AllSourcesStopped \/ RemoveEncoder \/ StopSinks
  \/ DeleteEncoder \/ StopStreams

Messages == ControllerSend \/ ControllerPost \/ Join \/ LockSinksOf

Controller ==
  StartFlow \/ Starting \/ RestartRecording \/ StopFlow \/ Stopping \/ Messages

Next ==
  \/ \E n \in Sources : SourceThread(n)
  \/ \E n \in Encoders : EncoderThread(n)
  \/ \E n \in Sinks : SinkThread(n)
  \/ Controller

(* Every thread runs.  The controller need not stop the flow, but carries    *)
(* through what it has begun; a mutex that is free again and again is        *)
(* obtained in the end.                                                      *)
Fairness ==
  /\ \A n \in Sources : WF_vars(SourceThread(n))
  /\ \A n \in Encoders : WF_vars(EncoderThread(n)) /\ SF_vars(LockSinks(n))
  /\ \A n \in Sinks : WF_vars(SinkThread(n))
  /\ WF_vars(Messages) /\ SF_vars(Stopping)

Spec == Init /\ [][Next]_vars /\ Fairness

-----------------------------------------------------------------------------
Messagable == Frames \cup Commands

StateTypes ==
  /\ maker \in [Frames -> Feeders \cup {None}]
  /\ attached \in [Feeders -> SUBSET Receivers] /\ locked \in [Feeders -> BOOLEAN]
  /\ inbox \in [Nodes -> Seq(Messagable)] /\ sem \in [Nodes -> Nat]
  /\ stopThread \in [Nodes -> BOOLEAN] /\ active \in [Nodes -> BOOLEAN]
  /\ pc \in [Nodes -> {"none", "poll", "capture", "lock", "forward", "post",
                       "wait", "encode", "release", "flush", "drain", "consume",
                       "pause", "finish", "exited"}]
  /\ item \in [Nodes -> Frames \cup {None}]
  /\ out \in [Feeders -> Frames \cup {None}]
  /\ todo \in [Feeders -> SUBSET Receivers]
  /\ target \in [Feeders -> Receivers \cup {None}]
  /\ kept \in [Sinks -> SUBSET Frames]

(* Every variable has its type; that of refs, that no reference is given     *)
(* back twice.                                                               *)
TypeOK == refs \in [Frames -> Nat] /\ StateTypes

(* Who holds a reference to a frame: a queue, the thread that handles it,    *)
(* the thread that forwards it, the sink that keeps it for later.            *)
InQueue(n, f) == \E i \in DOMAIN inbox[n] : inbox[n][i] = f

Holders(f) ==
  ({"queue"} \X {n \in Nodes : InQueue(n, f)}) \cup
  ({"item"} \X {n \in Nodes : item[n] = f}) \cup
  ({"out"} \X {n \in Feeders : out[n] = f}) \cup
  ({"kept"} \X {n \in Sinks : f \in kept[n]})

(* A frame is in memory as long as somebody holds it: its count never falls  *)
(* below the number of holders, whatever the order in which they let go.     *)
HeldFramesLive == \A f \in Frames : Cardinality(Holders(f)) <= refs[f]

(* No reference is lost: a frame that nobody holds any more is deleted.      *)
NoFrameLeaks == \A f \in Frames : refs[f] <= Cardinality(Holders(f))

(* A semaphore is destroyed only when no thread is about to post it.         *)
SemaphoreOutlivesSenders ==
  \A n \in Feeders : target[n] # None => pc[target[n]] # "none"

(* The thread of a node ends only after it has taken every frame that was    *)
(* forwarded to the node.  "flush remaining output from audio encoder and    *)
(* forward it to sinks" (audio_encoder_class.cpp:527).                       *)
ForwardedFramesAreTaken ==
  \A n \in Receivers : pc[n] \in {"exited", "none"} => \A f \in Frames : ~InQueue(n, f)

(* CAVMediaFlow::Stop returns, although it waits for every thread and takes  *)
(* mutexes that those threads take.                                          *)
StopReturns == cpc = "stopSources" ~> cpc = "stopped"
=============================================================================
