------------------------------ MODULE TimedSync ------------------------------
(***************************************************************************)
(* CTimedSync (player/src/timed_sync.cpp, sync.h): the ring of decoded     *)
(* video frames or timed text that the decode thread of one media fills    *)
(* and the sync thread of the session plays.  The two threads share the    *)
(* ring without a lock.  A frame is handed over by a flag per slot, and a  *)
(* decode thread that finds no free slot announces that in                 *)
(* m_decode_waiting and sleeps on its semaphore, which every message to    *)
(* the decode thread posts as well.                                        *)
(*                                                                         *)
(* One step of this module is one access, or one run of accesses the other *)
(* thread cannot tell apart, to the shared state.  A frame is its number   *)
(* in the order of publication, which also stands for its display time.    *)
(***************************************************************************)
EXTENDS Integers, FiniteSets

CONSTANTS
  MaxBuffers,     \* m_max_buffers: slots of the ring
  StreamLength,   \* frames of the stream; the decoder meets its end after them
  LateLimit,      \* the 1000 ms after which play_at leaves a frame to the resync
  MaxPosts,       \* bound: posts to the semaphore that are not notifications
  PublishTwice    \* TRUE: SDL video, which sets the flag of a slot twice;
                  \* FALSE: timed text, which sets it once

ASSUME ConstantsAssumption ==
  /\ MaxBuffers \in Nat \ {0, 1}
  /\ StreamLength \in Nat
  /\ LateLimit \in Nat
  /\ MaxPosts \in Nat
  /\ PublishTwice \in BOOLEAN

VARIABLES
  filled,         \* m_buffer_filled
  playThisAt,     \* m_play_this_at
  content,        \* the picture of each slot, or its text in m_buffer_list
  fillIndex,      \* m_fill_index, written by the decode thread
  playIndex,      \* m_play_index, written by the sync thread
  decodeWaiting,  \* m_decode_waiting
  decodeSem,      \* value of the semaphore m_decode_sem points to
  dontFill,       \* m_dont_fill
  eof,            \* m_eof
  dpc,            \* where the decode thread is
  spc,            \* where the sync thread is
  call,           \* arguments, locals and results of the current play_at
  published,      \* history: frames whose slot has been flagged as filled
  taken,          \* history: frames the sync thread has removed from the ring
  lastTaken,      \* history: the frame removed last
  shown,          \* history: what was rendered last
  overtaken,      \* history: a text was stored where another was on its way to the screen
  posts           \* history: semaphore posts by other senders

ring == <<filled, playThisAt, content, fillIndex, playIndex>>
wakeup == <<decodeWaiting, decodeSem>>
history == <<published, taken, lastTaken, shown, overtaken>>
vars == <<ring, wakeup, dontFill, eof, dpc, spc, call, history, posts>>

Slots == 0 .. MaxBuffers - 1
NoFrame == -1

(* Mutant: the index is incremented and not wrapped. *)
SuccUnwrapped(i) == i + 1

Succ(i) == (i + 1) % MaxBuffers

DecodePC == {"idle", "check", "setWaiting", "sleep", "recheck", "write",
             "publish", "increment"}
SyncPC == {"out", "test", "eofTest", "free", "advance", "peek", "render",
           "clear", "notify", "post"}

Init ==
  /\ filled = [i \in Slots |-> FALSE]
  /\ playThisAt = [i \in Slots |-> NoFrame]
  /\ content = [i \in Slots |-> NoFrame]
  /\ fillIndex = 0 /\ playIndex = 0
  /\ decodeWaiting = FALSE /\ decodeSem = 0
  /\ dontFill = FALSE /\ eof = FALSE
  /\ dpc = "idle" /\ spc = "out"
  /\ call = [time |-> 0, resync |-> FALSE, index |-> 0, used |-> FALSE,
             eof |-> FALSE]
  /\ published = 0 /\ taken = 0
  /\ lastTaken = NoFrame /\ shown = NoFrame /\ overtaken = FALSE
  /\ posts = 0

-----------------------------------------------------------------------------
(* The decode thread: set_video_frame, get_video_buffer followed by          *)
(* filled_video_buffers, or have_frame of timed text, for one decoded frame. *)

DStep(from, to) == dpc = from /\ dpc' = to

SyncThreadUnchanged == UNCHANGED <<playIndex, taken, lastTaken, shown, spc, call>>

(* The plugin has a frame and asks for a slot. *)
DecodeFrame ==
  /\ published < StreamLength
  /\ DStep("idle", "check")
  /\ UNCHANGED <<ring, wakeup, dontFill, eof, spc, call, history, posts>>

(* have_buffer_to_fill up to the store to m_decode_waiting. *)
CheckSlot ==
  /\ \/ dontFill /\ DStep("check", "idle")
     \/ ~dontFill /\ filled[fillIndex] /\ DStep("check", "setWaiting")
     \/ ~dontFill /\ ~filled[fillIndex] /\ DStep("check", "write")
  /\ UNCHANGED <<ring, wakeup, dontFill, eof, spc, call, history, posts>>

SetWaiting ==
  /\ DStep("setWaiting", "sleep")
  /\ decodeWaiting' = TRUE
  /\ UNCHANGED <<ring, decodeSem, dontFill, eof, spc, call, history, posts>>

(* SDL_SemWait returns; whoever posted, a token is a token. *)
Awake ==
  /\ decodeSem > 0
  /\ DStep("sleep", "recheck")
  /\ decodeSem' = decodeSem - 1
  /\ UNCHANGED <<ring, decodeWaiting, dontFill, eof, spc, call, history, posts>>

(* Mutant: every wake-up is taken for a free slot. *)
RecheckSlotTrusting ==
  /\ \/ dontFill /\ DStep("recheck", "idle")
     \/ ~dontFill /\ DStep("recheck", "write")
  /\ UNCHANGED <<ring, wakeup, dontFill, eof, spc, call, history, posts>>

(* After the wait; a slot that is still filled means the frame is dropped. *)
RecheckSlot ==
  /\ \/ (dontFill \/ filled[fillIndex]) /\ DStep("recheck", "idle")
     \/ ~dontFill /\ ~filled[fillIndex] /\ DStep("recheck", "write")
  /\ UNCHANGED <<ring, wakeup, dontFill, eof, spc, call, history, posts>>

(* The slot that the sync thread has freed and may not have rendered yet. *)
OnItsWay(i) == spc \in {"advance", "peek", "render", "clear"} /\ i = call.index

(* The copy into the slot, which lasts as long as dpc is "write".  Nothing   *)
(* sets m_dont_fill here: see PausePlay for a ring that is closed meanwhile. *)
WriteSlot ==
  /\ DStep("write", IF PublishTwice THEN "publish" ELSE "increment")
  /\ playThisAt' = [playThisAt EXCEPT ![fillIndex] = published]
  /\ content' = [content EXCEPT ![fillIndex] = published]
  /\ overtaken' = (overtaken \/ (~PublishTwice /\ OnItsWay(fillIndex)))
  /\ UNCHANGED <<filled, fillIndex, wakeup, dontFill, eof, published, posts>>
  /\ SyncThreadUnchanged

(* The flag of the slot is raised: by SDL video itself first, then, or in the *)
(* case of text only, by increment_fill_index, which moves the index as well.*)
(* The sync thread never reads m_fill_index.                                 *)
RaiseFlag ==
  /\ dpc \in {"publish", "increment"}
  /\ filled' = [filled EXCEPT ![fillIndex] = TRUE]
  /\ dpc' = IF dpc = "publish" THEN "increment" ELSE "idle"
  /\ fillIndex' = IF dpc = "increment" THEN Succ(fillIndex) ELSE fillIndex
  /\ published' = IF dpc = "increment" /\ PublishTwice THEN published ELSE published + 1
  /\ UNCHANGED <<playThisAt, content, overtaken, wakeup, dontFill, eof, posts>>
  /\ SyncThreadUnchanged

FillStep ==
  \/ CheckSlot \/ SetWaiting \/ Awake \/ RecheckSlot
  \/ WriteSlot \/ RaiseFlag

(* The byte stream is at its end: decode_thread calls set_eof. *)
SetEof ==
  /\ published = StreamLength /\ ~eof
  /\ dpc = "idle"
  /\ eof' = TRUE
  /\ UNCHANGED <<ring, wakeup, dontFill, dpc, spc, call, history, posts>>

-----------------------------------------------------------------------------
(* The sync thread: play_at and notify_decode_thread.                        *)

SStep(from, to) == spc = from /\ spc' = to

DecodeThreadUnchanged == UNCHANGED <<playThisAt, content, fillIndex, published, overtaken, dpc>>

(* Where play_at goes when its loop is done. *)
LoopExit == IF call.used THEN "notify" ELSE "out"

(* play_at is called with the session clock and have_audio_resync. *)
CallPlayAt(t, r) ==
  /\ SStep("out", "test")
  /\ call' = [time |-> t, resync |-> r, index |-> playIndex,
              used |-> FALSE, eof |-> FALSE]
  /\ UNCHANGED <<ring, wakeup, dontFill, eof, dpc, history, posts>>

(* The session clock never runs backwards. *)
PlayAt ==
  \E t \in call.time .. StreamLength + LateLimit, r \in BOOLEAN : CallPlayAt(t, r)

Late(frame) == call.resync /\ call.time - frame > LateLimit

(* The top of the loop: is the next slot filled, and is its frame due? *)
TestSlot ==
  /\ \/ ~filled[playIndex] /\ SStep("test", "eofTest")
     \/ /\ filled[playIndex]
        /\ playThisAt[playIndex] > call.time \/ Late(playThisAt[playIndex])
        /\ SStep("test", LoopExit)
     \/ /\ filled[playIndex]
        /\ ~(playThisAt[playIndex] > call.time \/ Late(playThisAt[playIndex]))
        /\ SStep("test", "free")
  /\ UNCHANGED <<ring, wakeup, dontFill, eof, dpc, call, history, posts>>

(* The slot was not filled when it was tested; the end of file flag is read  *)
(* only now.                                                                 *)
TestEof ==
  /\ SStep("eofTest", LoopExit)
  /\ call' = [call EXCEPT !.eof = eof]
  /\ UNCHANGED <<ring, wakeup, dontFill, eof, dpc, history, posts>>

(* increment_play_index, first half: the slot is free from here on. *)
FreeSlot ==
  /\ SStep("free", "advance")
  /\ filled' = [filled EXCEPT ![playIndex] = FALSE]
  /\ call' = [call EXCEPT !.index = playIndex, !.used = TRUE]
  /\ taken' = taken + 1
  /\ lastTaken' = playThisAt[playIndex]
  /\ UNCHANGED <<playIndex, wakeup, dontFill, eof, shown, posts>>
  /\ DecodeThreadUnchanged

(* increment_play_index, second half. *)
AdvancePlayIndex ==
  /\ SStep("advance", "peek")
  /\ playIndex' = Succ(call.index)
  /\ UNCHANGED <<filled, wakeup, dontFill, eof, call, taken, lastTaken, shown, posts>>
  /\ DecodeThreadUnchanged

(* Mutant: a frame is passed over for the next one, due or not. *)
PeekNextSlotEager ==
  /\ \/ ~filled[playIndex] /\ SStep("peek", "render")
     \/ filled[playIndex] /\ SStep("peek", "test")
  /\ UNCHANGED <<ring, wakeup, dontFill, eof, dpc, call, history, posts>>

(* Render the frame, unless the one after it is filled and due as well. *)
PeekNextSlot ==
  /\ \/ /\ ~filled[playIndex] \/ playThisAt[playIndex] > call.time
        /\ SStep("peek", "render")
     \/ /\ filled[playIndex] /\ ~(playThisAt[playIndex] > call.time)
        /\ SStep("peek", "test")
  /\ UNCHANGED <<ring, wakeup, dontFill, eof, dpc, call, history, posts>>

(* Mutant: the slot m_play_index has moved on to is rendered. *)
RenderPlayIndex ==
  /\ SStep("render", IF PublishTwice THEN "test" ELSE "clear")
  /\ shown' = content[playIndex]
  /\ UNCHANGED <<ring, wakeup, dontFill, eof, dpc, call, published, taken,
                 lastTaken, overtaken, posts>>

(* render(play_index) reads a slot that has been free since FreeSlot: the    *)
(* decode thread may have stored another frame there.                        *)
Render ==
  /\ SStep("render", IF PublishTwice THEN "test" ELSE "clear")
  /\ shown' = content[call.index]
  /\ UNCHANGED <<ring, wakeup, dontFill, eof, dpc, call, published, taken,
                 lastTaken, overtaken, posts>>

(* The renderer of a text then empties the slot, whatever is in it by now.   *)
ClearSlot ==
  /\ SStep("clear", "test")
  /\ content' = [content EXCEPT ![call.index] = NoFrame]
  /\ UNCHANGED <<filled, playThisAt, fillIndex, playIndex, wakeup, dontFill, eof, dpc,
                 call, history, posts>>

(* notify_decode_thread: the test and the reset of the flag, then the post. *)
NotifyDecodeThread ==
  /\ \/ decodeWaiting /\ SStep("notify", "post")
     \/ ~decodeWaiting /\ SStep("notify", "out")
  /\ decodeWaiting' = FALSE
  /\ UNCHANGED <<ring, decodeSem, dontFill, eof, dpc, call, history, posts>>

PostDecodeSem ==
  /\ SStep("post", "out")
  /\ decodeSem' = decodeSem + 1
  /\ UNCHANGED <<ring, decodeWaiting, dontFill, eof, dpc, call, history, posts>>

PlayStep ==
  \/ TestSlot \/ TestEof \/ FreeSlot \/ AdvancePlayIndex
  \/ PeekNextSlot \/ Render \/ ClearSlot \/ NotifyDecodeThread \/ PostDecodeSem

-----------------------------------------------------------------------------
(* A message to the decode thread, or a primed byte stream, posts the same   *)
(* semaphore.                                                                *)
OtherPost ==
  /\ posts < MaxPosts
  /\ posts' = posts + 1
  /\ decodeSem' = decodeSem + 1
  /\ UNCHANGED <<ring, decodeWaiting, dontFill, eof, dpc, spc, call, history>>

Next ==
  \/ DecodeFrame \/ FillStep \/ SetEof
  \/ PlayAt \/ PlayStep
  \/ OtherPost

Spec == Init /\ [][Next]_vars

-----------------------------------------------------------------------------
TypeOK ==
  /\ filled \in [Slots -> BOOLEAN]
  /\ playThisAt \in [Slots -> Nat \cup {NoFrame}]
  /\ content \in [Slots -> Nat \cup {NoFrame}]
  /\ fillIndex \in Slots /\ playIndex \in Slots
  /\ decodeWaiting \in BOOLEAN /\ decodeSem \in Nat
  /\ dontFill \in BOOLEAN /\ eof \in BOOLEAN
  /\ dpc \in DecodePC /\ spc \in SyncPC
  /\ call \in [time: Nat, resync: BOOLEAN, index: Slots, used: BOOLEAN,
               eof: BOOLEAN]
  /\ published \in Nat /\ taken \in Nat
  /\ lastTaken \in Nat \cup {NoFrame} /\ shown \in Nat \cup {NoFrame}
  /\ overtaken \in BOOLEAN
  /\ posts \in Nat

-----------------------------------------------------------------------------
(* Properties of the ring.                                                   *)

(* The oldest frame of the ring is in slot Head: between the two halves of   *)
(* increment_play_index, m_play_index is one behind.                         *)
Head == IF spc = "advance" THEN Succ(call.index) ELSE playIndex

(* How many slots after Head slot i comes. *)
Distance(i) == IF i >= Head THEN i - Head ELSE i - Head + MaxBuffers

(* The slots flagged as filled are exactly those from m_play_index up to     *)
(* m_fill_index, and they hold the frames published and not yet taken, in    *)
(* order: the two indexes, moved by two threads, never drift apart from the  *)
(* flags.                                                                    *)
RingAligned ==
  /\ published - taken \in 0 .. MaxBuffers
  /\ \A i \in Slots : filled[i] <=> Distance(i) < published - taken
  /\ \A i \in Slots : filled[i] => playThisAt[i] = taken + Distance(i)
  /\ Distance(fillIndex) = IF published - taken = MaxBuffers
                             THEN 0 ELSE published - taken

(* When play_at returns, the screen shows the last frame it took out of the  *)
(* ring: it passes over a frame only for a newer one that it also takes.     *)
(* But it frees a slot before it renders it.  Once the decode thread has     *)
(* been fast enough to fill that slot in between, the screen may be one ring *)
(* ahead, and the text that was shown too early, or emptied unseen, is       *)
(* missing when its time comes (timed_sync.cpp:197-208, text.cpp:25-30).     *)
LatestTakenIsShown ==
  spc = "out" =>
    \/ shown = lastTaken
    \/ overtaken /\ shown \in {lastTaken + MaxBuffers, NoFrame}

(* The sync thread takes every frame once, in order of publication.          *)
FramesTakenInOrder == [][taken' # taken => lastTaken' = taken]_vars

(* The decode thread never stores into a slot whose flag is up, the frame of *)
(* which is still to be played, although its test of the flag and its store  *)
(* are separate steps.  (The sync thread may empty such a slot.)             *)
FramesNotOverwritten ==
  [][\A i \in Slots :
       playThisAt'[i] # playThisAt[i] \/ content'[i] \notin {content[i], NoFrame}
         => ~filled[i]]_vars

(* The ring implements the queue of frames. *)
Contents ==
  [k \in 1 .. Cardinality({i \in Slots : filled[i]}) |->
     playThisAt[(Head + k - 1) % MaxBuffers]]

Queue == INSTANCE FrameQueue WITH
  Capacity <- MaxBuffers, queue <- Contents, put <- published,
  last <- lastTaken, screen <- shown

ImplementsFrameQueue == Queue!Spec

(* "If the decode thread is waiting, signal it" (timed_sync.cpp:91): when    *)
(* play_at has returned, a decode thread asleep on the ring has its flag up  *)
(* and there is a frame whose removal will signal it.                        *)
SleeperWillBeSignalled ==
  spc = "out" /\ dpc = "sleep" /\ decodeSem = 0 =>
    decodeWaiting /\ filled[playIndex]
=============================================================================
