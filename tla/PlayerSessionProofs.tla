-------------------------- MODULE PlayerSessionProofs --------------------------
(***************************************************************************)
(* Proofs about a session of the player, for any files, any events of the  *)
(* user in any number, and any number of loops.                            *)
(***************************************************************************)
EXTENDS PlayerSession, SequenceTheorems, FiniteSetTheorems, TLAPS

-----------------------------------------------------------------------------
(* Queues. *)

LastOf(q) == q[Len(q)]
NoStart(q) == \A i \in 1 .. Len(q) : q[i] # "START"

(* Only the message at the end is other than a start. *)
OnlyLast(q) == \A i \in 1 .. Len(q) - 1 : q[i] = "START"

LEMMA Appended ==
  ASSUME NEW S, NEW q \in Seq(S), NEW x \in S
  PROVE  /\ Append(q, x) \in Seq(S) /\ Append(q, x) # << >> /\ LastOf(Append(q, x)) = x
         /\ NoStart(q) /\ x # "START" => NoStart(Append(q, x))
         /\ x = "START" => ~NoStart(Append(q, x))
         /\ ~NoStart(q) => ~NoStart(Append(q, x))
         /\ (\A i \in 1 .. Len(q) : q[i] = "START") => OnlyLast(Append(q, x))
<1>1. /\ Append(q, x) \in Seq(S) /\ Len(Append(q, x)) = Len(q) + 1 /\ Len(q) \in Nat
      /\ \A i \in 1 .. Len(q) : Append(q, x)[i] = q[i]
      /\ Append(q, x)[Len(q) + 1] = x
  BY AppendProperties, LenProperties
<1>2. Append(q, x) # << >>
  BY AppendProperties
<1> QED BY <1>1, <1>2 DEF LastOf, NoStart, OnlyLast

LEMMA Taken ==
  ASSUME NEW S, NEW q \in Seq(S), q # << >>
  PROVE  /\ Head(q) \in S /\ Tail(q) \in Seq(S)
         /\ Tail(q) # << >> => LastOf(Tail(q)) = LastOf(q)
         /\ Tail(q) = << >> => LastOf(q) = Head(q)
         /\ NoStart(q) <=> Head(q) # "START" /\ NoStart(Tail(q))
         /\ OnlyLast(q) => OnlyLast(Tail(q)) /\ (Tail(q) # << >> => Head(q) = "START")
<1>1. /\ Head(q) \in S /\ Tail(q) \in Seq(S) /\ Len(Tail(q)) = Len(q) - 1
      /\ \A i \in 1 .. Len(Tail(q)) : Tail(q)[i] = q[i + 1]
      /\ Len(q) \in Nat /\ Len(q) > 0
  BY HeadTailProperties, LenProperties, EmptySeq
<1>2. Head(q) = q[1]
  BY <1>1
<1>3. Tail(q) # << >> <=> Len(Tail(q)) > 0
  BY <1>1, EmptySeq, LenProperties
<1>4. NoStart(q) <=> Head(q) # "START" /\ NoStart(Tail(q))
  <2>1. ASSUME NoStart(q) PROVE Head(q) # "START" /\ NoStart(Tail(q))
    BY <1>1, <1>2, <2>1 DEF NoStart
  <2>2. ASSUME Head(q) # "START", NoStart(Tail(q)), NEW i \in 1 .. Len(q)
        PROVE  q[i] # "START"
    <3>1. CASE i = 1  BY <1>2, <2>2, <3>1
    <3>2. CASE i # 1
      <4>1. i - 1 \in 1 .. Len(Tail(q)) /\ (i - 1) + 1 = i  BY <1>1, <3>2
      <4> QED BY <1>1, <2>2, <4>1 DEF NoStart
    <3> QED BY <3>1, <3>2
  <2> QED BY <2>1, <2>2 DEF NoStart
<1>5. OnlyLast(q) => OnlyLast(Tail(q)) /\ (Tail(q) # << >> => Head(q) = "START")
  BY <1>1, <1>2, <1>3 DEF OnlyLast
<1> QED BY <1>1, <1>2, <1>3, <1>4, <1>5 DEF LastOf

(* What the queue of the sync thread holds when all but the last are starts. *)
LEMMA Shape ==
  ASSUME NEW S, NEW q \in Seq(S), OnlyLast(q)
  PROVE  /\ q = << >> => NoStart(q) /\ \A i \in 1 .. Len(q) : q[i] = "START"
         /\ q # << >> /\ LastOf(q) = "START" => \A i \in 1 .. Len(q) : q[i] = "START"
<1>1. Len(q) \in Nat /\ (q = << >> => Len(q) = 0)
  BY LenProperties
<1> QED BY <1>1 DEF NoStart, OnlyLast, LastOf

-----------------------------------------------------------------------------
(* Types. *)

Track ==
  [setup : {"none", "configured", "initialised"}, level : 0 .. 2, closed : BOOLEAN,
   eof : BOOLEAN, dpc : {"wait", "run", "look"}, queue : Seq({"START", "PAUSE"})]
Audio == [paused : BOOLEAN, running : BOOLEAN, resync : BOOLEAN]

(* The conjuncts of the type invariant in four groups. *)
TrackTypes == track \in [Media -> Track] /\ audio \in Audio
ScalarTypes ==
  /\ shortRender \in BOOLEAN /\ media \subseteq Media /\ waitingForAudio \in BOOLEAN
  /\ syncState \in SyncStates /\ newState \in SyncStates /\ spc \in SyncPC
  /\ sessionState \in {"PAUSED", "BUFFERING", "PLAYING", "DONE"}
  /\ pauseDone \in BOOLEAN /\ hardwareError \in BOOLEAN
  /\ mpc \in MainPC /\ after \in {"inner", "play", "count"} /\ paused \in BOOLEAN
  /\ initPause \in {"no", "now", "earlier"}
QueueTypes ==
  /\ syncQueue \in Seq({"START", "PAUSE", "STOP"})
  /\ masterQueue \in Seq(Keys \cup {"FINISHED", "ERROR"})
UserTypes ==
  /\ ui \in [paused : BOOLEAN, stop : BOOLEAN, maxLoop : {MaxLoop, 0}, loopCount : Int]
  /\ keys \in 0 .. MaxKeys + 1

LEMMA TypeIs ==
  /\ TypeOK <=> TrackTypes /\ ScalarTypes /\ QueueTypes /\ UserTypes
  /\ TypeOK' <=> TrackTypes' /\ ScalarTypes' /\ QueueTypes' /\ UserTypes'
BY Zenon DEF TypeOK, TrackTypes, ScalarTypes, QueueTypes, UserTypes, Track, Audio

LEMMA QueueFacts ==
  ASSUME TypeOK
  PROVE  /\ \A x \in {"START", "PAUSE", "STOP"} :
              Append(syncQueue, x) \in Seq({"START", "PAUSE", "STOP"})
         /\ \A x \in Keys \cup {"FINISHED", "ERROR"} :
              Append(masterQueue, x) \in Seq(Keys \cup {"FINISHED", "ERROR"})
         /\ syncQueue # << >> => /\ Head(syncQueue) \in {"START", "PAUSE", "STOP"}
                                /\ Tail(syncQueue) \in Seq({"START", "PAUSE", "STOP"})
         /\ masterQueue # << >> => Tail(masterQueue) \in Seq(Keys \cup {"FINISHED", "ERROR"})
<1> DEFINE S == {"START", "PAUSE", "STOP"}
           T == Keys \cup {"FINISHED", "ERROR"}
<1>1. syncQueue \in Seq(S) /\ masterQueue \in Seq(T)
  BY TypeIs DEF QueueTypes
<1> HIDE DEF S, T
<1>2. \A x \in S : Append(syncQueue, x) \in Seq(S)  BY <1>1, Appended
<1>3. \A x \in T : Append(masterQueue, x) \in Seq(T)  BY <1>1, Appended
<1>4. syncQueue # << >> => Head(syncQueue) \in S /\ Tail(syncQueue) \in Seq(S)
  BY <1>1, Taken
<1>5. masterQueue # << >> => Tail(masterQueue) \in Seq(T)  BY <1>1, Taken
<1> QED BY <1>2, <1>3, <1>4, <1>5 DEF S, T

LEMMA MediaFinite == \A ms \in SUBSET Media : Cardinality(ms) \in Nat
<1>1. IsFiniteSet({}) /\ IsFiniteSet({} \cup {"audio"})
  BY FS_EmptySet, FS_AddElement
<1>2. IsFiniteSet(({} \cup {"audio"}) \cup {"video"})
  BY <1>1, FS_AddElement
<1>3. Media = ({} \cup {"audio"}) \cup {"video"}
  BY DEF Media
<1>4. IsFiniteSet(Media)
  BY <1>2, <1>3
<1> QED BY <1>4, FS_Subset, FS_CardinalityType

LEMMA ClosedType ==
  ASSUME NEW tr \in [Media -> Track], NEW ms
  PROVE  ClosedTracks(tr, ms) \in [Media -> Track]
<1> DEFINE shut(m) == [tr[m] EXCEPT !.closed = TRUE, !.eof = FALSE]
<1>1. \A m \in Media : tr[m] \in Track
  OBVIOUS
<1>2. \A m \in Media : shut(m) \in Track
  BY <1>1 DEF Track
<1>3. ClosedTracks(tr, ms) = [m \in Media |-> IF m \in ms THEN shut(m) ELSE tr[m]]
  BY DEF ClosedTracks
<1> HIDE DEF shut
<1> QED BY <1>1, <1>2, <1>3

LEMMA TriedType ==
  ASSUME track \in [Media -> Track], NEW ms
  PROVE  Tried(ms) \in [Media -> Track]
<1>1. ASSUME NEW m \in Media PROVE Tried(ms)[m] \in Track
  <2>1. track[m] \in Track  OBVIOUS
  <2>2. [track[m] EXCEPT !.setup = "initialised"] \in Track  BY <2>1 DEF Track
  <2> QED BY <2>1, <2>2 DEF Tried
<1> QED BY <1>1 DEF Tried

LEMMA SendType ==
  ASSUME track \in [Media -> Track], NEW message \in {"START", "PAUSE"}, NEW ms,
         SendDecoders(message, ms)
  PROVE  track' \in [Media -> Track]
<1>1. ASSUME NEW m \in Media
      PROVE  [track[m] EXCEPT !.queue = Append(@, message)] \in Track
  <2>1. track[m] \in Track /\ track[m].queue \in Seq({"START", "PAUSE"})
    BY DEF Track
  <2>2. Append(track[m].queue, message) \in Seq({"START", "PAUSE"})
    BY <2>1, Appended
  <2> QED BY <2>1, <2>2 DEF Track
<1>2. \A m \in Media : track[m] \in Track
  OBVIOUS
<1>3. track' = [m \in Media |-> IF m \in ms
                                THEN [track[m] EXCEPT !.queue = Append(@, message)]
                                ELSE track[m]]
  BY DEF SendDecoders
<1> DEFINE sent(m) == [track[m] EXCEPT !.queue = Append(@, message)]
<1>4. \A m \in Media : sent(m) \in Track
  BY <1>1
<1> HIDE DEF sent
<1>5. track' = [m \in Media |-> IF m \in ms THEN sent(m) ELSE track[m]]
  BY <1>3 DEF sent
<1> QED BY <1>2, <1>4, <1>5

LEMMA FlushedType ==
  ASSUME NEW t \in Track
  PROVE  Flushed(t) \in Track
<1>1. [t EXCEPT !.closed = FALSE] \in Track  BY DEF Track
<1>2. \A u \in Track : [u EXCEPT !.level = 0] \in Track  BY DEF Track
<1> QED BY <1>1, <1>2 DEF Flushed

(* The last step of each of the lemmas below. *)
LEMMA PlayingAudioType == TypeOK => PlayingAudio \in Audio
BY DEF PlayingAudio, Initialised, Audio

LEMMA StopAudioType == ASSUME audio \in Audio, NEW ms PROVE StopAudio(ms) \in Audio
BY DEF StopAudio, Audio

LEMMA InitTypes == Init => TypeOK
<1> SUFFICES ASSUME Init PROVE TypeOK
  OBVIOUS
<1>1. track \in [Media -> Track]
  BY EmptySeq DEF Init, Track
<1>2. audio \in Audio
  BY DEF Init, Audio
<1>3. ScalarTypes
  BY DEF Init, ScalarTypes, SyncStates, SyncPC, MainPC
<1>4. QueueTypes
  BY EmptySeq DEF Init, QueueTypes
<1>5. ui \in [paused : BOOLEAN, stop : BOOLEAN, maxLoop : {MaxLoop, 0}, loopCount : Int]
  BY DEF Init
<1>6. keys \in 0 .. MaxKeys + 1
  BY KeysAssumption DEF Init
<1> QED BY <1>1, <1>2, <1>3, <1>4, <1>5, <1>6, TypeIs DEF TrackTypes, UserTypes

LEMMA DecodeTypes ==
  ASSUME TypeOK, NEW m \in media, DecodeThread(m)
  PROVE  TypeOK'
<1>1. track \in [Media -> Track] /\ audio \in Audio /\ m \in Media /\ track[m] \in Track
  BY TypeIs DEF TrackTypes, ScalarTypes
<1>2. /\ UNCHANGED <<shortRender, media, waitingForAudio, syncVars, syncQueue,
                     sessionState, pauseDone, mainVars, masterQueue, history>>
  BY DEF DecodeThread, TakeDecodeMessage, DecodeFrame, EndOfFile, DecoderLeaves
<1>3. audio' \in Audio
  BY <1>1 DEF DecodeThread, TakeDecodeMessage, DecodeFrame, EndOfFile, Audio
<1>4. track' \in [Media -> Track]
  <2>1. CASE TakeDecodeMessage(m)
    <3> DEFINE t == track[m]
               dpc == IF Head(t.queue) = "PAUSE" THEN "wait"
                      ELSE IF t.dpc = "wait" THEN NextTurn(Tail(t.queue)) ELSE "run"
               new == [Flushed(t) EXCEPT !.queue = Tail(t.queue), !.dpc = dpc]
    <3>1. t.queue # << >> /\ track' = [track EXCEPT ![m] = new]
      <4>1. Flushed(t).queue = t.queue
        BY <1>1 DEF Flushed, Track
      <4> QED BY <2>1, <4>1 DEF TakeDecodeMessage
    <3>2. dpc \in {"wait", "run", "look"}
      BY DEF NextTurn
    <3>3. Tail(t.queue) \in Seq({"START", "PAUSE"})
      <4>1. t.queue \in Seq({"START", "PAUSE"})  BY <1>1 DEF Track
      <4> QED BY <3>1, <4>1, Taken
    <3>4. Flushed(t) \in Track  BY <1>1, FlushedType
    <3> HIDE DEF dpc
    <3>5. new \in Track  BY <3>2, <3>3, <3>4 DEF Track
    <3> HIDE DEF new
    <3> QED BY <1>1, <3>1, <3>5
  <2>2. CASE DecodeFrame(m)
    <3> DEFINE setup == Configured(track[m])
               dpc == NextTurn(track[m].queue)
    <3>1. setup \in {"none", "configured", "initialised"} /\ dpc \in {"wait", "run", "look"}
      BY <1>1 DEF Configured, NextTurn, Track
    <3> HIDE DEF setup, dpc
    <3>2. CASE track' = [track EXCEPT ![m].setup = setup, ![m].dpc = dpc]
      <4>1. [track[m] EXCEPT !.setup = setup, !.dpc = dpc] \in Track
        BY <1>1, <3>1 DEF Track
      <4> QED BY <1>1, <3>2, <4>1
    <3>3. CASE /\ track[m].level < Full(m)
               /\ track' = [track EXCEPT ![m].setup = setup, ![m].dpc = dpc,
                                         ![m].level = track[m].level + 1]
      <4>1. track[m].level + 1 \in 0 .. 2
        BY <1>1, <3>3 DEF Track, Full
      <4>2. [track[m] EXCEPT !.setup = setup, !.dpc = dpc, !.level = track[m].level + 1] \in Track
        BY <1>1, <3>1, <4>1 DEF Track
      <4> QED BY <1>1, <3>3, <4>2
    <3> QED BY <2>2, <3>2, <3>3 DEF DecodeFrame, setup, dpc
  <2>3. CASE EndOfFile(m)
    <3>1. [track[m] EXCEPT !.eof = TRUE, !.dpc = "wait"] \in Track
      BY <1>1 DEF Track
    <3> QED BY <1>1, <2>3, <3>1 DEF EndOfFile
  <2> QED BY <2>1, <2>2, <2>3 DEF DecodeThread
<1> QED BY <1>2, <1>3, <1>4, TypeIs
     DEF TrackTypes, ScalarTypes, QueueTypes, UserTypes, syncVars, syncLoopVars, mainVars, history

LEMMA CallbackTypes ==
  ASSUME TypeOK, AudioCallback
  PROVE  TypeOK'
<1>1. track \in [Media -> Track] /\ audio \in Audio /\ track["audio"] \in Track
      /\ waitingForAudio \in BOOLEAN
  BY TypeIs DEF TrackTypes, ScalarTypes, Media
<1>2. UNCHANGED <<shortRender, media, syncVars, syncQueue, sessionState, pauseDone,
                  mainVars, masterQueue, history>>
  BY DEF AudioCallback, Underrun, PlaySamples, CallbackLeaves
<1>3. waitingForAudio' \in BOOLEAN
  BY <1>1 DEF AudioCallback, Underrun, PlaySamples
<1>4. CASE Underrun
  <2>1. audio' \in Audio /\ track' = track
    BY <1>1, <1>4 DEF Underrun, Audio
  <2> QED BY <1>1, <1>2, <1>3, <2>1, TypeIs
     DEF TrackTypes, ScalarTypes, QueueTypes, UserTypes, syncVars, syncLoopVars, mainVars, history
<1>5. CASE PlaySamples
  <2>0. track["audio"].level \in 0 .. 2 /\ track["audio"].level > 0
    BY <1>1, <1>5 DEF PlaySamples, Track
  <2>1. track["audio"].level - 1 \in 0 .. 2
    BY <2>0
  <2>2. [track["audio"] EXCEPT !.level = track["audio"].level - 1] \in Track
    BY <1>1, <2>1 DEF Track
  <2>3. track' = [track EXCEPT !["audio"] = [track["audio"] EXCEPT !.level = track["audio"].level - 1]]
    BY <1>1, <1>5 DEF PlaySamples
  <2>4. track' \in [Media -> Track]
    BY <1>1, <2>2, <2>3
  <2>5. PICK stop \in {audio.resync, track["audio"].level = 1 /\ ~track["audio"].eof, FALSE} :
               audio' = [audio EXCEPT !.running = ~stop, !.paused = @ \/ stop]
    BY <1>5, Zenon DEF PlaySamples
  <2>6. audio' \in Audio
    BY <1>1, <2>5 DEF Audio
  <2> QED BY <1>1, <1>2, <1>3, <2>4, <2>6, TypeIs
     DEF TrackTypes, ScalarTypes, QueueTypes, UserTypes, syncVars, syncLoopVars, mainVars, history
<1> QED BY <1>4, <1>5 DEF AudioCallback

(* The main thread appends to the queues and leaves what the tracks are.     *)
LEMMA MainTypes ==
  ASSUME TypeOK, MainThread
  PROVE  TypeOK'
<1>1. TrackTypes /\ ScalarTypes /\ QueueTypes /\ UserTypes
  BY TypeIs
<1>2. track' \in [Media -> Track]
  <2>1. track \in [Media -> Track]  BY <1>1 DEF TrackTypes
  <2>2. track' = track \/ SendDecoders("PAUSE", media) \/ SendDecoders("START", media)
    BY DEF MainThread, TakeMasterMessage, LeaveInnerLoop, CountLoop, LoopLeaves,
           PauseAllMedia, PauseMedia, PauseMediaStarts, SendPause, SpinDone,
           PlayAllMedia, PlayState, SendStart, PlayMedia, DeleteSession, JoinSyncThread
  <2> QED BY <2>1, <2>2, SendType
<1>3. UNCHANGED <<shortRender, media, audio, waitingForAudio, syncVars, keys>>
  BY DEF MainThread, TakeMasterMessage, LeaveInnerLoop, CountLoop, LoopLeaves,
         PauseAllMedia, PauseMedia, PauseMediaStarts, SendPause, SpinDone,
         PlayAllMedia, PlayState, SendStart, PlayMedia, DeleteSession, JoinSyncThread,
         MainLeaves, CallLeaves, CallKeeps
<1>4. /\ sessionState' \in {"PAUSED", "BUFFERING", "PLAYING", "DONE"}
      /\ initPause' \in {"no", "now", "earlier"}
      /\ mpc' \in MainPC /\ after' \in {"inner", "play", "count"}
  BY <1>1 DEF MainThread, TakeMasterMessage, LeaveInnerLoop, CountLoop, LoopLeaves,
         PauseAllMedia, PauseMedia, PauseMediaStarts, SendPause, SpinDone,
         PlayAllMedia, PlayState, SendStart, PlayMedia, DeleteSession, JoinSyncThread,
         CallLeaves, MStep, ScalarTypes, MainPC, PausePC, PlayPC
<1>5. pauseDone' \in BOOLEAN /\ paused' \in BOOLEAN
  BY <1>1 DEF MainThread, TakeMasterMessage, LeaveInnerLoop, CountLoop, LoopLeaves,
         PauseAllMedia, PauseMedia, PauseMediaStarts, SendPause, SpinDone,
         PlayAllMedia, PlayState, SendStart, PlayMedia, DeleteSession, JoinSyncThread,
         ScalarTypes
<1>6. QueueTypes'
  BY <1>1, QueueFacts
     DEF MainThread, TakeMasterMessage, LeaveInnerLoop, CountLoop, LoopLeaves,
         PauseAllMedia, PauseMedia, PauseMediaStarts, SendPause, SpinDone,
         PlayAllMedia, PlayState, SendStart, PlayMedia, DeleteSession, JoinSyncThread,
         CallLeaves, CallKeeps, QueueTypes
<1>7. ui' \in [paused : BOOLEAN, stop : BOOLEAN, maxLoop : {MaxLoop, 0}, loopCount : Int]
  <2> DEFINE UI == [paused : BOOLEAN, stop : BOOLEAN, maxLoop : {MaxLoop, 0}, loopCount : Int]
  <2>1. ui \in UI /\ MaxLoop \in Int /\ ui.loopCount \in Int /\ ui.maxLoop \in Int
        /\ ui.paused \in BOOLEAN
    BY <1>1, LoopAssumption DEF UserTypes
  <2> SUFFICES ui' \in UI
    OBVIOUS
  <2>2. CASE TakeMasterMessage
    <3>1. /\ [ui EXCEPT !.stop = TRUE] \in UI /\ [ui EXCEPT !.stop = TRUE, !.maxLoop = 0] \in UI
          /\ [ui EXCEPT !.stop = TRUE, !.loopCount = ui.maxLoop] \in UI
          /\ [ui EXCEPT !.paused = ~@] \in UI
      BY <2>1
    <3> HIDE DEF UI
    <3> QED BY <2>1, <2>2, <3>1 DEF TakeMasterMessage
  <2>3. CASE CountLoop
    <3> DEFINE n == ui.loopCount + 1
               k == IF ui.maxLoop = -1 THEN ui.loopCount ELSE n
    <3>1. n \in Int /\ k \in Int
      BY <2>1
    <3>2. \/ ui' = [ui EXCEPT !.loopCount = n]
          \/ ui' = [ui EXCEPT !.paused = FALSE, !.stop = FALSE, !.loopCount = k]
      BY <2>3 DEF CountLoop
    <3> HIDE DEF n, k
    <3>3. /\ [ui EXCEPT !.loopCount = n] \in UI
          /\ [ui EXCEPT !.paused = FALSE, !.stop = FALSE, !.loopCount = k] \in UI
      BY <2>1, <3>1
    <3> QED BY <3>2, <3>3
  <2>4. CASE ~TakeMasterMessage /\ ~CountLoop
    BY <2>1, <2>4
     DEF MainThread, LeaveInnerLoop,
         PauseAllMedia, PauseMedia, PauseMediaStarts, SendPause, SpinDone,
         PlayAllMedia, PlayState, SendStart, PlayMedia, DeleteSession, JoinSyncThread,
         CallLeaves, CallKeeps
  <2> QED BY <2>2, <2>3, <2>4
<1> QED BY <1>1, <1>2, <1>3, <1>4, <1>5, <1>6, <1>7, TypeIs
     DEF TrackTypes, ScalarTypes, UserTypes, syncVars, syncLoopVars


LEMMA DropType ==
  ASSUME track \in [Media -> Track], DropVideo
  PROVE  track' \in [Media -> Track]
<1> DEFINE shut == Flushed(ClosedTracks(track, {"video"})["video"])
<1>1. "video" \in Media /\ track["video"] \in Track
  BY DEF Media
<1>2. ClosedTracks(track, {"video"})["video"] \in Track
  BY <1>1, ClosedType
<1>3. shut \in Track
  BY <1>2, FlushedType
<1>4. track' = [track EXCEPT !["video"] = IF HasVideo THEN shut ELSE track["video"]]
  BY DEF DropVideo
<1> HIDE DEF shut
<1> QED BY <1>1, <1>3, <1>4

LEMMA PlayVideoType ==
  ASSUME track \in [Media -> Track], NEW eof, PlayVideo(eof)
  PROVE  track' \in [Media -> Track]
<1>1. "video" \in Media /\ track["video"] \in Track
  BY DEF Media
<1>2. track["video"].level \in 0 .. 2
  BY <1>1 DEF Track
<1>3. PICK n \in 0 .. track["video"].level :
        track' = [track EXCEPT !["video"].level = @ - n]
  BY DEF PlayVideo
<1> DEFINE left == track["video"].level - n
<1>4. left \in 0 .. 2
  BY <1>2
<1>5. track' = [track EXCEPT !["video"] = [track["video"] EXCEPT !.level = left]]
  BY <1>1, <1>3
<1> HIDE DEF left
<1>6. [track["video"] EXCEPT !.level = left] \in Track
  BY <1>1, <1>4 DEF Track
<1> QED BY <1>1, <1>5, <1>6

(* What the steps of the sync thread do to the tracks. *)
LEMMA SyncTracks ==
  ASSUME SyncThread
  PROVE  \/ track' = track
         \/ StartSession /\ SendDecoders("START", media')
         \/ InitAudioFirst /\ track' = Tried({"audio"})
         \/ InitMedia /\ track' = Tried(media)
         \/ InitFails /\ \E ms \in SUBSET media : track' = ClosedTracks(Tried(ms), media)
         \/ Playing /\ (DropVideo \/ \E eof \in BOOLEAN : PlayVideo(eof))
         \/ AudioResync /\ \E eof \in BOOLEAN : PlayVideo(eof)
         \/ WaitTimedInit /\ (DropVideo \/ track' = Tried(media \ {"audio"}))
         \/ EnterState /\ newState \in {"PAUSED", "EXIT"} /\ track' = ClosedTracks(track, media)
<1>1. CASE StartSession  BY <1>1 DEF StartSession
<1>2. CASE InitAudioFirst \/ InitMedia  BY <1>2 DEF InitAudioFirst, InitMedia
<1>3. CASE InitFails
  <2>1. media \ {"audio"} \in SUBSET media /\ media \in SUBSET media
    OBVIOUS
  <2> QED BY <1>3, <2>1, Zenon DEF InitFails
<1>4. CASE EnterState  BY <1>4, Zenon DEF EnterState, FlushSync
<1>5. CASE Playing  BY <1>5, Zenon DEF Playing
<1>6. CASE AudioResync
  <2>1. PICK check \in AudioSync :
          CASE check = "restart" -> Return("WAIT_SYNC") /\ UNCHANGED track
            [] check \in {"fine", "played"} -> Return("PLAYING") /\ UNCHANGED track
            [] check = "resync" -> /\ \E eof \in BOOLEAN : PlayVideo(eof)
                                   /\ Return("AUDIO_RESYNC") \/ Return("WAIT_SYNC")
    BY <1>6, Zenon DEF AudioResync
  <2>2. check \in {"restart", "fine", "played", "resync"}
    BY <2>1 DEF AudioSync
  <2> HIDE DEF AudioSync
  <2>3. CASE check = "restart"  BY <2>1, <2>3
  <2>4. CASE check \in {"fine", "played"}  BY <2>1, <2>4
  <2>5. CASE check = "resync"  BY <2>1, <2>5, <1>6
  <2> QED BY <2>2, <2>3, <2>4, <2>5
<1>7. CASE WaitTimedInit  BY <1>7, Zenon DEF WaitTimedInit
<1>8. CASE \/ ThreadEnds \/ InitMessage \/ DrainQueue \/ WaitSync \/ WaitAudio
           \/ WaitAudioReady \/ PublishState \/ AcknowledgePause
  BY <1>8 DEF ThreadEnds, InitMessage, InitMessageLeaves, DrainQueue, WaitSync, WaitAudio,
              WaitAudioReady, PublishState, AcknowledgePause, mediaVars
<1> QED BY <1>1, <1>2, <1>3, <1>4, <1>5, <1>6, <1>7, <1>8 DEF SyncThread, StateHandler


(* What the handler of state s can return. *)
Returns(s, t) ==
  \/ s = "WAIT_SYNC" /\ t \in {"WAIT_SYNC", "WAIT_AUDIO", "PLAYING"}
  \/ s = "WAIT_AUDIO" /\ t \in {"WAIT_AUDIO", "PLAYING"}
  \/ s = "PLAYING" /\ t \in {"PLAYING", "WAIT_SYNC", "WAIT_AUDIO_READY", "AUDIO_RESYNC", "DONE"}
  \/ s = "AUDIO_RESYNC" /\ t \in {"AUDIO_RESYNC", "WAIT_SYNC", "PLAYING"}
  \/ s = "WAIT_AUDIO_READY" /\ t \in {"WAIT_AUDIO_READY", "WAIT_TIMED_INIT"}
  \/ s = "WAIT_TIMED_INIT" /\ t \in {"WAIT_TIMED_INIT", "WAIT_AUDIO_READY", "PLAYING"}

LEMMA Handled ==
  ASSUME StateHandler
  PROVE  /\ In(syncState) /\ HandlerLeaves
         /\ \E t \in SyncStates : Return(t) /\ Returns(syncState, t)
<1>1. CASE WaitSync
  <2>1. Return("WAIT_AUDIO") \/ Return("PLAYING") \/ Return("WAIT_SYNC")
    BY <1>1, Zenon DEF WaitSync, StartAudio
  <2> QED BY <1>1, <2>1 DEF WaitSync, In, At, Returns, SyncStates
<1>2. CASE WaitAudio
  <2>1. Return("WAIT_AUDIO") \/ Return("PLAYING")
    BY <1>2 DEF WaitAudio
  <2> QED BY <1>2, <2>1 DEF WaitAudio, In, At, Returns, SyncStates
<1>3. CASE Playing
  <2>1. \/ Return("WAIT_SYNC") \/ Return("WAIT_AUDIO_READY") \/ Return("AUDIO_RESYNC")
        \/ Return("DONE") \/ Return("PLAYING")
    BY <1>3 DEF Playing
  <2> QED BY <1>3, <2>1 DEF Playing, In, At, Returns, SyncStates
<1>4. CASE AudioResync
  <2>1. PICK check \in AudioSync :
          CASE check = "restart" -> Return("WAIT_SYNC") /\ UNCHANGED track
            [] check \in {"fine", "played"} -> Return("PLAYING") /\ UNCHANGED track
            [] check = "resync" -> /\ \E eof \in BOOLEAN : PlayVideo(eof)
                                   /\ Return("AUDIO_RESYNC") \/ Return("WAIT_SYNC")
    BY <1>4, Zenon DEF AudioResync
  <2>2. check \in {"restart", "fine", "played", "resync"}
    BY <2>1 DEF AudioSync
  <2>3. Return("WAIT_SYNC") \/ Return("PLAYING") \/ Return("AUDIO_RESYNC")
    BY <2>1, <2>2
  <2> QED BY <1>4, <2>3 DEF AudioResync, In, At, Returns, SyncStates
<1>5. CASE WaitAudioReady
  <2>1. Return("WAIT_TIMED_INIT") \/ Return("WAIT_AUDIO_READY")
    BY <1>5 DEF WaitAudioReady, StartAudio
  <2> QED BY <1>5, <2>1 DEF WaitAudioReady, In, At, Returns, SyncStates
<1>6. CASE WaitTimedInit
  <2>1. Return("WAIT_AUDIO_READY") \/ Return("PLAYING") \/ Return("WAIT_TIMED_INIT")
    BY <1>6 DEF WaitTimedInit
  <2> QED BY <1>6, <2>1 DEF WaitTimedInit, In, At, Returns, SyncStates
<1> QED BY <1>1, <1>2, <1>3, <1>4, <1>5, <1>6 DEF StateHandler

LEMMA SyncTypes ==
  ASSUME TypeOK, SyncThread
  PROVE  TypeOK'
<1>1. TrackTypes /\ ScalarTypes /\ QueueTypes /\ UserTypes
  BY TypeIs
<1>2. UNCHANGED <<shortRender, mainVars, keys>>
  BY DEF SyncThread, StartSession, ThreadEnds, InitAudioFirst, InitMedia, InitFails, InitLeaves,
         InitMessage, InitMessageLeaves, DrainQueue, StateHandler, WaitSync, WaitAudio,
         WaitAudioReady, Playing, AudioResync, WaitTimedInit, HandlerLeaves, EnterState,
         PublishState, AcknowledgePause, SyncLeaves
<1>3. media' \subseteq Media
  <2>1. CASE StartSession
    BY <1>1, <2>1, FilesAssumption DEF StartSession, ScalarTypes
  <2>2. CASE ~StartSession
    BY <1>1, <2>2
       DEF SyncThread, ThreadEnds, InitAudioFirst, InitMedia, InitFails, InitLeaves,
           InitMessage, InitMessageLeaves, DrainQueue, StateHandler, WaitSync, WaitAudio,
           WaitAudioReady, Playing, AudioResync, WaitTimedInit, HandlerLeaves, EnterState,
           PublishState, AcknowledgePause, ScalarTypes, mediaVars
  <2> QED BY <2>1, <2>2
<1>4. track' \in [Media -> Track]
  <2>1. track \in [Media -> Track]  BY <1>1 DEF TrackTypes
  <2>2. \A ms : Tried(ms) \in [Media -> Track]  BY <2>1, TriedType
  <2>3. \A ms : ClosedTracks(Tried(ms), media) \in [Media -> Track]  BY <2>2, ClosedType
  <2>4. ClosedTracks(track, media) \in [Media -> Track]  BY <2>1, ClosedType
  <2> QED BY <2>1, <2>2, <2>3, <2>4, SyncTracks, SendType, DropType, PlayVideoType
<1>5. audio' \in Audio
  <2>1. audio \in Audio  BY <1>1 DEF TrackTypes
  <2>2. PlayingAudio \in Audio  BY PlayingAudioType
  <2>3. \A ms : StopAudio(ms) \in Audio  BY <2>1, StopAudioType
  <2>4. \/ audio' = audio \/ audio' = PlayingAudio \/ \E ms : audio' = StopAudio(ms)
    BY Zenon
    DEF SyncThread, StartSession, ThreadEnds, InitAudioFirst, InitMedia, InitFails,
        InitMessage, InitMessageLeaves, DrainQueue, StateHandler, WaitSync, WaitAudio,
        WaitAudioReady, Playing, AudioResync, WaitTimedInit, StartAudio, AudioAfter, EnterState,
        FlushSync, PublishState, AcknowledgePause, mediaVars
  <2> QED BY <2>1, <2>2, <2>3, <2>4
<1>6. waitingForAudio' \in BOOLEAN /\ hardwareError' \in BOOLEAN /\ pauseDone' \in BOOLEAN
  BY <1>1, Zenon
    DEF SyncThread, StartSession, ThreadEnds, InitAudioFirst, InitMedia, InitFails, InitLeaves,
        InitMessage, InitMessageLeaves, DrainQueue, StateHandler, WaitSync, WaitAudio,
        WaitAudioReady, Playing, AudioResync, WaitTimedInit, StartAudio, HandlerLeaves, EnterState,
        PublishState, AcknowledgePause, mediaVars, ScalarTypes
<1>7. sessionState' \in {"PAUSED", "BUFFERING", "PLAYING", "DONE"}
      /\ initPause' \in {"no", "now", "earlier"}
  BY <1>1
    DEF SyncThread, StartSession, ThreadEnds, InitAudioFirst, InitMedia, InitFails, InitLeaves,
        InitMessage, InitMessageLeaves, DrainQueue, StateHandler, WaitSync, WaitAudio,
        WaitAudioReady, Playing, AudioResync, WaitTimedInit, HandlerLeaves, EnterState,
        PublishState, AcknowledgePause, Shown, ScalarTypes
<1>8. QueueTypes'
  BY <1>1, QueueFacts
    DEF SyncThread, StartSession, ThreadEnds, InitAudioFirst, InitMedia, InitFails, InitLeaves,
        InitMessage, InitMessageLeaves, DrainQueue, StateHandler, WaitSync, WaitAudio,
        WaitAudioReady, Playing, AudioResync, WaitTimedInit, HandlerLeaves, EnterState,
        PublishState, AcknowledgePause, QueueTypes, Keys
<1>9. syncState' \in SyncStates /\ newState' \in SyncStates /\ spc' \in SyncPC
  <2>1. CASE StateHandler
    BY <1>1, <2>1, Handled DEF HandlerLeaves, ScalarTypes, Return, SyncPC
  <2>2. CASE DrainQueue
    BY <1>1, <2>2 DEF DrainQueue, AfterMessage, ScalarTypes, SyncStates
  <2>3. CASE EnterState \/ PublishState \/ AcknowledgePause
    BY <1>1, <2>3 DEF EnterState, PublishState, AcknowledgePause, SStep, ScalarTypes, SyncPC
  <2>4. CASE InitAudioFirst \/ InitMedia \/ InitFails \/ InitMessage
    BY <1>1, <2>4
       DEF InitAudioFirst, InitMedia, InitFails, InitLeaves, InitMessage, InitMessageLeaves,
           Return, ScalarTypes, SyncStates, SyncPC
  <2>5. CASE StartSession \/ ThreadEnds
    BY <1>1, <2>5 DEF StartSession, ThreadEnds, ScalarTypes, SyncStates, SyncPC
  <2> QED BY <2>1, <2>2, <2>3, <2>4, <2>5 DEF SyncThread
<1> QED BY <1>1, <1>2, <1>3, <1>4, <1>5, <1>6, <1>7, <1>8, <1>9, TypeIs
     DEF TrackTypes, ScalarTypes, UserTypes, mainVars

LEMMA UserTypesKept ==
  ASSUME TypeOK, UserEvent
  PROVE  TypeOK'
<1>1. TrackTypes /\ ScalarTypes /\ QueueTypes /\ UserTypes
  BY TypeIs
<1>2. keys' \in 0 .. MaxKeys + 1
  <2>1. keys \in Int /\ keys >= 0 /\ MaxKeys \in Int /\ Cardinality(media) \in Nat
    BY <1>1, KeysAssumption, MediaFinite DEF UserTypes, ScalarTypes
  <2>2. keys + Cardinality(media) <= MaxKeys /\ keys' = keys + 1
    BY DEF UserEvent
  <2> QED BY <2>1, <2>2
<1>3. QueueTypes'
  BY <1>1, QueueFacts, KeysAssumption DEF UserEvent, QueueTypes
<1> QED BY <1>1, <1>2, <1>3, TypeIs
     DEF UserEvent, TrackTypes, ScalarTypes, UserTypes, mediaVars, syncVars, syncLoopVars, mainVars

LEMMA NextTypes == TypeOK /\ [Next]_vars => TypeOK'
<1>1. TypeOK /\ Next => TypeOK'
  BY MainTypes, SyncTypes, UserTypesKept, CallbackTypes, DecodeTypes DEF Next
<1>2. TypeOK /\ UNCHANGED vars => TypeOK'
  BY TypeIs DEF vars, mediaVars, syncVars, syncLoopVars, mainVars, history,
                TrackTypes, ScalarTypes, QueueTypes, UserTypes
<1> QED BY <1>1, <1>2

(* Every variable of the session keeps its type. *)
THEOREM SessionTypes == Spec => []TypeOK
BY InitTypes, NextTypes, PTL DEF Spec


-----------------------------------------------------------------------------
(* The protocol between the main thread and the sync thread. *)

NotStarted ==
  spc = "start" =>
    /\ media = {} /\ mpc = "inner" /\ masterQueue = << >> /\ syncQueue = << >>
    /\ ~ui.stop /\ ~ui.paused /\ ~paused /\ initPause = "no"
    /\ syncState = "INIT" /\ newState = "INIT"

AbsentMedia ==
  /\ \A m \in Media : m \notin media => track[m].setup = "none"
  /\ audio.running => HasAudio

(* Where the sync thread is, and what its two states are there. *)
SyncPhases ==
  /\ spc = "initMessage" => syncState = "INIT" /\ newState = "INIT"
  /\ spc \in {"publish", "acknowledge"} => newState = syncState
  /\ spc = "enter" => /\ newState # syncState /\ newState # "PAUSED"
                      /\ newState = "WAIT_AUDIO" => syncState = "WAIT_SYNC"
                      /\ newState = "AUDIO_RESYNC" => syncState = "PLAYING"
  /\ spc = "top" /\ newState # syncState => newState \in {"PAUSED", "EXIT", "WAIT_SYNC"}
  /\ syncState = "EXIT" => newState = "EXIT" /\ spc \in {"top", "ended"}

(* A pause and the stop are the last message: the main thread waits for them *)
(* before it sends another.                                                  *)
SyncMessages ==
  /\ OnlyLast(syncQueue)
  /\ syncQueue # << >> /\ LastOf(syncQueue) = "PAUSE" => mpc = "spin" /\ ~pauseDone
  /\ syncQueue # << >> /\ LastOf(syncQueue) = "STOP" => mpc \in {"join", "ended"}
  /\ newState = "EXIT" /\ syncState # "EXIT" => syncQueue = << >> /\ mpc \in {"join", "ended"}
  /\ mpc = "sendPause" => ~pauseDone

(* A pause that the sync thread has taken and not acknowledged. *)
PauseTaken ==
  \/ newState = "PAUSED" /\ syncState # "PAUSED"
  \/ syncState = "PAUSED" /\ spc \in {"publish", "acknowledge"}

OnePause == PauseTaken => mpc = "spin" /\ ~pauseDone /\ syncQueue = << >>

StopArrives ==
  mpc = "join" =>
    \/ syncState = "EXIT"
    \/ newState = "EXIT" /\ syncQueue = << >>
    \/ syncQueue # << >> /\ LastOf(syncQueue) = "STOP"

(* The sync thread in a pause that has been acknowledged. *)
Rest ==
  /\ syncState \in {"PAUSED", "EXIT"} /\ newState \in {"PAUSED", "EXIT"}
  /\ newState = "PAUSED" => syncState = "PAUSED"
  /\ spc \in {"top", "ended"} /\ NoStart(syncQueue)

PauseKept ==
  /\ paused \/ (mpc = "spin" /\ pauseDone) => initPause = "now" \/ Rest
  /\ syncState \in {"PAUSED", "EXIT"} => ~audio.running

(* What the key handler believes of the pause, and what is the case. *)
MainPaused ==
  /\ mpc \in {"sendStart", "playMedia"} => ~paused
  /\ initPause = "no" =>
       /\ mpc = "play" => paused /\ ~ui.paused
       /\ mpc = "inner" /\ ui.paused => paused
       /\ mpc \in {"sendStart", "playMedia"} => ~ui.paused
       /\ mpc \in PausePC /\ after = "play" /\ ui.paused => paused
       /\ mpc = "spin" /\ paused => ~pauseDone

(* The session state that the sync thread has published, while no message    *)
(* that changes it again is on its way.                                      *)
Settled ==
  /\ spc = "enter" \/ (spc = "top" /\ newState = syncState)
  /\ mpc # "sendPause" /\ (mpc = "spin" => pauseDone)
  /\ mpc = "sendStart" => Shown(syncState) = "BUFFERING"
  /\ syncState \in {"WAIT_SYNC", "WAIT_AUDIO", "WAIT_AUDIO_READY", "PLAYING",
                    "AUDIO_RESYNC", "PAUSED", "DONE"}
  /\ Shown(syncState) = "BUFFERING" \/ NoStart(syncQueue)

Published ==
  /\ Settled => sessionState = Shown(syncState)
  /\ spc = "acknowledge" => syncState = "PAUSED" /\ sessionState = "PAUSED"

Protocol ==
  /\ TypeOK /\ NotStarted /\ AbsentMedia /\ SyncPhases /\ SyncMessages /\ OnePause
  /\ StopArrives /\ PauseKept /\ MainPaused /\ Published

LEMMA InitProtocol == Init => Protocol
<1> SUFFICES ASSUME Init PROVE Protocol
  OBVIOUS
<1>1. TypeOK
  BY InitTypes
<1>2. Len(syncQueue) = 0
  BY DEF Init
<1>3. NotStarted /\ AbsentMedia
  BY DEF Init, NotStarted, AbsentMedia, HasAudio
<1>4. SyncPhases /\ OnePause /\ StopArrives
  BY DEF Init, SyncPhases, OnePause, PauseTaken, StopArrives
<1>5. SyncMessages
  BY <1>2 DEF Init, SyncMessages, OnlyLast
<1>6. PauseKept /\ MainPaused /\ Published
  BY DEF Init, PauseKept, MainPaused, Published, Settled, PausePC
<1> QED BY <1>1, <1>3, <1>4, <1>5, <1>6 DEF Protocol

(* The steps of the threads that take no part in the protocol. *)
Aside == UserEvent \/ AudioCallback \/ (\E m \in media : DecodeThread(m)) \/ UNCHANGED vars

LEMMA AsideKeeps ==
  ASSUME Aside
  PROVE  /\ UNCHANGED <<shortRender, media, syncState, newState, spc, syncQueue, sessionState,
                        pauseDone, hardwareError, mpc, after, ui, paused, initPause>>
         /\ spc = "start" /\ media = {} /\ ~audio.running => masterQueue' = masterQueue
<1>1. CASE UserEvent
  BY <1>1 DEF UserEvent, At, mediaVars, syncVars, syncLoopVars, mainVars
<1>2. CASE AudioCallback
  BY <1>2 DEF AudioCallback, Underrun, PlaySamples, CallbackLeaves,
              syncVars, syncLoopVars, mainVars, history
<1>3. ASSUME NEW m \in media, DecodeThread(m)
      PROVE  DecoderLeaves
  BY <1>3 DEF DecodeThread, TakeDecodeMessage, DecodeFrame, EndOfFile
<1>4. CASE \E m \in media : DecodeThread(m)
  BY <1>3, <1>4 DEF DecoderLeaves, syncVars, syncLoopVars, mainVars, history
<1>5. CASE UNCHANGED vars
  BY <1>5 DEF vars, mediaVars, syncVars, syncLoopVars, mainVars, history
<1> QED BY <1>1, <1>2, <1>4, <1>5 DEF Aside

LEMMA AsideRunning ==
  ASSUME TypeOK, Aside
  PROVE  audio'.running => audio.running
<1>1. audio \in Audio
  BY TypeIs DEF TrackTypes
<1>2. CASE UserEvent \/ UNCHANGED vars
  BY <1>2 DEF UserEvent, vars, mediaVars
<1>3. CASE AudioCallback
  BY <1>3 DEF AudioCallback, Underrun, PlaySamples
<1>4. ASSUME NEW m \in media, DecodeThread(m) PROVE audio'.running => audio.running
  BY <1>1, <1>4 DEF DecodeThread, TakeDecodeMessage, DecodeFrame, EndOfFile, Audio
<1> QED BY <1>2, <1>3, <1>4 DEF Aside

LEMMA AsideSetup ==
  ASSUME TypeOK, Aside, NEW m \in Media, m \notin media
  PROVE  track'[m].setup = track[m].setup
<1>1. track \in [Media -> Track]
  BY TypeIs DEF TrackTypes
<1>2. CASE UserEvent \/ UNCHANGED vars
  BY <1>2 DEF UserEvent, vars, mediaVars
<1>3. CASE AudioCallback
  <2>1. CASE Underrun  BY <2>1 DEF Underrun
  <2>2. CASE PlaySamples  BY <1>1, <2>2 DEF PlaySamples, Track
  <2> QED BY <1>3, <2>1, <2>2 DEF AudioCallback
<1>4. ASSUME NEW n \in media, DecodeThread(n) PROVE track'[m] = track[m]
  <2>1. m # n /\ n \in Media
    BY <1>4, TypeIs DEF ScalarTypes
  <2> QED BY <1>1, <1>4, <2>1 DEF DecodeThread, TakeDecodeMessage, DecodeFrame, EndOfFile
<1> QED BY <1>2, <1>3, <1>4 DEF Aside


LEMMA AsideProtocol ==
  ASSUME Protocol, TypeOK', Aside
  PROVE  Protocol'
<1>1. UNCHANGED <<shortRender, media, syncState, newState, spc, syncQueue, sessionState,
                  pauseDone, hardwareError, mpc, after, ui, paused, initPause>>
  BY AsideKeeps
<1>2. audio'.running => audio.running
  BY AsideRunning DEF Protocol
<1>3. \A m \in Media : m \notin media => track'[m].setup = track[m].setup
  BY AsideSetup DEF Protocol
<1>4. NotStarted'
  <2>1. spc = "start" => masterQueue' = masterQueue
    BY AsideKeeps DEF Protocol, NotStarted, AbsentMedia, HasAudio
  <2> QED BY <1>1, <2>1 DEF Protocol, NotStarted
<1>5. AbsentMedia'
  BY <1>1, <1>2, <1>3 DEF Protocol, AbsentMedia, HasAudio
<1>6. SyncPhases' /\ SyncMessages' /\ OnePause' /\ StopArrives'
  BY <1>1 DEF Protocol, SyncPhases, SyncMessages, OnePause, PauseTaken, StopArrives
<1>7. PauseKept'
  BY <1>1, <1>2 DEF Protocol, PauseKept, Rest
<1>8. MainPaused'
  BY <1>1 DEF Protocol, MainPaused
<1>9. Published'
  BY <1>1 DEF Protocol, Published, Settled
<1> QED BY <1>4, <1>5, <1>6, <1>7, <1>8, <1>9 DEF Protocol

-----------------------------------------------------------------------------
(* The main thread keeps the protocol. *)

LEMMA MainKeeps ==
  ASSUME TypeOK, MainThread
  PROVE  /\ UNCHANGED <<shortRender, media, audio, waitingForAudio, syncState, newState, spc,
                        hardwareError, keys>>
         /\ \A m \in Media : track'[m].setup = track[m].setup
<1>1. track \in [Media -> Track]
  BY TypeIs DEF TrackTypes
<1>2. MainLeaves /\ (track' = track \/ SendDecoders("PAUSE", media) \/ SendDecoders("START", media))
  BY DEF MainThread, TakeMasterMessage, LeaveInnerLoop, CountLoop, LoopLeaves,
         PauseAllMedia, PauseMedia, PauseMediaStarts, SendPause, SpinDone,
         PlayAllMedia, PlayState, SendStart, PlayMedia, DeleteSession, JoinSyncThread,
         CallLeaves, CallKeeps
<1>3. ASSUME NEW m \in Media, NEW message, SendDecoders(message, media)
      PROVE  track'[m].setup = track[m].setup
  <2>1. track[m] \in Track
    BY <1>1
  <2>2. \/ track'[m] = [track[m] EXCEPT !.queue = Append(@, message)]
        \/ track'[m] = track[m]
    BY <1>3 DEF SendDecoders
  <2> QED BY <2>1, <2>2 DEF Track
<1> QED BY <1>2, <1>3 DEF MainLeaves, syncVars, syncLoopVars

(* A message that the main thread sends while no other but starts are left. *)
LEMMA Sent ==
  ASSUME TypeOK, SyncMessages, NEW x \in {"START", "PAUSE", "STOP"},
         mpc \notin {"spin", "join", "ended"}
  PROVE  /\ OnlyLast(Append(syncQueue, x)) /\ Append(syncQueue, x) # << >>
         /\ LastOf(Append(syncQueue, x)) = x
         /\ NoStart(Append(syncQueue, x)) <=> NoStart(syncQueue) /\ x # "START"
<1> DEFINE S == {"START", "PAUSE", "STOP"}
<1>1. syncQueue \in Seq(S) /\ OnlyLast(syncQueue)
  BY TypeIs DEF QueueTypes, SyncMessages
<1>2. syncQueue # << >> => LastOf(syncQueue) \in S
  <2> HIDE DEF S
  <2>1. syncQueue # << >> => Len(syncQueue) \in 1 .. Len(syncQueue)
    BY <1>1, LenProperties, EmptySeq
  <2> QED BY <1>1, <2>1, ElementOfSeq DEF LastOf
<1>3. syncQueue = << >> \/ LastOf(syncQueue) = "START"
  BY <1>2 DEF SyncMessages
<1> HIDE DEF S
<1>4. \A i \in 1 .. Len(syncQueue) : syncQueue[i] = "START"
  BY <1>1, <1>3, Shape
<1>5. x \in S
  BY DEF S
<1> QED BY <1>1, <1>4, <1>5, Appended


(* The inner loop and the loop around it. *)
LEMMA LoopProtocol ==
  ASSUME Protocol, TakeMasterMessage \/ LeaveInnerLoop \/ CountLoop
  PROVE  NotStarted' /\ SyncMessages' /\ OnePause' /\ StopArrives' /\ PauseKept'
         /\ MainPaused' /\ Published'
<1>1. TypeOK /\ ui \in [paused : BOOLEAN, stop : BOOLEAN, maxLoop : {MaxLoop, 0}, loopCount : Int]
  BY TypeIs DEF Protocol, UserTypes
<1>2. /\ mpc \in {"inner", "count"} /\ mpc' \in {"inner", "play", "pause", "count", "delete"}
      /\ UNCHANGED <<syncQueue, sessionState, pauseDone, paused, initPause>>
  BY DEF TakeMasterMessage, LeaveInnerLoop, CountLoop, LoopLeaves
<1>3. UNCHANGED <<shortRender, media, audio, syncState, newState, spc>>
  BY DEF TakeMasterMessage, LeaveInnerLoop, CountLoop, LoopLeaves, MainLeaves, syncVars, syncLoopVars
<1>4. NotStarted'
  BY <1>2, <1>3
     DEF Protocol, NotStarted, TakeMasterMessage, LeaveInnerLoop, CountLoop
<1>5. SyncMessages' /\ OnePause' /\ StopArrives' /\ PauseKept'
  BY <1>2, <1>3 DEF Protocol, SyncMessages, OnePause, PauseTaken, StopArrives, PauseKept, Rest
<1>6. Published'
  BY <1>2, <1>3 DEF Protocol, Published, Settled
<1>7. MainPaused'
  <2>1. CASE TakeMasterMessage
    <3>1. /\ mpc = "inner" /\ mpc' \in {"inner", "play", "pause"}
          /\ mpc' = "inner" => ui'.paused = ui.paused
          /\ mpc' = "play" => ui.paused /\ ~ui'.paused
          /\ mpc' = "pause" /\ after' = "play" => ui'.paused = ui.paused
      BY <1>1, <2>1 DEF TakeMasterMessage
    <3> QED BY <1>2, <3>1 DEF Protocol, MainPaused, PausePC
  <2>2. CASE LeaveInnerLoop
    BY <1>2, <2>2 DEF LeaveInnerLoop, Protocol, MainPaused, PausePC
  <2>3. CASE CountLoop
    <3>1. mpc' \in {"inner", "delete"} /\ (mpc' = "inner" => ~ui'.paused)
      BY <1>1, <2>3 DEF CountLoop
    <3> QED BY <1>2, <3>1 DEF Protocol, MainPaused, PausePC
  <2> QED BY <2>1, <2>2, <2>3
<1> QED BY <1>4, <1>5, <1>6, <1>7

(* pause_all_media. *)
LEMMA PauseProtocol ==
  ASSUME Protocol, PauseAllMedia
  PROVE  NotStarted' /\ SyncMessages' /\ OnePause' /\ StopArrives' /\ PauseKept'
         /\ MainPaused' /\ Published'
<1>1. UNCHANGED <<shortRender, media, audio, syncState, newState, spc, ui, masterQueue, initPause>>
  BY DEF PauseAllMedia, PauseMedia, PauseMediaStarts, SendPause, SpinDone, CallLeaves, CallKeeps,
         MainLeaves, syncVars, syncLoopVars
<1>2. spc # "start" /\ TypeOK
  BY DEF PauseAllMedia, PauseMedia, PauseMediaStarts, SendPause, SpinDone, MStep,
         Protocol, NotStarted
<1>3. CASE PauseMedia
  <2>1. /\ mpc = "pause" /\ mpc' = "sendPause" /\ ~pauseDone' /\ sessionState' = "PAUSED"
        /\ UNCHANGED <<syncQueue, paused, after>>
    BY <1>3 DEF PauseMedia, PauseMediaStarts, MStep, CallLeaves
  <2>2. SyncMessages' /\ OnePause' /\ StopArrives' /\ PauseKept'
    BY <1>1, <2>1 DEF Protocol, SyncMessages, OnePause, PauseTaken, StopArrives, PauseKept, Rest
  <2>3. MainPaused'
    BY <1>1, <2>1 DEF Protocol, MainPaused, PausePC
  <2>4. Published'
    BY <1>1, <2>1 DEF Protocol, Published, Settled
  <2> QED BY <1>1, <1>2, <2>2, <2>3, <2>4 DEF NotStarted
<1>4. CASE SendPause
  <2>1. /\ mpc = "sendPause" /\ mpc' = "spin" /\ syncQueue' = Append(syncQueue, "PAUSE")
        /\ UNCHANGED <<sessionState, pauseDone, paused, after>>
    BY <1>4 DEF SendPause, MStep, CallLeaves
  <2>2. ~pauseDone
    BY <2>1 DEF Protocol, SyncMessages
  <2>3. /\ OnlyLast(syncQueue') /\ syncQueue' # << >> /\ LastOf(syncQueue') = "PAUSE"
        /\ NoStart(syncQueue') <=> NoStart(syncQueue)
    BY <1>2, <2>1, Sent DEF Protocol
  <2>4. SyncMessages'
    BY <1>1, <2>1, <2>2, <2>3 DEF Protocol, SyncMessages
  <2>5. OnePause' /\ StopArrives' /\ PauseKept'
    BY <1>1, <2>1, <2>2, <2>3
       DEF Protocol, OnePause, PauseTaken, StopArrives, PauseKept, Rest
  <2>6. MainPaused'
    BY <1>1, <2>1, <2>2 DEF Protocol, MainPaused, PausePC
  <2>7. Published'
    BY <1>1, <2>1, <2>2 DEF Protocol, Published, Settled
  <2> QED BY <1>1, <1>2, <2>4, <2>5, <2>6, <2>7 DEF NotStarted
<1>5. CASE SpinDone
  <2>1. /\ mpc = "spin" /\ pauseDone /\ mpc' = after /\ after' = "inner" /\ paused'
        /\ UNCHANGED <<sessionState, pauseDone, syncQueue>>
        /\ after \in {"inner", "play", "count"}
    BY <1>2, <1>5, TypeIs DEF SpinDone, MStep, ScalarTypes
  <2>2. SyncMessages' /\ OnePause' /\ StopArrives' /\ PauseKept'
    BY <1>1, <2>1 DEF Protocol, SyncMessages, OnePause, PauseTaken, StopArrives, PauseKept, Rest
  <2>3. MainPaused'
    BY <1>1, <2>1 DEF Protocol, MainPaused, PausePC
  <2>4. Published'
    BY <1>1, <2>1 DEF Protocol, Published, Settled
  <2> QED BY <1>1, <1>2, <2>2, <2>3, <2>4 DEF NotStarted
<1> QED BY <1>3, <1>4, <1>5 DEF PauseAllMedia


(* play_all_media. *)
LEMMA PlayProtocol ==
  ASSUME Protocol, PlayAllMedia
  PROVE  NotStarted' /\ SyncMessages' /\ OnePause' /\ StopArrives' /\ PauseKept'
         /\ MainPaused' /\ Published'
<1>1. UNCHANGED <<shortRender, media, audio, syncState, newState, spc, ui, masterQueue,
                  pauseDone, after>>
  BY DEF PlayAllMedia, PlayState, SendStart, PlayMedia, CallLeaves, CallKeeps,
         MainLeaves, syncVars, syncLoopVars
<1>2. spc # "start" /\ TypeOK
  BY DEF PlayAllMedia, PlayState, SendStart, PlayMedia, MStep, Protocol, NotStarted
<1>3. CASE PlayState
  <2>1. /\ mpc = "play" /\ mpc' = "sendStart" /\ sessionState' = "BUFFERING" /\ ~paused'
        /\ initPause' = (IF initPause = "now" THEN "earlier" ELSE initPause)
        /\ UNCHANGED syncQueue
    BY <1>3 DEF PlayState, MStep
  <2>2. SyncMessages' /\ OnePause' /\ StopArrives' /\ PauseKept'
    BY <1>1, <2>1 DEF Protocol, SyncMessages, OnePause, PauseTaken, StopArrives, PauseKept
  <2>3. MainPaused'
    BY <1>1, <2>1 DEF Protocol, MainPaused, PausePC
  <2>4. Published'
    BY <1>1, <2>1 DEF Protocol, Published, Settled, OnePause, PauseTaken
  <2> QED BY <1>1, <1>2, <2>2, <2>3, <2>4 DEF NotStarted
<1>4. CASE SendStart
  <2>1. /\ mpc = "sendStart" /\ mpc' = "playMedia" /\ syncQueue' = Append(syncQueue, "START")
        /\ UNCHANGED <<sessionState, paused, initPause>>
    BY <1>4 DEF SendStart, MStep
  <2>2. /\ OnlyLast(syncQueue') /\ syncQueue' # << >> /\ LastOf(syncQueue') = "START"
        /\ ~NoStart(syncQueue')
    BY <1>2, <2>1, Sent DEF Protocol
  <2>3. SyncMessages'
    BY <1>1, <2>1, <2>2 DEF Protocol, SyncMessages
  <2>4. OnePause' /\ StopArrives' /\ PauseKept'
    BY <1>1, <2>1 DEF Protocol, OnePause, PauseTaken, StopArrives, PauseKept, MainPaused
  <2>5. MainPaused'
    BY <1>1, <2>1 DEF Protocol, MainPaused, PausePC
  <2>6. Published'
    BY <1>1, <2>1, <2>2 DEF Protocol, Published, Settled
  <2> QED BY <1>1, <1>2, <2>3, <2>4, <2>5, <2>6 DEF NotStarted
<1>5. CASE PlayMedia
  <2>1. /\ mpc = "playMedia" /\ mpc' = "inner"
        /\ UNCHANGED <<sessionState, syncQueue, paused, initPause>>
    BY <1>5 DEF PlayMedia, MStep
  <2>2. SyncMessages' /\ OnePause' /\ StopArrives' /\ PauseKept'
    BY <1>1, <2>1 DEF Protocol, SyncMessages, OnePause, PauseTaken, StopArrives, PauseKept, Rest
  <2>3. MainPaused'
    BY <1>1, <2>1 DEF Protocol, MainPaused, PausePC
  <2>4. Published'
    BY <1>1, <2>1 DEF Protocol, Published, Settled
  <2> QED BY <1>1, <1>2, <2>2, <2>3, <2>4 DEF NotStarted
<1> QED BY <1>3, <1>4, <1>5 DEF PlayAllMedia

(* The destructor. *)
LEMMA EndProtocol ==
  ASSUME Protocol, DeleteSession \/ JoinSyncThread
  PROVE  NotStarted' /\ SyncMessages' /\ OnePause' /\ StopArrives' /\ PauseKept'
         /\ MainPaused' /\ Published'
<1>1. UNCHANGED <<shortRender, media, audio, syncState, newState, spc, ui, masterQueue,
                  sessionState, pauseDone, paused, initPause>>
  BY DEF DeleteSession, JoinSyncThread, CallLeaves, CallKeeps, MainLeaves, syncVars, syncLoopVars
<1>2. spc # "start" /\ TypeOK
  BY DEF DeleteSession, JoinSyncThread, MStep, Protocol, NotStarted
<1>3. CASE DeleteSession
  <2>1. mpc = "delete" /\ mpc' = "join" /\ syncQueue' = Append(syncQueue, "STOP")
    BY <1>3 DEF DeleteSession, MStep
  <2>2. /\ OnlyLast(syncQueue') /\ syncQueue' # << >> /\ LastOf(syncQueue') = "STOP"
        /\ NoStart(syncQueue') <=> NoStart(syncQueue)
    BY <1>2, <2>1, Sent DEF Protocol
  <2>3. SyncMessages' /\ StopArrives'
    BY <1>1, <2>1, <2>2 DEF Protocol, SyncMessages, StopArrives
  <2>4. OnePause' /\ PauseKept' /\ MainPaused'
    BY <1>1, <2>1, <2>2 DEF Protocol, OnePause, PauseTaken, PauseKept, Rest, MainPaused, PausePC
  <2>5. Published'
    BY <1>1, <2>1, <2>2 DEF Protocol, Published, Settled
  <2> QED BY <1>1, <1>2, <2>3, <2>4, <2>5 DEF NotStarted
<1>4. CASE JoinSyncThread
  <2>1. mpc = "join" /\ mpc' = "ended" /\ UNCHANGED syncQueue
    BY <1>4 DEF JoinSyncThread, MStep
  <2>2. SyncMessages' /\ StopArrives' /\ OnePause' /\ PauseKept' /\ MainPaused'
    BY <1>1, <2>1
       DEF Protocol, SyncMessages, StopArrives, OnePause, PauseTaken, PauseKept, Rest,
           MainPaused, PausePC
  <2>3. Published'
    BY <1>1, <2>1 DEF Protocol, Published, Settled
  <2> QED BY <1>1, <1>2, <2>2, <2>3 DEF NotStarted
<1> QED BY <1>3, <1>4

LEMMA MainProtocol ==
  ASSUME Protocol, TypeOK', MainThread
  PROVE  Protocol'
<1>1. /\ UNCHANGED <<shortRender, media, audio, waitingForAudio, syncState, newState, spc,
                     hardwareError, keys>>
      /\ \A m \in Media : track'[m].setup = track[m].setup
  BY MainKeeps DEF Protocol
<1>2. AbsentMedia' /\ SyncPhases'
  BY <1>1 DEF Protocol, AbsentMedia, HasAudio, SyncPhases
<1> QED BY <1>2, LoopProtocol, PauseProtocol, PlayProtocol, EndProtocol DEF MainThread, Protocol


-----------------------------------------------------------------------------
(* The sync thread keeps the protocol. *)

LEMMA SyncKeeps ==
  ASSUME SyncThread
  PROVE  UNCHANGED <<shortRender, mpc, after, ui, paused, keys>>
BY DEF SyncThread, StartSession, ThreadEnds, InitAudioFirst, InitMedia, InitFails, InitLeaves,
       InitMessage, InitMessageLeaves, DrainQueue, StateHandler, WaitSync, WaitAudio,
       WaitAudioReady, Playing, AudioResync, WaitTimedInit, HandlerLeaves, EnterState,
       PublishState, AcknowledgePause, SyncLeaves, mainVars

LEMMA ClosedSetup ==
  ASSUME NEW tr \in [Media -> Track], NEW ms, NEW m \in Media
  PROVE  /\ ClosedTracks(tr, ms)[m].setup = tr[m].setup
         /\ ClosedTracks(tr, ms)[m].level = tr[m].level
         /\ ClosedTracks(tr, ms)[m].queue = tr[m].queue
         /\ ClosedTracks(tr, ms)[m].dpc = tr[m].dpc
         /\ m \in ms => ClosedTracks(tr, ms)[m].closed
<1>1. tr[m] \in Track
  OBVIOUS
<1>2. CASE m \in ms
  <2>1. ClosedTracks(tr, ms)[m] = [tr[m] EXCEPT !.closed = TRUE, !.eof = FALSE]
    BY <1>2 DEF ClosedTracks
  <2> QED BY <1>1, <2>1 DEF Track
<1>3. CASE m \notin ms
  BY <1>3 DEF ClosedTracks
<1> QED BY <1>2, <1>3

LEMMA TriedSetup ==
  ASSUME track \in [Media -> Track], NEW ms, NEW m \in Media
  PROVE  /\ Tried(ms)[m].setup = IF m \in ms /\ track[m].setup = "configured"
                                 THEN "initialised" ELSE track[m].setup
         /\ Tried(ms)[m].level = track[m].level
         /\ Tried(ms)[m].queue = track[m].queue
         /\ Tried(ms)[m].dpc = track[m].dpc
         /\ Tried(ms)[m].closed = track[m].closed
<1>1. track[m] \in Track
  OBVIOUS
<1>2. CASE m \in ms /\ track[m].setup = "configured"
  <2>1. Tried(ms)[m] = [track[m] EXCEPT !.setup = "initialised"]
    BY <1>2 DEF Tried
  <2> QED BY <1>1, <1>2, <2>1 DEF Track
<1>3. CASE ~(m \in ms /\ track[m].setup = "configured")
  <2>1. Tried(ms)[m] = track[m]
    BY <1>3 DEF Tried
  <2> QED BY <1>3, <2>1
<1> QED BY <1>2, <1>3

(* The calls of play_at and the frames that a short render drops leave the   *)
(* devices, and the audio, alone.                                            *)
LEMMA VideoOnly ==
  ASSUME track \in [Media -> Track], DropVideo \/ \E eof \in BOOLEAN : PlayVideo(eof),
         NEW m \in Media
  PROVE  track'[m].setup = track[m].setup /\ (m = "audio" => track'[m] = track[m])
<1>1. track[m] \in Track /\ track["video"] \in Track /\ "video" \in Media
  BY DEF Media
<1>2. CASE m # "video"
  BY <1>1, <1>2 DEF DropVideo, PlayVideo
<1>3. CASE m = "video" /\ DropVideo
  <2> DEFINE shut == ClosedTracks(track, {"video"})["video"]
  <2>1. shut \in Track /\ shut.setup = track["video"].setup
    BY <1>1, ClosedType, ClosedSetup
  <2>2. track' = [track EXCEPT !["video"] = IF HasVideo THEN Flushed(shut) ELSE track["video"]]
    BY <1>3 DEF DropVideo
  <2> HIDE DEF shut
  <2>3. Flushed(shut).setup = shut.setup
    BY <2>1 DEF Flushed, Track
  <2> QED BY <1>1, <1>3, <2>1, <2>2, <2>3
<1>4. CASE m = "video" /\ \E eof \in BOOLEAN : PlayVideo(eof)
  <2>1. PICK n \in 0 .. track["video"].level :
          track' = [track EXCEPT !["video"].level = @ - n]
    BY <1>4 DEF PlayVideo
  <2> QED BY <1>1, <1>4, <2>1 DEF Track
<1> QED BY <1>2, <1>3, <1>4

LEMMA SyncSetup ==
  ASSUME TypeOK, SyncThread, NEW m \in Media
  PROVE  \/ track'[m].setup = track[m].setup
         \/ track[m].setup = "configured" /\ track'[m].setup = "initialised"
<1>1. track \in [Media -> Track]
  BY TypeIs DEF TrackTypes
<1>2. \A ms : \/ Tried(ms)[m].setup = track[m].setup
              \/ track[m].setup = "configured" /\ Tried(ms)[m].setup = "initialised"
  BY <1>1, TriedSetup
<1>3. \A ms, ns : ClosedTracks(Tried(ms), ns)[m].setup = Tried(ms)[m].setup
  BY <1>1, TriedType, ClosedSetup
<1>4. ClosedTracks(track, media)[m].setup = track[m].setup
  BY <1>1, ClosedSetup
<1>5. SendDecoders("START", media') => track'[m].setup = track[m].setup
  <2>1. track[m] \in Track
    BY <1>1
  <2>2. SendDecoders("START", media') =>
          \/ track'[m] = [track[m] EXCEPT !.queue = Append(@, "START")]
          \/ track'[m] = track[m]
    BY DEF SendDecoders
  <2> QED BY <2>1, <2>2 DEF Track
<1>6. DropVideo \/ (\E eof \in BOOLEAN : PlayVideo(eof)) => track'[m].setup = track[m].setup
  BY <1>1, VideoOnly
<1> QED BY <1>2, <1>3, <1>4, <1>5, <1>6, SyncTracks

LEMMA SyncRunning ==
  ASSUME TypeOK, SyncThread
  PROVE  audio'.running => audio.running \/ (StateHandler /\ Initialised(track, "audio"))
<1>1. audio \in Audio
  BY TypeIs DEF TrackTypes
<1>2. \A ms : StopAudio(ms).running => audio.running
  BY <1>1 DEF StopAudio, Audio
<1>3. PlayingAudio.running => Initialised(track, "audio")
  BY DEF PlayingAudio
<1>4. \/ audio' = audio \/ \E ms : audio' = StopAudio(ms)
      \/ StateHandler /\ audio' = PlayingAudio
  BY Zenon
  DEF SyncThread, StartSession, ThreadEnds, InitAudioFirst, InitMedia, InitFails,
      InitMessage, InitMessageLeaves, DrainQueue, StateHandler, WaitSync, WaitAudio,
      WaitAudioReady, Playing, AudioResync, WaitTimedInit, StartAudio, AudioAfter, EnterState,
      FlushSync, PublishState, AcknowledgePause, mediaVars
<1> QED BY <1>2, <1>3, <1>4


LEMMA StartProtocol ==
  ASSUME Protocol, StartSession
  PROVE  SyncPhases' /\ SyncMessages' /\ OnePause' /\ StopArrives' /\ PauseKept'
         /\ MainPaused' /\ Published'
<1>1. /\ spc = "start" /\ spc' = "top" /\ newState' = syncState' /\ syncState' \in {"INIT", "EXIT"}
      /\ UNCHANGED <<mpc, after, ui, paused, audio, pauseDone, initPause>>
  BY DEF StartSession, SyncLeaves, mainVars, Protocol, NotStarted
<1>2. /\ mpc = "inner" /\ ~paused /\ ~ui.paused /\ ~audio.running /\ syncQueue = << >>
  BY <1>1 DEF Protocol, NotStarted, AbsentMedia, HasAudio
<1>3. /\ OnlyLast(Append(syncQueue, "START")) /\ Append(syncQueue, "START") # << >>
      /\ LastOf(Append(syncQueue, "START")) = "START"
  BY <1>2, Sent DEF Protocol
<1>4. OnlyLast(syncQueue') /\ (syncQueue' = << >> \/ LastOf(syncQueue') = "START")
  BY <1>2, <1>3 DEF StartSession, Protocol, SyncMessages
<1>5. SyncPhases' /\ SyncMessages' /\ OnePause' /\ StopArrives'
  BY <1>1, <1>2, <1>4 DEF SyncPhases, SyncMessages, OnePause, PauseTaken, StopArrives
<1>6. PauseKept' /\ MainPaused' /\ Published'
  BY <1>1, <1>2 DEF PauseKept, MainPaused, Published, Settled, PausePC
<1> QED BY <1>5, <1>6

(* sync_thread_init. *)
LEMMA InitialiseProtocol ==
  ASSUME Protocol, InitAudioFirst \/ InitMedia \/ InitFails
  PROVE  SyncPhases' /\ SyncMessages' /\ OnePause' /\ StopArrives' /\ PauseKept'
         /\ MainPaused' /\ Published'
<1>1. /\ spc = "top" /\ syncState = "INIT" /\ newState = "INIT"
      /\ UNCHANGED <<mpc, after, ui, paused, syncState, syncQueue, pauseDone, initPause>>
  BY DEF InitAudioFirst, InitMedia, InitFails, InitLeaves, At, SyncLeaves, mainVars
<1>2. \/ newState' \in {"WAIT_AUDIO_READY", "WAIT_SYNC", "DONE"} /\ spc' = "enter"
      \/ newState' = "INIT" /\ spc' = "initMessage"
  BY <1>1 DEF InitAudioFirst, InitMedia, InitFails, Return
<1>3. SyncPhases' /\ SyncMessages' /\ OnePause' /\ StopArrives'
  BY <1>1, <1>2 DEF Protocol, SyncPhases, SyncMessages, OnePause, PauseTaken, StopArrives
<1>4. PauseKept' /\ MainPaused' /\ Published'
  BY <1>1, <1>2
     DEF Protocol, PauseKept, Rest, MainPaused, Published, Settled, PausePC
<1> QED BY <1>3, <1>4

(* What is known of a message that the sync thread takes. *)
LEMMA Received ==
  ASSUME TypeOK, SyncMessages, syncQueue # << >>
  PROVE  LET msg == Head(syncQueue)
             q == Tail(syncQueue)
         IN  /\ msg \in {"START", "PAUSE", "STOP"} /\ OnlyLast(q)
             /\ msg # "START" => q = << >>
             /\ msg = "PAUSE" => mpc = "spin" /\ ~pauseDone
             /\ msg = "STOP" => mpc \in {"join", "ended"}
             /\ q # << >> => LastOf(q) = LastOf(syncQueue)
             /\ q = << >> => LastOf(syncQueue) = msg
             /\ NoStart(syncQueue) <=> msg # "START" /\ NoStart(q)
<1> DEFINE S == {"START", "PAUSE", "STOP"}
<1>1. syncQueue \in Seq(S) /\ OnlyLast(syncQueue)
  BY TypeIs DEF QueueTypes, SyncMessages
<1> HIDE DEF S
<1>2. /\ Head(syncQueue) \in S /\ Tail(syncQueue) \in Seq(S)
      /\ Tail(syncQueue) # << >> => LastOf(Tail(syncQueue)) = LastOf(syncQueue)
      /\ Tail(syncQueue) = << >> => LastOf(syncQueue) = Head(syncQueue)
      /\ NoStart(syncQueue) <=> Head(syncQueue) # "START" /\ NoStart(Tail(syncQueue))
      /\ OnlyLast(Tail(syncQueue)) /\ (Tail(syncQueue) # << >> => Head(syncQueue) = "START")
  BY <1>1, Taken
<1> QED BY <1>2 DEF S, SyncMessages

LEMMA InitMessageProtocol ==
  ASSUME Protocol, InitMessage
  PROVE  SyncPhases' /\ SyncMessages' /\ OnePause' /\ StopArrives' /\ PauseKept'
         /\ MainPaused' /\ Published'
<1>1. /\ spc = "initMessage" /\ syncState = "INIT" /\ newState = "INIT"
      /\ UNCHANGED <<mpc, after, ui, paused, syncState, audio, sessionState>>
  BY DEF InitMessage, InitMessageLeaves, SyncLeaves, mainVars, mediaVars, Protocol, SyncPhases
<1>2. CASE syncQueue = << >>
  <2>1. newState' = "INIT" /\ spc' = "top" /\ UNCHANGED <<syncQueue, pauseDone, initPause>>
    BY <1>1, <1>2 DEF InitMessage, Return
  <2>2. SyncPhases' /\ SyncMessages' /\ OnePause' /\ StopArrives'
    BY <1>1, <2>1 DEF Protocol, SyncPhases, SyncMessages, OnePause, PauseTaken, StopArrives
  <2>3. PauseKept' /\ MainPaused' /\ Published'
    BY <1>1, <2>1 DEF Protocol, PauseKept, Rest, MainPaused, Published, Settled, PausePC
  <2> QED BY <2>2, <2>3
<1>3. CASE syncQueue # << >>
  <2> DEFINE msg == Head(syncQueue)
             q == Tail(syncQueue)
  <2>1. /\ syncQueue' = q /\ newState' = (IF msg = "STOP" THEN "EXIT" ELSE "INIT")
        /\ spc' = IF msg = "STOP" THEN "enter" ELSE "top"
        /\ IF msg = "PAUSE" THEN pauseDone' = TRUE /\ initPause' = "now"
                            ELSE UNCHANGED <<pauseDone, initPause>>
    BY <1>1, <1>3 DEF InitMessage, Return
  <2>2. /\ OnlyLast(q)
        /\ msg # "START" => q = << >>
        /\ msg = "PAUSE" => mpc = "spin" /\ ~pauseDone
        /\ msg = "STOP" => mpc \in {"join", "ended"}
        /\ q # << >> => LastOf(q) = LastOf(syncQueue)
        /\ q = << >> => LastOf(syncQueue) = msg
    BY <1>3, Received DEF Protocol
  <2> HIDE DEF msg, q
  <2>3. SyncPhases' /\ OnePause'
    BY <1>1, <2>1 DEF SyncPhases, OnePause, PauseTaken
  <2>4. SyncMessages'
    BY <1>1, <1>3, <2>1, <2>2 DEF Protocol, SyncMessages
  <2>5. StopArrives'
    BY <1>1, <1>3, <2>1, <2>2 DEF Protocol, StopArrives
  <2>6. PauseKept' /\ MainPaused' /\ Published'
    BY <1>1, <2>1, <2>2 DEF Protocol, PauseKept, Rest, MainPaused, Published, Settled, PausePC
  <2> QED BY <2>3, <2>4, <2>5, <2>6
<1> QED BY <1>2, <1>3

(* process_msg_queue. *)
LEMMA DrainProtocol ==
  ASSUME Protocol, DrainQueue
  PROVE  SyncPhases' /\ SyncMessages' /\ OnePause' /\ StopArrives' /\ PauseKept'
         /\ MainPaused' /\ Published'
<1> DEFINE msg == Head(syncQueue)
           q == Tail(syncQueue)
<1>1. /\ spc = "top" /\ syncState \notin {"INIT", "EXIT"} /\ syncQueue # << >>
      /\ syncQueue' = q
      /\ UNCHANGED <<mpc, after, ui, paused, syncState, audio, sessionState, spc, pauseDone,
                     initPause>>
  BY DEF DrainQueue, SyncLeaves, mainVars, mediaVars
<1>2. /\ msg \in {"START", "PAUSE", "STOP"} /\ OnlyLast(q)
      /\ msg # "START" => q = << >>
      /\ msg = "PAUSE" => mpc = "spin" /\ ~pauseDone
      /\ msg = "STOP" => mpc \in {"join", "ended"}
      /\ q # << >> => LastOf(q) = LastOf(syncQueue)
      /\ q = << >> => LastOf(syncQueue) = msg
      /\ NoStart(syncQueue) <=> msg # "START" /\ NoStart(q)
  BY <1>1, Received DEF Protocol
<1>3. /\ msg = "PAUSE" => newState' = "PAUSED"
      /\ msg = "STOP" => newState' = "EXIT"
      /\ msg = "START" => IF newState \in {"INIT", "WAIT_AUDIO_READY", "WAIT_TIMED_INIT"}
                          THEN newState' = newState ELSE newState' = "WAIT_SYNC"
  BY DEF DrainQueue, AfterMessage
<1> HIDE DEF msg, q
<1>4. newState = syncState \/ newState = "WAIT_SYNC"
  BY <1>1 DEF Protocol, SyncPhases, SyncMessages, OnePause, PauseTaken
<1>5. SyncPhases'
  BY <1>1, <1>2, <1>3, <1>4 DEF Protocol, SyncPhases
<1>6. SyncMessages'
  BY <1>1, <1>2, <1>3, <1>4 DEF Protocol, SyncMessages
<1>7. OnePause'
  BY <1>1, <1>2, <1>3, <1>4 DEF Protocol, OnePause, PauseTaken
<1>8. StopArrives'
  BY <1>1, <1>2, <1>3 DEF Protocol, StopArrives
<1>9. PauseKept' /\ MainPaused'
  BY <1>1, <1>2, <1>3 DEF Protocol, PauseKept, Rest, MainPaused, PausePC
<1>10. Published'
  <2> DEFINE shown == Shown(syncState)
  <2>1. /\ syncState = "WAIT_SYNC" => shown = "BUFFERING"
        /\ syncState = "WAIT_AUDIO_READY" => shown = "BUFFERING"
    BY DEF Shown
  <2> HIDE DEF shown
  <2> QED BY <1>1, <1>2, <1>3, <1>4, <2>1 DEF Protocol, Published, Settled, shown
<1> QED BY <1>5, <1>6, <1>7, <1>8, <1>9, <1>10


LEMMA HandlerProtocol ==
  ASSUME Protocol, StateHandler
  PROVE  SyncPhases' /\ SyncMessages' /\ OnePause' /\ StopArrives' /\ PauseKept'
         /\ MainPaused' /\ Published'
<1>1. /\ spc = "top" /\ newState = syncState /\ syncQueue = << >>
      /\ UNCHANGED <<mpc, after, ui, paused, syncState, syncQueue, sessionState, pauseDone,
                     initPause>>
  BY Handled DEF In, At, HandlerLeaves, SyncLeaves, mainVars
<1>2. PICK t \in SyncStates : Return(t) /\ Returns(syncState, t)
  BY Handled
<1>3. /\ newState' = t /\ spc' = IF t = syncState THEN "top" ELSE "enter"
      /\ syncState \in {"WAIT_SYNC", "WAIT_AUDIO", "WAIT_AUDIO_READY", "PLAYING",
                        "AUDIO_RESYNC", "WAIT_TIMED_INIT"}
      /\ t \notin {"PAUSED", "EXIT"}
      /\ t # syncState /\ t = "WAIT_AUDIO" => syncState = "WAIT_SYNC"
      /\ t # syncState /\ t = "AUDIO_RESYNC" => syncState = "PLAYING"
  BY <1>2 DEF Return, Returns
<1>4. SyncPhases' /\ SyncMessages' /\ OnePause' /\ StopArrives'
  BY <1>1, <1>3 DEF Protocol, SyncPhases, SyncMessages, OnePause, PauseTaken, StopArrives
<1>5. PauseKept' /\ MainPaused'
  BY <1>1, <1>3 DEF Protocol, PauseKept, Rest, MainPaused, PausePC
<1>6. Published'
  BY <1>1, <1>3 DEF Protocol, Published, Settled
<1> QED BY <1>4, <1>5, <1>6

LEMMA EnterProtocol ==
  ASSUME Protocol, EnterState
  PROVE  SyncPhases' /\ SyncMessages' /\ OnePause' /\ StopArrives' /\ PauseKept'
         /\ MainPaused' /\ Published'
<1>1. /\ spc = "enter" \/ (spc = "top" /\ syncQueue = << >> /\ newState # syncState)
      /\ syncState' = newState
      /\ UNCHANGED <<mpc, after, ui, paused, newState, syncQueue, sessionState, pauseDone,
                     initPause>>
  BY DEF EnterState, SyncLeaves, mainVars
<1>2. /\ newState = "EXIT" => spc' = "ended"
      /\ newState \in {"WAIT_AUDIO", "AUDIO_RESYNC"} => spc' = "top"
      /\ newState \notin {"EXIT", "WAIT_AUDIO", "AUDIO_RESYNC"} => spc' = "publish"
  BY DEF EnterState
<1>3. /\ newState # syncState /\ syncState # "EXIT"
      /\ newState = "WAIT_AUDIO" => spc = "enter" /\ syncState = "WAIT_SYNC"
      /\ newState = "AUDIO_RESYNC" => spc = "enter" /\ syncState = "PLAYING"
  BY <1>1 DEF Protocol, SyncPhases
<1>4. SyncPhases'
  BY <1>1, <1>2 DEF SyncPhases
<1>5. SyncMessages' /\ StopArrives'
  BY <1>1, <1>3 DEF Protocol, SyncMessages, StopArrives
<1>6. OnePause'
  BY <1>1, <1>2, <1>3 DEF Protocol, OnePause, PauseTaken
<1>7. PauseKept'
  <2>1. newState \in {"PAUSED", "EXIT"} => ~audio'.running
    <3>1. audio \in Audio /\ (audio.running => "audio" \in media)
      BY TypeIs DEF Protocol, TrackTypes, AbsentMedia, HasAudio
    <3>2. newState \in {"PAUSED", "EXIT"} => audio' = StopAudio(media)
      BY DEF EnterState, FlushSync
    <3> QED BY <3>1, <3>2 DEF StopAudio, Audio
  <2>2. paused \/ (mpc = "spin" /\ pauseDone) => initPause = "now" \/ (Rest /\ newState = "EXIT")
    BY <1>1, <1>3 DEF Protocol, PauseKept, Rest
  <2> QED BY <1>1, <1>2, <2>1, <2>2 DEF PauseKept, Rest
<1>8. MainPaused'
  BY <1>1 DEF Protocol, MainPaused, PausePC
<1>9. Published'
  <2>1. Shown("WAIT_AUDIO") = Shown("WAIT_SYNC") /\ Shown("AUDIO_RESYNC") = Shown("PLAYING")
    BY DEF Shown
  <2>2. CASE newState \in {"WAIT_AUDIO", "AUDIO_RESYNC"}
    <3>1. Shown(newState) = Shown(syncState)
      BY <1>3, <2>1, <2>2
    <3>2. Settled' => Settled
      BY <1>1, <1>3, <2>2, <3>1 DEF Settled
    <3> QED BY <1>1, <1>2, <2>2, <3>1, <3>2 DEF Protocol, Published
  <2>3. CASE newState \notin {"WAIT_AUDIO", "AUDIO_RESYNC"}
    BY <1>2, <2>3 DEF Published, Settled
  <2> QED BY <2>2, <2>3
<1> QED BY <1>4, <1>5, <1>6, <1>7, <1>8, <1>9

LEMMA PublishProtocol ==
  ASSUME Protocol, PublishState \/ AcknowledgePause \/ ThreadEnds
  PROVE  SyncPhases' /\ SyncMessages' /\ OnePause' /\ StopArrives' /\ PauseKept'
         /\ MainPaused' /\ Published'
<1>1. UNCHANGED <<mpc, after, ui, paused, syncState, newState, syncQueue, audio, initPause>>
  BY DEF PublishState, AcknowledgePause, ThreadEnds, SyncLeaves, mainVars, mediaVars
<1>2. CASE PublishState
  <2>1. /\ spc = "publish" /\ spc' = IF syncState = "PAUSED" THEN "acknowledge" ELSE "top"
        /\ sessionState' = Shown(syncState) /\ UNCHANGED pauseDone
        /\ newState = syncState
    BY <1>2 DEF PublishState, SStep, Protocol, SyncPhases
  <2>2. SyncPhases' /\ SyncMessages' /\ OnePause' /\ StopArrives'
    BY <1>1, <2>1 DEF Protocol, SyncPhases, SyncMessages, OnePause, PauseTaken, StopArrives
  <2>3. PauseKept' /\ MainPaused'
    BY <1>1, <2>1 DEF Protocol, PauseKept, Rest, MainPaused, PausePC
  <2>4. Shown("PAUSED") = "PAUSED"
    BY DEF Shown
  <2>5. Published'
    BY <1>1, <2>1, <2>4 DEF Published
  <2> QED BY <2>2, <2>3, <2>5
<1>3. CASE AcknowledgePause
  <2>1. /\ spc = "acknowledge" /\ spc' = "top" /\ pauseDone' = TRUE /\ UNCHANGED sessionState
        /\ newState = "PAUSED" /\ syncState = "PAUSED" /\ sessionState = "PAUSED"
        /\ syncQueue = << >> /\ mpc = "spin" /\ ~pauseDone
    BY <1>3 DEF AcknowledgePause, SStep, Protocol, SyncPhases, Published, OnePause, PauseTaken
  <2>2. SyncPhases' /\ SyncMessages' /\ OnePause' /\ StopArrives'
    BY <1>1, <2>1 DEF Protocol, SyncPhases, SyncMessages, OnePause, PauseTaken, StopArrives
  <2>3. NoStart(syncQueue)
    BY <2>1 DEF NoStart
  <2>4. PauseKept' /\ MainPaused'
    BY <1>1, <2>1, <2>3 DEF Protocol, PauseKept, Rest, MainPaused, PausePC
  <2>5. Shown("PAUSED") = "PAUSED"
    BY DEF Shown
  <2>6. Published'
    BY <1>1, <2>1, <2>5 DEF Published
  <2> QED BY <2>2, <2>4, <2>6
<1>4. CASE ThreadEnds
  <2>1. /\ spc' = "ended" /\ syncState = "EXIT" /\ newState = "EXIT"
        /\ UNCHANGED <<sessionState, pauseDone>>
    BY <1>4 DEF ThreadEnds, At
  <2>2. SyncPhases' /\ SyncMessages' /\ OnePause' /\ StopArrives'
    BY <1>1, <2>1 DEF Protocol, SyncPhases, SyncMessages, OnePause, PauseTaken, StopArrives
  <2>3. PauseKept' /\ MainPaused' /\ Published'
    BY <1>1, <2>1 DEF Protocol, PauseKept, Rest, MainPaused, PausePC, Published, Settled
  <2> QED BY <2>2, <2>3
<1> QED BY <1>2, <1>3, <1>4

LEMMA SyncProtocol ==
  ASSUME Protocol, TypeOK', SyncThread
  PROVE  Protocol'
<1>1. NotStarted'
  <2>1. spc' # "start"
    BY Handled
       DEF SyncThread, StartSession, ThreadEnds, InitAudioFirst, InitMedia, InitFails,
           InitMessage, DrainQueue, EnterState, PublishState, AcknowledgePause, Return, SStep
  <2> QED BY <2>1 DEF NotStarted
<1>2. AbsentMedia'
  <2>1. media \subseteq media'
    <3>1. StartSession => media = {}
      BY DEF StartSession, Protocol, NotStarted
    <3>2. ~StartSession => media' = media
      BY Handled
         DEF SyncThread, ThreadEnds, InitAudioFirst, InitMedia, InitFails, InitLeaves,
             InitMessage, InitMessageLeaves, DrainQueue, HandlerLeaves, EnterState,
             PublishState, AcknowledgePause, mediaVars
    <3> QED BY <3>1, <3>2
  <2>2. ASSUME NEW m \in Media, m \notin media' PROVE track'[m].setup = "none"
    BY <2>1, <2>2, SyncSetup DEF Protocol, AbsentMedia
  <2>3. Initialised(track, "audio") => "audio" \in media
    BY DEF Protocol, AbsentMedia, Initialised, Media
  <2>4. audio'.running => "audio" \in media'
    BY <2>1, <2>3, SyncRunning DEF Protocol, AbsentMedia, HasAudio
  <2> QED BY <2>2, <2>4 DEF AbsentMedia, HasAudio
<1>3. SyncPhases' /\ SyncMessages' /\ OnePause' /\ StopArrives' /\ PauseKept'
      /\ MainPaused' /\ Published'
  BY StartProtocol, InitialiseProtocol, InitMessageProtocol, DrainProtocol,
     HandlerProtocol, EnterProtocol, PublishProtocol DEF SyncThread
<1> QED BY <1>1, <1>2, <1>3 DEF Protocol

LEMMA NextProtocol == Protocol /\ [Next]_vars => Protocol'
<1> SUFFICES ASSUME Protocol, [Next]_vars PROVE Protocol'
  OBVIOUS
<1>1. TypeOK'
  BY NextTypes DEF Protocol
<1>2. MainThread \/ SyncThread \/ Aside
  BY DEF Next, Aside
<1> QED BY <1>1, <1>2, MainProtocol, SyncProtocol, AsideProtocol

(* The protocol between the two threads, which the theorems below rest on.   *)
THEOREM SessionProtocol == Spec => []Protocol
BY InitProtocol, NextProtocol, PTL DEF Spec

(* From the return of pause_all_media to the next play_all_media the sync    *)
(* thread is paused or on its way out, and the audio hardware is stopped:    *)
(* whatever the user presses and in whatever order the threads run, only a   *)
(* pause during the initialisation is no pause.                              *)
THEOREM PauseIsAPause == Spec => []PauseHolds
<1>1. Protocol => PauseHolds
  BY DEF Protocol, PauseKept, Rest, PauseHolds
<1> QED BY <1>1, SessionProtocol, PTL

(* The destructor can join the sync thread: its stop is never overtaken or   *)
(* taken without being obeyed.                                               *)
THEOREM StopIsObeyed == Spec => []StopNotLost
<1>1. Protocol => StopNotLost
  BY DEF Protocol, StopArrives, StopNotLost, LastOf
<1> QED BY <1>1, SessionProtocol, PTL

(* m_session_state, which two threads write, is what belongs to the state of *)
(* the sync thread whenever that is at rest and no message of the main       *)
(* thread is on its way.                                                     *)
THEOREM SessionStateAgrees == Spec => []StateAgrees
<1>1. Protocol => StateAgrees
  <2>1. syncQueue = << >> => NoStart(syncQueue)
    BY DEF NoStart
  <2> QED BY <2>1 DEF Protocol, Published, Settled, StateAgrees, At, PausePC, PlayPC
<1> QED BY <1>1, SessionProtocol, PTL


-----------------------------------------------------------------------------
(* The devices. *)

(* Once the sync thread has left its initialisation without an error, the    *)
(* audio device is open, and so are the others unless the render is short.   *)
DevicesOpen ==
  ~hardwareError /\ (syncState \notin {"INIT", "EXIT"} \/ newState \notin {"INIT", "EXIT"}) =>
    /\ HasAudio => Initialised(track, "audio")
    /\ ~shortRender => \A m \in media : Initialised(track, m)

LEMMA StaysInitialised ==
  ASSUME TypeOK, [Next]_vars, NEW m \in Media, Initialised(track, m)
  PROVE  Initialised(track', m)
<1>1. track \in [Media -> Track] /\ track[m] \in Track
  BY TypeIs DEF TrackTypes
<1>2. CASE MainThread
  BY <1>2, MainKeeps DEF Initialised
<1>3. CASE SyncThread
  BY <1>3, SyncSetup DEF Initialised
<1>4. CASE UserEvent \/ UNCHANGED vars
  BY <1>4 DEF UserEvent, vars, mediaVars
<1>5. CASE AudioCallback
  <2>1. CASE Underrun  BY <2>1 DEF Underrun
  <2>2. CASE PlaySamples  BY <1>1, <2>2 DEF PlaySamples, Track, Initialised
  <2> QED BY <1>5, <2>1, <2>2 DEF AudioCallback
<1>6. ASSUME NEW n \in media, DecodeThread(n)
      PROVE  Initialised(track', m)
  <2>1. n \in Media /\ track[n] \in Track
    BY <1>1, TypeIs DEF ScalarTypes
  <2>2. CASE TakeDecodeMessage(n)
    <3>1. Flushed(track[n]) \in Track /\ Flushed(track[n]).setup = track[n].setup
      BY <2>1, FlushedType DEF Flushed, Track
    <3>2. Flushed(track[n]).queue = track[n].queue
      BY <2>1 DEF Flushed, Track
    <3> DEFINE fl == Flushed(track[n])
               dpc == IF Head(track[n].queue) = "PAUSE" THEN "wait"
                      ELSE IF track[n].dpc = "wait" THEN NextTurn(Tail(track[n].queue)) ELSE "run"
               new == [fl EXCEPT !.queue = Tail(track[n].queue), !.dpc = dpc]
    <3>3. track' = [track EXCEPT ![n] = new]
      BY <2>2, <3>2 DEF TakeDecodeMessage
    <3> HIDE DEF fl, dpc
    <3>4. new.setup = fl.setup
      BY <3>1 DEF Track, fl
    <3> HIDE DEF new
    <3> QED BY <1>1, <2>1, <3>1, <3>3, <3>4 DEF Initialised, fl
  <2>3. CASE DecodeFrame(n)
    BY <1>1, <2>1, <2>3 DEF DecodeFrame, Configured, Initialised, Track
  <2>4. CASE EndOfFile(n)
    BY <1>1, <2>1, <2>4 DEF EndOfFile, Initialised, Track
  <2> QED BY <1>6, <2>2, <2>3, <2>4 DEF DecodeThread
<1> QED BY <1>2, <1>3, <1>4, <1>5, <1>6 DEF Next

(* The steps of the sync thread that leave the initialisation. *)
LEMMA LeavesInit ==
  ASSUME Protocol, SyncThread, ~hardwareError',
         syncState' \notin {"INIT", "EXIT"} \/ newState' \notin {"INIT", "EXIT"}
  PROVE  \/ ~hardwareError /\ media' = media
            /\ (syncState \notin {"INIT", "EXIT"} \/ newState \notin {"INIT", "EXIT"})
         \/ media' = media /\ shortRender /\ Initialised(track', "audio")
         \/ media' = media /\ \A m \in media : Initialised(track', m)
<1>1. CASE StateHandler
  BY <1>1, Handled DEF HandlerLeaves, Returns
<1>2. CASE EnterState \/ PublishState \/ AcknowledgePause \/ DrainQueue
  BY <1>2 DEF EnterState, PublishState, AcknowledgePause, DrainQueue, mediaVars
<1>3. CASE InitMessage \/ ThreadEnds
  BY <1>3 DEF InitMessage, InitMessageLeaves, ThreadEnds, At, Return, Protocol, SyncPhases
<1>4. CASE StartSession
  BY <1>4 DEF StartSession, Protocol, NotStarted
<1>5. CASE InitAudioFirst
  BY <1>5 DEF InitAudioFirst, InitLeaves
<1>6. CASE InitMedia
  BY <1>6 DEF InitMedia, InitLeaves, At
<1>7. CASE InitFails
  BY <1>7 DEF InitFails
<1> QED BY <1>1, <1>2, <1>3, <1>4, <1>5, <1>6, <1>7 DEF SyncThread

LEMMA NextDevices == Protocol /\ DevicesOpen /\ [Next]_vars => DevicesOpen'
<1> SUFFICES ASSUME Protocol, DevicesOpen, [Next]_vars, ~hardwareError',
                    syncState' \notin {"INIT", "EXIT"} \/ newState' \notin {"INIT", "EXIT"}
             PROVE  /\ HasAudio' => Initialised(track', "audio")
                    /\ ~shortRender' => \A m \in media' : Initialised(track', m)
  BY DEF DevicesOpen, HasAudio, Initialised
<1>1. TypeOK /\ media \subseteq Media /\ "audio" \in Media /\ shortRender' = shortRender
  <2>1. MainThread \/ SyncThread \/ Aside
    BY DEF Next, Aside
  <2>2. shortRender' = shortRender
    BY <2>1, MainKeeps, SyncKeeps, AsideKeeps DEF Protocol
  <2> QED BY <2>2, TypeIs DEF Protocol, ScalarTypes, Media
<1>2. CASE /\ ~hardwareError /\ media' = media
           /\ syncState \notin {"INIT", "EXIT"} \/ newState \notin {"INIT", "EXIT"}
  <2>1. /\ HasAudio => Initialised(track, "audio")
        /\ ~shortRender => \A m \in media : Initialised(track, m)
    BY <1>2 DEF DevicesOpen
  <2> QED BY <1>1, <1>2, <2>1, StaysInitialised DEF HasAudio
<1>3. CASE SyncThread
  BY <1>1, <1>2, <1>3, LeavesInit DEF HasAudio
<1>4. CASE MainThread \/ Aside
  BY <1>1, <1>2, <1>4, MainKeeps, AsideKeeps
<1> QED BY <1>3, <1>4 DEF Next, Aside

(* Whatever the user presses meanwhile, no message gets a session past its   *)
(* initialisation: from sync_thread_wait_sync on every medium has its device *)
(* or window.                                                                *)
THEOREM NoSyncBeforeInit == Spec => []InitialisedBeforeSync
<1>1. Init => DevicesOpen
  BY DEF Init, DevicesOpen
<1>2. DevicesOpen => InitialisedBeforeSync
  BY DEF DevicesOpen, InitialisedBeforeSync
<1> QED BY <1>1, <1>2, NextDevices, SessionProtocol, PTL DEF Spec


-----------------------------------------------------------------------------
(* The audio: what the hardware plays when sync_thread_wait_audio waits for  *)
(* its report.                                                               *)

Samples == track["audio"]

Fresh == spc = "start" => Samples.queue = << >> /\ Samples.level = 0 /\ Samples.dpc = "wait"

ExitAtEnd == syncState = "EXIT" => media = {} \/ mpc \in {"join", "ended"}

(* The decode thread of the audio has been told to stop, and not yet to go   *)
(* on: the sync thread is in its pause, which the main thread may be about   *)
(* to end.                                                                   *)
Stopped ==
  /\ syncState # "EXIT"
  /\ \/ paused \/ (mpc = "spin" /\ pauseDone)
     \/ syncState = "PAUSED" /\ spc \in {"publish", "acknowledge"}
     \/ mpc \in {"sendStart", "playMedia"}

(* Not enough samples for is_audio_ready, and no more before the messages    *)
(* have been taken.                                                          *)
Few == Samples.closed \/ Samples.level = 0 \/ (Samples.level = 1 /\ Samples.dpc # "run")

LastIsPause == Samples.queue # << >> /\ LastOf(Samples.queue) = "PAUSE"

StartIsFresh ==
  initPause = "no" /\ HasAudio =>
    /\ Stopped \/ ~NoStart(Samples.queue) => Few
    /\ Stopped \/ mpc \in {"sendPause", "spin"} =>
         LastIsPause \/ (Samples.queue = << >> /\ Samples.dpc = "wait")
    /\ LastIsPause /\ syncState # "EXIT" => Stopped \/ mpc \in {"sendPause", "spin"}

Reports ==
  /\ syncState = "WAIT_AUDIO" \/ newState = "WAIT_AUDIO"
  /\ waitingForAudio /\ initPause = "no" /\ ~hardwareError
  => \/ mpc \in PausePC
     \/ /\ audio.running /\ Samples.level > 0 /\ Samples.queue = << >>
        /\ mpc \notin {"play", "sendStart", "playMedia"}

AudioStart == Protocol /\ DevicesOpen /\ Fresh /\ ExitAtEnd /\ StartIsFresh /\ Reports

LEMMA InitAudioStart == Init => AudioStart
<1> SUFFICES ASSUME Init PROVE AudioStart
  OBVIOUS
<1>1. Protocol
  BY InitProtocol
<1>2. DevicesOpen /\ ExitAtEnd /\ Reports
  BY DEF Init, DevicesOpen, ExitAtEnd, Reports
<1>3. StartIsFresh
  BY DEF Init, StartIsFresh, HasAudio
<1>4. Samples = [setup |-> "none", level |-> 0, closed |-> FALSE,
                 eof |-> FALSE, dpc |-> "wait", queue |-> << >>]
  BY DEF Init, Samples, Media
<1>5. Fresh
  BY <1>4 DEF Fresh
<1> QED BY <1>1, <1>2, <1>3, <1>5 DEF AudioStart

LEMMA SamplesType ==
  ASSUME TypeOK
  PROVE  /\ Samples \in Track /\ Samples.level \in 0 .. 2 /\ Samples.queue \in Seq({"START", "PAUSE"})
         /\ "audio" \in Media /\ track \in [Media -> Track]
<1>1. Samples \in Track /\ "audio" \in Media /\ track \in [Media -> Track]
  BY TypeIs DEF TrackTypes, Samples, Media
<1> QED BY <1>1 DEF Track

(* Messages to the decode thread, sent and taken. *)
LEMMA Posted ==
  ASSUME NEW q \in Seq({"START", "PAUSE"}), NEW x \in {"START", "PAUSE"}
  PROVE  /\ Append(q, x) # << >> /\ LastOf(Append(q, x)) = x
         /\ x = "START" => ~NoStart(Append(q, x))
         /\ x # "START" => (NoStart(Append(q, x)) <=> NoStart(q))
<1> DEFINE S == {"START", "PAUSE"}
<1>1. q \in Seq(S) /\ x \in S
  OBVIOUS
<1> HIDE DEF S
<1> QED BY <1>1, Appended

LEMMA Read ==
  ASSUME NEW q \in Seq({"START", "PAUSE"}), q # << >>
  PROVE  /\ Head(q) \in {"START", "PAUSE"}
         /\ Tail(q) # << >> => LastOf(Tail(q)) = LastOf(q)
         /\ Tail(q) = << >> => LastOf(q) = Head(q)
<1> DEFINE S == {"START", "PAUSE"}
<1>1. q \in Seq(S)
  OBVIOUS
<1> HIDE DEF S
<1>2. /\ Head(q) \in S
      /\ Tail(q) # << >> => LastOf(Tail(q)) = LastOf(q)
      /\ Tail(q) = << >> => LastOf(q) = Head(q)
  BY <1>1, Taken
<1> QED BY <1>2 DEF S

(* The sync thread closes the ring of the audio, and leaves what is in it    *)
(* and the decode thread alone.                                              *)
LEMMA SyncSamples ==
  ASSUME Protocol, SyncThread, ~StartSession
  PROVE  /\ Samples'.level = Samples.level /\ Samples'.queue = Samples.queue
         /\ Samples'.dpc = Samples.dpc /\ (Samples.closed => Samples'.closed)
         /\ StateHandler => Samples' = Samples
<1>1. track \in [Media -> Track] /\ "audio" \in Media /\ Samples = track["audio"]
  BY SamplesType DEF Protocol, Samples
<1>2. \A ms : /\ Tried(ms)["audio"].level = Samples.level
              /\ Tried(ms)["audio"].queue = Samples.queue
              /\ Tried(ms)["audio"].dpc = Samples.dpc
              /\ Tried(ms)["audio"].closed = Samples.closed
  BY <1>1, TriedSetup
<1>3. ASSUME NEW tr \in [Media -> Track], NEW ms
      PROVE  /\ ClosedTracks(tr, ms)["audio"].level = tr["audio"].level
             /\ ClosedTracks(tr, ms)["audio"].queue = tr["audio"].queue
             /\ ClosedTracks(tr, ms)["audio"].dpc = tr["audio"].dpc
             /\ tr["audio"].closed => ClosedTracks(tr, ms)["audio"].closed
  <2>1. ClosedTracks(tr, ms)["audio"].closed \/ ClosedTracks(tr, ms)["audio"] = tr["audio"]
    BY <1>1 DEF ClosedTracks
  <2> QED BY <1>1, <2>1, ClosedSetup
<1>4. \A ms : /\ ClosedTracks(Tried(ms), media)["audio"].level = Samples.level
              /\ ClosedTracks(Tried(ms), media)["audio"].queue = Samples.queue
              /\ ClosedTracks(Tried(ms), media)["audio"].dpc = Samples.dpc
              /\ Samples.closed => ClosedTracks(Tried(ms), media)["audio"].closed
  <2>1. \A ms : Tried(ms) \in [Media -> Track]
    BY <1>1, TriedType
  <2> QED BY <1>2, <1>3, <2>1
<1>5. /\ ClosedTracks(track, media)["audio"].level = Samples.level
      /\ ClosedTracks(track, media)["audio"].queue = Samples.queue
      /\ ClosedTracks(track, media)["audio"].dpc = Samples.dpc
      /\ Samples.closed => ClosedTracks(track, media)["audio"].closed
  BY <1>1, <1>3
<1>6. DropVideo \/ (\E eof \in BOOLEAN : PlayVideo(eof)) => track'["audio"] = track["audio"]
  BY <1>1, VideoOnly
<1>7. Tried(media \ {"audio"})["audio"] = track["audio"]
  BY <1>1 DEF Tried
<1>8. Samples' = track'["audio"]
  BY DEF Samples
<1>9. StateHandler => Samples' = Samples
  <2>1. StateHandler => ~(InitAudioFirst \/ InitMedia \/ InitFails \/ EnterState)
    BY Handled DEF InitAudioFirst, InitMedia, InitFails, EnterState, In, At, Returns
  <2> QED BY <1>1, <1>6, <1>7, <1>8, <2>1, SyncTracks
<1> QED BY <1>1, <1>2, <1>4, <1>5, <1>6, <1>7, <1>8, <1>9, SyncTracks


(* The step of the sync thread that starts the session. *)
LEMMA StartAudioStart ==
  ASSUME AudioStart, TypeOK', StartSession
  PROVE  Fresh' /\ ExitAtEnd' /\ StartIsFresh' /\ Reports'
<1>1. /\ spc = "start" /\ spc' = "top" /\ syncState' \in {"INIT", "EXIT"} /\ newState' = syncState'
      /\ UNCHANGED <<mpc, after, ui, paused, pauseDone, initPause>>
      /\ mpc = "inner" /\ ~paused /\ media = {}
      /\ syncState' = "EXIT" => media' = media
  BY DEF StartSession, SyncLeaves, mainVars, AudioStart, Protocol, NotStarted
<1>2. /\ Samples.queue = << >> /\ Samples.level = 0 /\ Samples.dpc = "wait"
      /\ Samples \in Track /\ Samples.queue \in Seq({"START", "PAUSE"})
      /\ Samples = track["audio"] /\ Samples' = track'["audio"] /\ "audio" \in Media
  BY <1>1, SamplesType DEF AudioStart, Fresh, Protocol, Samples
<1>3. HasAudio' => Samples' = [Samples EXCEPT !.queue = Append(Samples.queue, "START")]
  <2>1. HasAudio' => SendDecoders("START", media')
    BY <1>1 DEF StartSession, HasAudio
  <2>2. HasAudio' /\ SendDecoders("START", media') =>
          track'["audio"] = [track["audio"] EXCEPT !.queue = Append(track["audio"].queue, "START")]
    BY <1>2 DEF SendDecoders, HasAudio
  <2> QED BY <1>2, <2>1, <2>2
<1>4. Append(Samples.queue, "START") # << >> /\ LastOf(Append(Samples.queue, "START")) = "START"
  BY <1>2, Posted
<1>5. HasAudio' => Samples'.level = 0 /\ LastOf(Samples'.queue) = "START"
  BY <1>2, <1>3, <1>4 DEF Track
<1>6. Fresh' /\ ExitAtEnd' /\ Reports'
  BY <1>1 DEF Fresh, ExitAtEnd, Reports
<1>7. StartIsFresh'
  <2>1. ~Stopped'
    BY <1>1 DEF Stopped
  <2> QED BY <1>1, <1>5, <2>1 DEF StartIsFresh, LastIsPause, Few
<1> QED BY <1>6, <1>7

LEMMA SyncAudioStart ==
  ASSUME AudioStart, TypeOK', SyncThread, ~StartSession
  PROVE  Fresh' /\ ExitAtEnd' /\ StartIsFresh'
<1>1. /\ Samples'.level = Samples.level /\ Samples'.queue = Samples.queue
      /\ Samples'.dpc = Samples.dpc /\ (Samples.closed => Samples'.closed)
  BY SyncSamples DEF AudioStart
<1>2. UNCHANGED <<mpc, after, ui, paused>>
  BY SyncKeeps
<1>3. /\ media' = media /\ spc' # "start"
      /\ initPause' = "no" => initPause = "no" /\ (pauseDone' = pauseDone \/ AcknowledgePause)
  <2>1. CASE StateHandler
    BY <2>1, Handled DEF HandlerLeaves, Return
  <2>2. CASE ~StateHandler
    BY <2>2 DEF SyncThread, ThreadEnds, InitAudioFirst, InitMedia, InitFails, InitLeaves,
       InitMessage, InitMessageLeaves, DrainQueue, EnterState, PublishState, AcknowledgePause,
       Return, SStep, mediaVars
  <2> QED BY <2>1, <2>2
<1>4. Few => Few'
  BY <1>1 DEF Few
<1>5. \/ EnterState
      \/ syncState' = syncState /\ (syncState = "PAUSED" =>
            \/ spc' = spc
            \/ spc = "publish" /\ spc' = "acknowledge"
            \/ AcknowledgePause)
  <2>1. CASE StateHandler
    BY <2>1, Handled DEF HandlerLeaves, Returns
  <2>2. CASE ~StateHandler
    BY <2>2
       DEF SyncThread, ThreadEnds, InitAudioFirst, InitMedia, InitFails, InitLeaves,
           InitMessage, InitMessageLeaves, DrainQueue, PublishState, AcknowledgePause,
           SStep, At, AudioStart, Protocol, SyncPhases
  <2> QED BY <2>1, <2>2
<1>6. ExitAtEnd' /\ Fresh'
  <2>1. EnterState => syncState' = newState /\ syncState # "EXIT"
    BY DEF EnterState, AudioStart, Protocol, SyncPhases
  <2> QED BY <1>2, <1>3, <1>5, <2>1 DEF AudioStart, Protocol, SyncMessages, ExitAtEnd, Fresh
<1>7. StartIsFresh'
  <2> SUFFICES ASSUME initPause = "no", HasAudio, pauseDone' = pauseDone \/ AcknowledgePause
               PROVE  /\ (Stopped \/ ~NoStart(Samples.queue) => Few)'
                      /\ (Stopped \/ mpc \in {"sendPause", "spin"} =>
                            LastIsPause \/ (Samples.queue = << >> /\ Samples.dpc = "wait"))'
                      /\ (LastIsPause /\ syncState # "EXIT" =>
                            Stopped \/ mpc \in {"sendPause", "spin"})'
    BY <1>3 DEF StartIsFresh, HasAudio
  <2>1. /\ Stopped \/ ~NoStart(Samples.queue) => Few
        /\ Stopped \/ mpc \in {"sendPause", "spin"} =>
             LastIsPause \/ (Samples.queue = << >> /\ Samples.dpc = "wait")
        /\ LastIsPause /\ syncState # "EXIT" => Stopped \/ mpc \in {"sendPause", "spin"}
    BY DEF AudioStart, StartIsFresh
  <2>2. LastIsPause' = LastIsPause
    BY <1>1 DEF LastIsPause
  <2>3. CASE EnterState
    <3>1. /\ syncState' = newState /\ syncState # "EXIT" /\ pauseDone' = pauseDone
          /\ spc \notin {"publish", "acknowledge"}
          /\ newState \notin {"PAUSED", "EXIT"} => spc' \in {"top", "publish"}
      BY <2>3 DEF EnterState, AudioStart, Protocol, SyncPhases
    <3>2. CASE newState \in {"PAUSED", "EXIT"}
      <4>1. Few'
        <5>1. track' = ClosedTracks(track, media)
          BY <2>3, <3>2 DEF EnterState, FlushSync
        <5>2. track \in [Media -> Track] /\ "audio" \in Media
          BY SamplesType DEF AudioStart, Protocol
        <5>3. ClosedTracks(track, media)["audio"].closed
          BY <5>2, ClosedSetup DEF HasAudio
        <5> QED BY <5>1, <5>3 DEF Few, Samples
      <4>2. newState = "PAUSED" => mpc = "spin"
        BY <2>3 DEF EnterState, AudioStart, Protocol, OnePause, PauseTaken, SyncPhases
      <4>3. newState = "EXIT" => mpc \in {"join", "ended"} /\ ~Stopped'
        BY <3>1 DEF AudioStart, Protocol, SyncMessages, Stopped
      <4> QED BY <1>1, <1>2, <2>1, <2>2, <3>1, <3>2, <4>1, <4>2, <4>3
    <3>3. CASE newState \notin {"PAUSED", "EXIT"}
      <4>1. Stopped' = Stopped
        BY <1>2, <3>1, <3>3 DEF Stopped
      <4> QED BY <1>1, <1>2, <1>4, <2>1, <2>2, <3>1, <4>1
    <3> QED BY <3>2, <3>3
  <2>4. CASE AcknowledgePause
    <3>1. syncState = "PAUSED" /\ spc = "acknowledge" /\ mpc = "spin" /\ UNCHANGED syncState
          /\ pauseDone'
      BY <2>4 DEF AcknowledgePause, SStep, AudioStart, Protocol, OnePause, PauseTaken, Published
    <3>2. Stopped /\ Stopped'
      BY <1>2, <3>1 DEF Stopped
    <3> QED BY <1>1, <1>2, <1>4, <2>1, <2>2, <3>1, <3>2
  <2>5. CASE ~EnterState /\ ~AcknowledgePause
    <3>1. syncState' = syncState /\ Stopped' = Stopped
      BY <1>2, <1>5, <2>5 DEF Stopped
    <3> QED BY <1>1, <1>2, <1>4, <2>1, <2>2, <3>1
  <2> QED BY <2>3, <2>4, <2>5
<1> QED BY <1>6, <1>7


(* The report is waited for when the audio has been started, or a pause is   *)
(* under way.                                                                *)
LEMMA SyncReports ==
  ASSUME AudioStart, TypeOK', SyncThread, ~StartSession
  PROVE  Reports'
<1> SUFFICES ASSUME syncState' = "WAIT_AUDIO" \/ newState' = "WAIT_AUDIO",
                    waitingForAudio', initPause' = "no", ~hardwareError'
             PROVE  \/ mpc' \in PausePC
                    \/ /\ audio'.running /\ Samples'.level > 0 /\ Samples'.queue = << >>
                       /\ mpc' \notin {"play", "sendStart", "playMedia"}
  BY DEF Reports
<1>1. UNCHANGED <<mpc, after, ui, paused>>
  BY SyncKeeps
<1>2. Samples'.level = Samples.level /\ Samples'.queue = Samples.queue
  BY SyncSamples DEF AudioStart
<1>3. CASE WaitSync /\ StartAudio("WAIT_AUDIO")
  <2>1. /\ syncState = "WAIT_SYNC" /\ newState = "WAIT_SYNC" /\ spc = "top" /\ audio' = PlayingAudio
        /\ initPause = "no" /\ ~hardwareError
    BY <1>3 DEF WaitSync, In, At, StartAudio, HandlerLeaves
  <2>2. HasAudio /\ CanBeReady("audio")
    <3>1. newState' = "WAIT_AUDIO"
      BY <1>3 DEF StartAudio, Return
    <3> QED BY <1>3, <3>1 DEF WaitSync, Return, HasAudio
  <2>3. Initialised(track, "audio")
    BY <2>1, <2>2 DEF AudioStart, DevicesOpen
  <2>4. ~Samples.closed /\ Samples.level = 2
    BY <2>2, <2>3 DEF CanBeReady, Full, Samples
  <2>5. ~Few
    BY <2>4 DEF Few
  <2>6. ~Stopped /\ NoStart(Samples.queue)
    BY <2>1, <2>2, <2>5 DEF AudioStart, StartIsFresh
  <2>7. mpc \notin {"play", "sendStart", "playMedia"}
    BY <2>1, <2>6 DEF Stopped, AudioStart, Protocol, MainPaused
  <2>8. Samples.queue = << >> \/ LastIsPause
    <3>1. Samples.queue \in Seq({"START", "PAUSE"})
      BY SamplesType DEF AudioStart, Protocol
    <3>2. Samples.queue # << >> => LastOf(Samples.queue) \in {"START", "PAUSE"}
                                   /\ Len(Samples.queue) \in 1 .. Len(Samples.queue)
      <4> DEFINE S == {"START", "PAUSE"}
      <4>1. Samples.queue \in Seq(S)
        BY <3>1
      <4> HIDE DEF S
      <4>2. Samples.queue # << >> => Len(Samples.queue) \in 1 .. Len(Samples.queue)
        BY <4>1, LenProperties, EmptySeq
      <4>3. Samples.queue # << >> => LastOf(Samples.queue) \in S
        BY <4>1, <4>2, ElementOfSeq DEF LastOf
      <4> QED BY <4>2, <4>3 DEF S
    <3> QED BY <2>6, <3>2 DEF NoStart, LastOf, LastIsPause
  <2>9. LastIsPause => mpc \in PausePC
    BY <2>1, <2>2, <2>6 DEF AudioStart, StartIsFresh, PausePC
  <2>10. audio'.running
    BY <2>1, <2>3 DEF PlayingAudio
  <2> QED BY <1>1, <1>2, <2>4, <2>7, <2>8, <2>9, <2>10
<1>4. CASE ~(WaitSync /\ StartAudio("WAIT_AUDIO"))
  <2>1. /\ syncState = "WAIT_AUDIO" \/ newState = "WAIT_AUDIO"
        /\ initPause = "no" /\ ~hardwareError
    <3>1. CASE StateHandler
      <4>1. CASE WaitSync
        BY <1>4, <4>1 DEF WaitSync, HandlerLeaves, Return, In, At
      <4>2. CASE ~WaitSync
        <5>1. PICK t \in SyncStates : Return(t) /\ Returns(syncState, t)
          BY <3>1, Handled
        <5>2. syncState # "WAIT_SYNC"
          BY <3>1, <4>2 DEF StateHandler, WaitAudio, Playing, AudioResync, WaitAudioReady,
                            WaitTimedInit, In, At
        <5>3. In(syncState) /\ HandlerLeaves
          BY <3>1, Handled
        <5> QED BY <5>1, <5>2, <5>3 DEF Return, Returns, HandlerLeaves, In, At
      <4> QED BY <4>1, <4>2
    <3>2. CASE InitAudioFirst \/ InitMedia \/ InitFails
      BY <3>2 DEF InitAudioFirst, InitMedia, InitFails, InitLeaves, Return, At
    <3>3. CASE InitMessage
      BY <3>3 DEF InitMessage, InitMessageLeaves, Return
    <3>4. CASE DrainQueue
      BY <3>4 DEF DrainQueue, AfterMessage
    <3>5. CASE EnterState \/ ThreadEnds \/ PublishState \/ AcknowledgePause
      <4>1. /\ syncState' \in {syncState, newState} /\ newState' = newState
            /\ initPause' = initPause /\ hardwareError' = hardwareError
        BY <3>5 DEF EnterState, ThreadEnds, PublishState, AcknowledgePause
      <4> QED BY <4>1
    <3> QED BY <3>1, <3>2, <3>3, <3>4, <3>5 DEF SyncThread
  <2>2. waitingForAudio /\ (audio.running => audio'.running)
    <3>1. CASE StateHandler
      <4>1. WaitAudio \/ WaitSync
        BY <2>1, <3>1 DEF StateHandler, Playing, AudioResync, WaitAudioReady, WaitTimedInit, In, At
      <4>2. ~WaitSync
        BY <2>1, <4>1 DEF WaitSync, In, At
      <4> QED BY <4>1, <4>2 DEF WaitAudio
    <3>2. CASE EnterState
      <4>1. newState = "WAIT_AUDIO"
        BY <3>2 DEF EnterState
      <4> QED BY <3>2, <4>1 DEF EnterState
    <3>3. CASE ~StateHandler /\ ~EnterState
      BY <3>3, <2>1
         DEF SyncThread, ThreadEnds, InitAudioFirst, InitMedia, InitFails, InitLeaves,
             InitMessage, InitMessageLeaves, DrainQueue, PublishState, AcknowledgePause, At, mediaVars
    <3> QED BY <3>1, <3>2, <3>3
  <2>3. \/ mpc \in PausePC
        \/ /\ audio.running /\ Samples.level > 0 /\ Samples.queue = << >>
           /\ mpc \notin {"play", "sendStart", "playMedia"}
    BY <2>1, <2>2 DEF AudioStart, Reports
  <2> QED BY <1>1, <1>2, <2>2, <2>3
<1> QED BY <1>3, <1>4


(* A message that the main thread sends to the decode thread of the audio.   *)
LEMMA MainSamples ==
  ASSUME AudioStart, HasAudio, NEW x \in {"START", "PAUSE"}, SendDecoders(x, media)
  PROVE  /\ Samples'.level = Samples.level /\ Samples'.closed = Samples.closed
         /\ Samples'.dpc = Samples.dpc /\ Samples'.queue = Append(Samples.queue, x)
         /\ Samples'.queue # << >> /\ LastOf(Samples'.queue) = x
         /\ x = "START" => ~NoStart(Samples'.queue)
         /\ x # "START" => (NoStart(Samples'.queue) <=> NoStart(Samples.queue))
<1>1. /\ track["audio"] \in Track /\ track["audio"].queue \in Seq({"START", "PAUSE"})
      /\ "audio" \in Media
  BY SamplesType DEF AudioStart, Protocol, Samples
<1>2. track'["audio"] = [track["audio"] EXCEPT !.queue = Append(track["audio"].queue, x)]
  BY <1>1 DEF SendDecoders, HasAudio
<1> DEFINE q == Append(track["audio"].queue, x)
<1>3. /\ q # << >> /\ LastOf(q) = x /\ (x = "START" => ~NoStart(q))
      /\ x # "START" => (NoStart(q) <=> NoStart(track["audio"].queue))
  BY <1>1, Posted
<1>4. track'["audio"] = [track["audio"] EXCEPT !.queue = q]
  BY <1>2
<1> HIDE DEF q
<1>5. /\ track'["audio"].queue = q /\ track'["audio"].level = track["audio"].level
      /\ track'["audio"].closed = track["audio"].closed /\ track'["audio"].dpc = track["audio"].dpc
  BY <1>1, <1>4 DEF Track
<1> QED BY <1>3, <1>5 DEF Samples, q

LEMMA MainAudioStart ==
  ASSUME AudioStart, TypeOK', MainThread
  PROVE  Fresh' /\ ExitAtEnd' /\ StartIsFresh' /\ Reports'
<1>1. UNCHANGED <<shortRender, media, audio, waitingForAudio, syncState, newState, spc,
                  hardwareError, keys>>
  BY MainKeeps DEF AudioStart, Protocol
<1>2. /\ Stopped \/ ~NoStart(Samples.queue) => initPause # "no" \/ ~HasAudio \/ Few
      /\ Stopped \/ mpc \in {"sendPause", "spin"} =>
           \/ initPause # "no" \/ ~HasAudio
           \/ LastIsPause \/ (Samples.queue = << >> /\ Samples.dpc = "wait")
      /\ LastIsPause /\ syncState # "EXIT" =>
           initPause # "no" \/ ~HasAudio \/ Stopped \/ mpc \in {"sendPause", "spin"}
  BY DEF AudioStart, StartIsFresh
<1>3. ~(paused \/ (mpc = "spin" /\ pauseDone)) \/ initPause = "now"
      \/ ~(syncState = "WAIT_AUDIO" \/ newState = "WAIT_AUDIO")
  BY DEF AudioStart, Protocol, PauseKept, Rest
<1>4. mpc \in {"sendStart", "playMedia"} => ~paused
  BY DEF AudioStart, Protocol, MainPaused
<1>5. CASE TakeMasterMessage \/ LeaveInnerLoop \/ CountLoop \/ JoinSyncThread \/ DeleteSession
  <2>1. /\ mpc \in {"inner", "count", "join", "delete"}
        /\ mpc' \in {"inner", "play", "pause", "count", "delete", "join", "ended"}
        /\ mpc \in {"join", "ended"} => mpc' \in {"join", "ended"}
        /\ UNCHANGED <<track, pauseDone, paused, initPause>>
        /\ mpc' = "play" => mpc = "inner" /\ ui.paused
    BY <1>5 DEF TakeMasterMessage, LeaveInnerLoop, CountLoop, JoinSyncThread, DeleteSession, MStep,
                LoopLeaves
  <2>2. Samples' = Samples /\ Few' = Few /\ LastIsPause' = LastIsPause
    BY <2>1 DEF Samples, Few, LastIsPause
  <2>3. Stopped' = Stopped
    BY <1>1, <2>1 DEF Stopped
  <2>4. Fresh'
    BY <1>1, <2>2 DEF AudioStart, Fresh
  <2>5. ExitAtEnd'
    BY <1>1, <2>1 DEF AudioStart, ExitAtEnd
  <2>6. StartIsFresh'
    BY <1>1, <1>2, <2>1, <2>2, <2>3 DEF StartIsFresh, HasAudio
  <2>7. Reports'
    <3>1. initPause = "no" /\ mpc' = "play" => paused
      BY <2>1 DEF AudioStart, Protocol, MainPaused
    <3> QED BY <1>1, <1>3, <2>1, <2>2, <3>1 DEF AudioStart, Reports, PausePC
  <2> QED BY <2>4, <2>5, <2>6, <2>7
<1>6. CASE SendPause \/ SpinDone \/ PlayState \/ SendStart
  <2>1. /\ UNCHANGED <<track, pauseDone>> /\ (initPause' = "no" => initPause = "no")
        /\ initPause = "now" => initPause' # "no" \/ SpinDone
        /\ \/ mpc = "sendPause" /\ mpc' = "spin" /\ paused' = paused
           \/ mpc = "spin" /\ pauseDone /\ mpc' = after /\ paused' = TRUE
           \/ mpc = "play" /\ mpc' = "sendStart" /\ paused' = FALSE
           \/ mpc = "sendStart" /\ mpc' = "playMedia" /\ paused' = paused
    BY <1>6 DEF SendPause, SpinDone, PlayState, SendStart, MStep
  <2>2. Samples' = Samples /\ Few' = Few /\ LastIsPause' = LastIsPause
    BY <2>1 DEF Samples, Few, LastIsPause
  <2>3. mpc = "sendPause" => ~pauseDone
    BY DEF AudioStart, Protocol, SyncMessages
  <2>4. initPause = "no" /\ mpc = "play" => paused
    BY DEF AudioStart, Protocol, MainPaused
  <2>5. after \in {"inner", "play", "count"}
    BY TypeIs DEF AudioStart, Protocol, ScalarTypes
  <2>6. initPause = "no" => Stopped' = Stopped
    BY <1>1, <1>4, <2>1, <2>3, <2>4, <2>5 DEF Stopped
  <2>7. mpc' \in {"sendPause", "spin"} => mpc \in {"sendPause", "spin"}
    BY <2>1, <2>5
  <2>8. mpc \in {"sendPause", "spin"} /\ syncState # "EXIT" =>
          mpc' \in {"sendPause", "spin"} \/ Stopped'
    BY <1>1, <2>1 DEF Stopped
  <2>9. Fresh' /\ ExitAtEnd'
    BY <1>1, <2>1, <2>2 DEF AudioStart, Fresh, ExitAtEnd
  <2>10. StartIsFresh'
    BY <1>1, <1>2, <2>1, <2>2, <2>6, <2>7, <2>8 DEF StartIsFresh, HasAudio
  <2>11. Reports'
    BY <1>1, <1>3, <2>1, <2>2, <2>4, <2>5 DEF AudioStart, Reports, PausePC
  <2> QED BY <2>9, <2>10, <2>11
<1>7. CASE PauseMedia
  <2>1. /\ mpc = "pause" /\ mpc' = "sendPause" /\ UNCHANGED <<paused, initPause>>
        /\ SendDecoders("PAUSE", media)
    BY <1>7 DEF PauseMedia, PauseMediaStarts, MStep
  <2>2. spc # "start"
    BY <2>1 DEF AudioStart, Protocol, NotStarted
  <2>3. Fresh' /\ ExitAtEnd'
    BY <1>1, <2>1, <2>2 DEF AudioStart, Fresh, ExitAtEnd
  <2>4. Reports'
    BY <2>1 DEF Reports, PausePC
  <2>5. Stopped' = Stopped
    BY <1>1, <2>1 DEF Stopped
  <2>6. StartIsFresh'
    <3>1. HasAudio => Few' = Few /\ LastIsPause'
                      /\ (NoStart(Samples'.queue) <=> NoStart(Samples.queue))
      BY <2>1, MainSamples DEF Few, LastIsPause
    <3> QED BY <1>1, <1>2, <2>1, <2>5, <3>1 DEF StartIsFresh, HasAudio
  <2> QED BY <2>3, <2>4, <2>6
<1>8. CASE PlayMedia
  <2>1. /\ mpc = "playMedia" /\ mpc' = "inner" /\ UNCHANGED <<paused, initPause>>
        /\ SendDecoders("START", media)
    BY <1>8 DEF PlayMedia, MStep
  <2>2. spc # "start" /\ ~paused
    BY <1>4, <2>1 DEF AudioStart, Protocol, NotStarted
  <2>3. Fresh' /\ ExitAtEnd'
    BY <1>1, <2>1, <2>2 DEF AudioStart, Fresh, ExitAtEnd
  <2>4. ~Stopped'
    BY <1>1, <2>1, <2>2 DEF Stopped, AudioStart, Protocol, OnePause, PauseTaken
  <2>5. HasAudio => Stopped
    BY <2>1 DEF Stopped, AudioStart, ExitAtEnd, HasAudio
  <2>6. StartIsFresh'
    <3>1. HasAudio => Few' = Few /\ ~LastIsPause'
      BY <2>1, MainSamples DEF Few, LastIsPause
    <3> QED BY <1>1, <1>2, <2>1, <2>4, <2>5, <3>1 DEF StartIsFresh, HasAudio
  <2>7. Reports'
    BY <1>1, <2>1 DEF AudioStart, Reports, PausePC, PlayMedia
  <2> QED BY <2>3, <2>6, <2>7
<1> QED BY <1>5, <1>6, <1>7, <1>8 DEF MainThread, PauseAllMedia, PlayAllMedia


(* What the decode thread of the audio can do to its samples. *)
LEMMA DecodeSamples ==
  ASSUME TypeOK, NEW m \in media, DecodeThread(m)
  PROVE  \/ Samples' = Samples
         \/ /\ m = "audio" /\ Samples.queue # << >> /\ Samples'.level = 0
            /\ Samples'.queue = Tail(Samples.queue)
            /\ Head(Samples.queue) = "PAUSE" => Samples'.dpc = "wait"
         \/ /\ m = "audio" /\ Samples.dpc = "run" /\ Samples'.queue = Samples.queue
            /\ \/ Samples.closed /\ Samples'.closed /\ Samples'.level = Samples.level
               \/ /\ ~Samples.closed /\ Samples'.level = Samples.level + 1
                  /\ Samples'.dpc = NextTurn(Samples.queue)
               \/ /\ Samples'.closed = Samples.closed /\ Samples'.level = Samples.level
                  /\ Samples'.dpc = "wait"
<1>1. /\ track \in [Media -> Track] /\ "audio" \in Media /\ m \in Media /\ Samples \in Track
      /\ track["audio"] \in Track
  BY SamplesType, TypeIs DEF ScalarTypes, Samples
<1>2. CASE m # "audio"
  BY <1>1, <1>2 DEF DecodeThread, TakeDecodeMessage, DecodeFrame, EndOfFile, Samples
<1>3. CASE m = "audio" /\ TakeDecodeMessage(m)
  <2> DEFINE t == track["audio"]
             fl == Flushed(t)
             dpc == IF Head(t.queue) = "PAUSE" THEN "wait"
                    ELSE IF t.dpc = "wait" THEN NextTurn(Tail(t.queue)) ELSE "run"
             new == [fl EXCEPT !.queue = Tail(t.queue), !.dpc = dpc]
  <2>0. fl \in Track
    BY <1>1, FlushedType
  <2>1. fl \in Track /\ fl.level = 0 /\ fl.queue = t.queue
    BY <1>1, <2>0 DEF Flushed, Track
  <2>2. t.queue # << >> /\ track' = [track EXCEPT !["audio"] = new]
    BY <1>3, <2>1 DEF TakeDecodeMessage
  <2>3. Head(t.queue) = "PAUSE" => dpc = "wait"
    OBVIOUS
  <2> HIDE DEF dpc, fl
  <2>4. new.level = 0 /\ new.queue = Tail(t.queue) /\ new.dpc = dpc
    BY <2>1 DEF Track
  <2> HIDE DEF new
  <2>5. track'["audio"] = new
    BY <1>1, <2>2
  <2> QED BY <1>3, <2>2, <2>3, <2>4, <2>5 DEF Samples
<1>4. CASE m = "audio" /\ DecodeFrame(m)
  <2> DEFINE t == track["audio"]
             setup == Configured(t)
             dpc == NextTurn(t.queue)
             level == t.level + 1
  <2>1. /\ t.dpc = "run"
        /\ \/ /\ t.closed
              /\ track' = [track EXCEPT !["audio"] = [t EXCEPT !.setup = setup, !.dpc = dpc]]
           \/ /\ ~t.closed
              /\ track' = [track EXCEPT !["audio"] = [t EXCEPT !.setup = setup, !.dpc = dpc,
                                                              !.level = level]]
    BY <1>1, <1>4 DEF DecodeFrame
  <2> HIDE DEF setup, dpc, level
  <2>2. \/ t.closed /\ track'["audio"] = [t EXCEPT !.setup = setup, !.dpc = dpc]
        \/ ~t.closed /\ track'["audio"] = [t EXCEPT !.setup = setup, !.dpc = dpc, !.level = level]
    BY <1>1, <2>1
  <2>3. /\ track'["audio"].queue = t.queue /\ track'["audio"].dpc = dpc
        /\ \/ t.closed /\ track'["audio"].closed /\ track'["audio"].level = t.level
           \/ ~t.closed /\ track'["audio"].level = level
    BY <1>1, <2>2 DEF Track
  <2> QED BY <1>4, <2>1, <2>3 DEF Samples, dpc, level
<1>5. CASE m = "audio" /\ EndOfFile(m)
  <2>1. track["audio"].dpc = "run"
        /\ track'["audio"] = [track["audio"] EXCEPT !.eof = TRUE, !.dpc = "wait"]
    BY <1>1, <1>5 DEF EndOfFile
  <2> QED BY <1>1, <1>5, <2>1 DEF Samples, Track
<1> QED BY <1>2, <1>3, <1>4, <1>5 DEF DecodeThread

LEMMA AsideAudioStart ==
  ASSUME AudioStart, TypeOK', Aside
  PROVE  Fresh' /\ ExitAtEnd' /\ StartIsFresh' /\ Reports'
<1>1. UNCHANGED <<shortRender, media, syncState, newState, spc, syncQueue, sessionState,
                  pauseDone, hardwareError, mpc, after, ui, paused, initPause>>
  BY AsideKeeps
<1>2. TypeOK /\ Samples.level \in 0 .. 2 /\ Samples \in Track
      /\ Samples.queue \in Seq({"START", "PAUSE"}) /\ "audio" \in Media /\ track["audio"] = Samples
  BY SamplesType DEF AudioStart, Protocol, Samples
<1>3. ExitAtEnd' /\ Stopped' = Stopped
  BY <1>1 DEF AudioStart, ExitAtEnd, Stopped
<1>4. Fresh' /\ Reports' /\ StartIsFresh'
  <2>1. CASE Samples' = Samples /\ (waitingForAudio' => waitingForAudio) /\ audio'.running = audio.running
    <3>1. Few' = Few /\ LastIsPause' = LastIsPause
      BY <2>1 DEF Few, LastIsPause
    <3> QED BY <1>1, <1>3, <2>1, <3>1 DEF AudioStart, Fresh, Reports, StartIsFresh, HasAudio
  <2>2. CASE AudioCallback
    <3>1. spc # "start" /\ HasAudio
      BY <2>2 DEF AudioCallback, Underrun, PlaySamples, AudioStart, Protocol, NotStarted,
                  AbsentMedia, HasAudio
    <3>2. CASE Underrun
      <4>1. Samples' = Samples /\ Samples.level = 0 /\ waitingForAudio' = waitingForAudio
        BY <3>2 DEF Underrun, Samples
      <4>2. Few' = Few /\ LastIsPause' = LastIsPause
        BY <4>1 DEF Few, LastIsPause
      <4>3. Reports'
        BY <1>1, <3>2, <4>1 DEF Underrun, AudioStart, Reports
      <4> QED BY <1>1, <1>3, <3>1, <4>1, <4>2, <4>3 DEF AudioStart, Fresh, StartIsFresh, HasAudio
    <3>3. CASE PlaySamples
      <4>1. Samples.level > 0 /\ track' = [track EXCEPT !["audio"].level = @ - 1] /\ waitingForAudio' = FALSE
        BY <3>3 DEF PlaySamples, Samples
      <4>2. /\ Samples'.level = Samples.level - 1 /\ Samples'.queue = Samples.queue
            /\ Samples'.dpc = Samples.dpc /\ Samples'.closed = Samples.closed
        <5>1. track \in [Media -> Track] /\ track["audio"] \in Track
          BY <1>2, SamplesType
        <5> QED BY <1>2, <4>1, <5>1 DEF Samples, Track
      <4>3. Few => Few'
        BY <1>2, <4>1, <4>2 DEF Few
      <4>4. LastIsPause' = LastIsPause
        BY <4>2 DEF LastIsPause
      <4> QED BY <1>1, <1>3, <3>1, <4>1, <4>2, <4>3, <4>4
         DEF AudioStart, Fresh, Reports, StartIsFresh, HasAudio
    <3> QED BY <2>2, <3>2, <3>3 DEF AudioCallback
  <2>3. CASE UserEvent \/ UNCHANGED vars
    BY <2>1, <2>3 DEF UserEvent, vars, mediaVars, Samples
  <2>4. ASSUME NEW m \in media, DecodeThread(m)
        PROVE  Fresh' /\ Reports' /\ StartIsFresh'
    <3>1. waitingForAudio' = waitingForAudio /\ audio'.running = audio.running
      <4>1. audio \in Audio
        BY <1>2, TypeIs DEF TrackTypes
      <4> QED BY <2>4, <4>1 DEF DecodeThread, TakeDecodeMessage, DecodeFrame, EndOfFile,
                                DecoderLeaves, Audio
    <3>2. spc # "start"
      BY <2>4 DEF AudioStart, Protocol, NotStarted
    <3>3. Fresh'
      BY <1>1, <3>2 DEF Fresh
    <3>4. CASE Samples' = Samples
      BY <2>1, <3>1, <3>4
    <3>5. CASE /\ Samples.queue # << >> /\ Samples'.level = 0
               /\ Samples'.queue = Tail(Samples.queue)
               /\ Head(Samples.queue) = "PAUSE" => Samples'.dpc = "wait"
      <4>1. Few' /\ ~(Samples.queue = << >>)
        BY <3>5 DEF Few
      <4>2. /\ Tail(Samples.queue) # << >> => LastOf(Tail(Samples.queue)) = LastOf(Samples.queue)
            /\ Tail(Samples.queue) = << >> => LastOf(Samples.queue) = Head(Samples.queue)
        BY <1>2, <4>1, Read
      <4>3. LastIsPause => LastIsPause' \/ (Samples'.queue = << >> /\ Samples'.dpc = "wait")
        BY <3>5, <4>2 DEF LastIsPause
      <4>4. LastIsPause' => LastIsPause
        BY <3>5, <4>2 DEF LastIsPause
      <4>5. StartIsFresh'
        BY <1>1, <1>3, <4>1, <4>3, <4>4 DEF AudioStart, StartIsFresh, HasAudio
      <4>6. Reports'
        BY <1>1, <3>1, <4>1 DEF AudioStart, Reports
      <4> QED BY <3>3, <4>5, <4>6
    <3>6. CASE /\ m = "audio" /\ Samples.dpc = "run" /\ Samples'.queue = Samples.queue
               /\ \/ Samples.closed /\ Samples'.closed /\ Samples'.level = Samples.level
                  \/ /\ ~Samples.closed /\ Samples'.level = Samples.level + 1
                     /\ Samples'.dpc = NextTurn(Samples.queue)
                  \/ /\ Samples'.closed = Samples.closed /\ Samples'.level = Samples.level
                     /\ Samples'.dpc = "wait"
      <4>1. LastIsPause' = LastIsPause
        BY <3>6 DEF LastIsPause
      <4>2. Few /\ Samples.queue # << >> => Few'
        BY <1>2, <3>6 DEF Few, NextTurn
      <4>3. ~NoStart(Samples.queue) => Samples.queue # << >>
        BY DEF NoStart
      <4>4. StartIsFresh'
        <5>1. ~(Samples.queue = << >> /\ Samples.dpc = "wait")
          BY <3>6
        <5>2. LastIsPause => Samples.queue # << >>
          BY DEF LastIsPause
        <5> QED BY <1>1, <1>3, <3>6, <4>1, <4>2, <4>3, <5>1, <5>2 DEF AudioStart, StartIsFresh, HasAudio
      <4>5. Reports'
        BY <1>1, <1>2, <3>1, <3>6 DEF AudioStart, Reports
      <4> QED BY <3>3, <4>4, <4>5
    <3> QED BY <1>2, <2>4, <3>4, <3>5, <3>6, DecodeSamples
  <2> QED BY <2>2, <2>3, <2>4 DEF Aside
<1> QED BY <1>3, <1>4

LEMMA NextAudioStart == AudioStart /\ [Next]_vars => AudioStart'
<1> SUFFICES ASSUME AudioStart, [Next]_vars PROVE AudioStart'
  OBVIOUS
<1>1. Protocol' /\ DevicesOpen'
  BY NextProtocol, NextDevices DEF AudioStart
<1>2. TypeOK'
  BY <1>1 DEF Protocol
<1>3. MainThread \/ SyncThread \/ Aside
  BY DEF Next, Aside
<1> QED BY <1>1, <1>2, <1>3, MainAudioStart, StartAudioStart, SyncAudioStart, SyncReports,
           AsideAudioStart DEF AudioStart

(* sync_thread_wait_audio waits for a report that comes: until then the      *)
(* hardware runs and has samples, or a pause is under way that ends the      *)
(* wait.  No message from before the start can still take the samples away.  *)
THEOREM AudioReports == Spec => []AudioWillReport
<1>1. AudioStart => AudioWillReport
  BY DEF AudioStart, Reports, AudioWillReport, Samples
<1> QED BY <1>1, InitAudioStart, NextAudioStart, PTL DEF Spec
=============================================================================
