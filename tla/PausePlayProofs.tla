--------------------------- MODULE PausePlayProofs ---------------------------
(***************************************************************************)
(* Proofs about pausing and restarting, for every number of slots from two *)
(* on, every length of the stream and any number of restarts.              *)
(***************************************************************************)
EXTENDS PausePlay, SequenceTheorems, TLAPS

-----------------------------------------------------------------------------
(* Types.  TypeOK leaves out what only the proof needs: the arguments of     *)
(* play_at and the numbers of frames.                                        *)
PlayAtTypes ==
  /\ call \in [time : Int, resync : BOOLEAN, index : Ring!Slots, used : BOOLEAN,
               eof : BOOLEAN]
  /\ published \in Nat /\ taken \in Nat
  /\ lastTaken \in Nat \cup {Ring!NoFrame} /\ shown \in Nat \cup {Ring!NoFrame}
  /\ spc # "clear"

Types == TypeOK /\ PlayAtTypes

LEMMA SuccInSlots == \A i \in Ring!Slots : Ring!Succ(i) \in Ring!Slots
<1> SUFFICES ASSUME NEW i \in Ring!Slots PROVE Ring!Succ(i) \in Ring!Slots
  OBVIOUS
<1>1. MaxBuffers \in Nat \ {0, 1} /\ i \in 0 .. MaxBuffers - 1
  BY BuffersAssumption DEF Ring!Slots
<1>2. (i + 1) % MaxBuffers \in 0 .. MaxBuffers - 1
  BY <1>1, SMTT(30)
<1> QED BY <1>2 DEF Ring!Slots, Ring!Succ

LEMMA ZeroInSlots == 0 \in Ring!Slots
BY BuffersAssumption DEF Ring!Slots

(* Taking the first message of a queue. *)
LEMMA TailOfQueue ==
  ASSUME NEW S, NEW q \in Seq(S), q # << >>
  PROVE  /\ Head(q) \in S /\ Head(q) = q[1]
         /\ Tail(q) \in Seq(S)
         /\ Len(q) > 0 /\ Len(Tail(q)) = Len(q) - 1
         /\ \A i \in 1 .. Len(q) - 1 : Tail(q)[i] = q[i + 1]
BY HeadTailProperties, EmptySeq

LEMMA InitTypes == Init => Types
<1> SUFFICES ASSUME Init PROVE Types
  OBVIOUS
<1>1. /\ filled \in [Ring!Slots -> BOOLEAN]
      /\ playThisAt \in [Ring!Slots -> Nat \cup {Ring!NoFrame}]
      /\ content \in [Ring!Slots -> Nat \cup {Ring!NoFrame}]
      /\ fillIndex \in Ring!Slots /\ playIndex \in Ring!Slots
  BY ZeroInSlots DEF Init
<1>2. decodeQueue \in Seq({"PAUSE", "START"}) /\ syncQueue \in Seq({"PAUSE", "START"})
  BY DEF Init
<1>3. /\ decodeWaiting \in BOOLEAN /\ decodeSem \in Nat /\ dontFill \in BOOLEAN
      /\ eof \in BOOLEAN /\ dpc \in DecodePC /\ spc \in Ring!SyncPC \cup PausePC
      /\ afterFlush \in {"wait", "idle", "eofTest"}
  BY DEF Init, DecodePC, Ring!SyncPC
<1>4. /\ position \in 0 .. StreamLength /\ syncState \in SyncState
      /\ pauseDone \in BOOLEAN /\ cpc \in ControlPC /\ restarts \in 0 .. MaxRestarts
  <2>1. /\ position = 0 /\ syncState = "WAIT_SYNC" /\ pauseDone = FALSE /\ cpc = "play"
        /\ restarts = 0
    BY DEF Init
  <2>2. position \in 0 .. StreamLength /\ restarts \in 0 .. MaxRestarts
    BY <2>1, BuffersAssumption, RestartsAssumption
  <2>3. syncState \in SyncState /\ pauseDone \in BOOLEAN /\ cpc \in ControlPC
    BY <2>1 DEF SyncState, ControlPC
  <2> QED BY <2>2, <2>3
<1>5. PlayAtTypes
  BY ZeroInSlots DEF Init, PlayAtTypes
<1> QED BY <1>1, <1>2, <1>3, <1>4, <1>5 DEF Types, TypeOK

(* The four groups of steps: messages and flushing, filling the ring, the    *)
(* sync thread in play_at, the sync thread outside it, the controller.       *)
LEMMA FlushStepTypes ==
  ASSUME Types,
         WaitForMessage \/ ParseMessage \/ FlushSlots \/ FlushIndexes
           \/ FlushDone \/ NextFrame \/ SetEof \/ AbandonSlot
  PROVE  Types'
<1> USE ZeroInSlots, BuffersAssumption
    DEF Types, TypeOK, PlayAtTypes, DecodePC, Ring!DecodePC, FlushPC,
        ringVars, ringHistory, syncVars, controlVars, DStep
<1>1. CASE WaitForMessage  BY <1>1 DEF WaitForMessage
<1>2. CASE ParseMessage
  <2>1. CASE TakeMessage("idle") \/ TakeMessage("eofTest")
    <3>1. decodeQueue' \in Seq({"PAUSE", "START"})
      <4>1. decodeQueue \in Seq({"PAUSE", "START"}) /\ decodeQueue # << >>
        BY <2>1 DEF TakeMessage
      <4>2. Tail(decodeQueue) \in Seq({"PAUSE", "START"})  BY <4>1, TailOfQueue
      <4> QED BY <2>1, <4>2 DEF TakeMessage
    <3>2. afterFlush' \in {"wait", "idle", "eofTest"} /\ dpc' \in DecodePC
      BY <2>1 DEF TakeMessage
    <3> QED BY <1>2, <3>1, <3>2 DEF ParseMessage
  <2>2. CASE NoMessage("wait") \/ NoMessage("eofTest")
    BY <1>2, <2>2 DEF ParseMessage, NoMessage
  <2> QED BY <1>2, <2>1, <2>2 DEF ParseMessage
<1>3. CASE FlushSlots      BY <1>3 DEF FlushSlots
<1>4. CASE FlushIndexes    BY <1>4 DEF FlushIndexes
<1>5. CASE FlushDone
  <2>1. dpc' \in DecodePC
    BY <1>5 DEF FlushDone
  <2>2. /\ dontFill' = FALSE
        /\ UNCHANGED <<ringVars, decodeWaiting, decodeSem, eof, afterFlush, position, syncVars,
                       controlVars, decodeQueue, syncQueue>>
    BY <1>5 DEF FlushDone
  <2>3. TypeOK'
    <3> HIDE DEF DecodePC
    <3> QED BY <2>1, <2>2
  <2>4. PlayAtTypes'
    BY <2>2
  <2> QED BY <2>3, <2>4
<1>6. CASE NextFrame
  <2>1. dpc' \in DecodePC /\ position' \in 0 .. StreamLength
    BY <1>6 DEF NextFrame
  <2> QED BY <1>6, <2>1 DEF NextFrame
<1>7. CASE SetEof
  <2>1. dpc' \in DecodePC /\ eof' = TRUE
    BY <1>7 DEF SetEof
  <2> QED BY <1>7, <2>1 DEF SetEof
<1>8. CASE AbandonSlot     BY <1>8 DEF AbandonSlot
<1> QED BY <1>1, <1>2, <1>3, <1>4, <1>5, <1>6, <1>7, <1>8

LEMMA FillRingTypes == Types /\ FillRing => Types'
<1> SUFFICES ASSUME Types, FillRing PROVE Types'
  OBVIOUS
<1> USE SuccInSlots
    DEF Types, TypeOK, PlayAtTypes, DecodePC, FillRing, Ring!FillStep, controlVars,
        Ring!ring, Ring!wakeup, Ring!history, Ring!DStep, Ring!DecodePC,
        Ring!SyncThreadUnchanged
<1>1. CASE Ring!CheckSlot    BY <1>1 DEF Ring!CheckSlot
<1>2. CASE Ring!SetWaiting   BY <1>2 DEF Ring!SetWaiting
<1>3. CASE Ring!Awake        BY <1>3 DEF Ring!Awake
<1>4. CASE Ring!RecheckSlot  BY <1>4 DEF Ring!RecheckSlot
<1>5. CASE Ring!WriteSlot    BY <1>5 DEF Ring!WriteSlot
<1>6. CASE Ring!RaiseFlag    BY <1>6 DEF Ring!RaiseFlag
<1> QED BY <1>1, <1>2, <1>3, <1>4, <1>5, <1>6

LEMMA PlayRingTypes == Types /\ PlayRing => Types'
<1> SUFFICES ASSUME Types, PlayRing PROVE Types'
  OBVIOUS
<1> USE SuccInSlots
    DEF Types, TypeOK, PlayAtTypes, PlayRing, Ring!PlayStep, controlVars,
        Ring!ring, Ring!wakeup, Ring!history, Ring!SStep, Ring!SyncPC,
        Ring!LoopExit, Ring!DecodeThreadUnchanged
<1>1. CASE Ring!TestSlot            BY <1>1 DEF Ring!TestSlot
<1>2. CASE Ring!TestEof             BY <1>2 DEF Ring!TestEof
<1>3. CASE Ring!FreeSlot
  <2>1. playThisAt[playIndex] \in Nat \cup {Ring!NoFrame}  OBVIOUS
  <2>2. call' \in [time : Int, resync : BOOLEAN, index : Ring!Slots,
                   used : BOOLEAN, eof : BOOLEAN]
    BY <1>3 DEF Ring!FreeSlot
  <2>3. filled' \in [Ring!Slots -> BOOLEAN]  BY <1>3 DEF Ring!FreeSlot
  <2> QED BY <1>3, <2>1, <2>2, <2>3 DEF Ring!FreeSlot
<1>4. CASE Ring!AdvancePlayIndex    BY <1>4 DEF Ring!AdvancePlayIndex
<1>5. CASE Ring!PeekNextSlot        BY <1>5 DEF Ring!PeekNextSlot
<1>6. CASE Ring!Render
  <2>1. content[call.index] \in Nat \cup {Ring!NoFrame}  OBVIOUS
  <2> QED BY <1>6, <2>1 DEF Ring!Render
<1>7. CASE Ring!NotifyDecodeThread
  <2>1. /\ decodeWaiting' = FALSE /\ spc' \in {"post", "out"}
        /\ UNCHANGED <<Ring!ring, decodeSem, dontFill, eof, dpc, call, Ring!history, posts>>
    BY <1>7 DEF Ring!NotifyDecodeThread
  <2>2. spc' \in Ring!SyncPC /\ decodeWaiting' \in BOOLEAN
    BY <2>1
  <2> HIDE DEF Ring!SyncPC
  <2> QED BY <2>1, <2>2
<1>8. CASE Ring!PostDecodeSem       BY <1>8 DEF Ring!PostDecodeSem
<1>9. ~Ring!ClearSlot               BY DEF Ring!ClearSlot
<1> QED BY <1>1, <1>2, <1>3, <1>4, <1>5, <1>6, <1>7, <1>8, <1>9

LEMMA SyncStepTypes ==
  ASSUME Types, ProcessMessages \/ WaitSync \/ Playing \/ PlayedToEnd \/ CloseRing
  PROVE  Types'
<1> USE DEF Types, TypeOK, PlayAtTypes, ringVars, ringHistory, decodeVars, controlVars,
            PausePC, SyncState, AtTop, SStep
<1>1. CASE ProcessMessages  BY <1>1 DEF ProcessMessages, Ring!SyncPC
<1>2. CASE WaitSync
  <2>1. playThisAt[playIndex] \in Int  BY DEF Ring!NoFrame
  <2>2. call' \in [time : Int, resync : BOOLEAN, index : Ring!Slots,
                   used : BOOLEAN, eof : BOOLEAN]
    BY <1>2, <2>1 DEF WaitSync
  <2> QED BY <1>2, <2>2 DEF WaitSync
<1>3. CASE Playing
  <2>1. PICK t \in call.time .. published : Ring!CallPlayAt(t, FALSE)
    BY <1>3 DEF Playing
  <2>2. call' \in [time : Int, resync : BOOLEAN, index : Ring!Slots,
                   used : BOOLEAN, eof : BOOLEAN]
    BY <2>1 DEF Ring!CallPlayAt
  <2> QED BY <1>3, <2>1, <2>2 DEF Playing, Ring!CallPlayAt, Ring!ring, Ring!wakeup,
             Ring!history, Ring!SStep, Ring!SyncPC
<1>4. CASE PlayedToEnd      BY <1>4 DEF PlayedToEnd
<1>5. CASE CloseRing
  <2>1. /\ dontFill' \in BOOLEAN /\ eof' \in BOOLEAN /\ pauseDone' \in BOOLEAN
        /\ decodeWaiting' \in BOOLEAN /\ decodeSem' \in Nat
    <3>1. decodeWaiting' \in BOOLEAN  BY <1>5 DEF CloseRing
    <3>2. dontFill' \in BOOLEAN  BY <1>5 DEF CloseRing
    <3>3. eof' \in BOOLEAN  BY <1>5 DEF CloseRing
    <3>4. pauseDone' \in BOOLEAN  BY <1>5 DEF CloseRing
    <3>5. decodeSem' \in Nat  BY <1>5 DEF CloseRing
    <3> QED BY <3>1, <3>2, <3>3, <3>4, <3>5
  <2>2. spc' \in {"out", "clearEof", "notifyClosed", "postClosed", "pauseDone"}
    BY <1>5 DEF CloseRing
  <2>3. spc' \in Ring!SyncPC \cup PausePC
    BY <2>2 DEF Ring!SyncPC
  <2> QED BY <1>5, <2>1, <2>3 DEF CloseRing
<1> QED BY <1>1, <1>2, <1>3, <1>4, <1>5

LEMMA ControllerTypes == Types /\ Controller => Types'
<1> SUFFICES ASSUME Types, Controller PROVE Types'
  OBVIOUS
<1> USE BuffersAssumption, RestartsAssumption
    DEF Types, TypeOK, PlayAtTypes, ringVars, ringHistory, ControllerLeaves, ControlPC, CStep
<1>1. CASE PauseDecoding  BY <1>1 DEF PauseDecoding
<1>2. CASE PostMessage    BY <1>2 DEF PostMessage
<1>3. CASE PauseSync
  <2>1. pauseDone' \in BOOLEAN  BY <1>3 DEF PauseSync
  <2>2. syncQueue' \in Seq({"PAUSE", "START"})  BY <1>3 DEF PauseSync
  <2> QED BY <1>3, <2>1, <2>2 DEF PauseSync
<1>4. CASE WaitPauseDone  BY <1>4 DEF WaitPauseDone
<1>5. CASE StartSync      BY <1>5 DEF StartSync
<1>6. CASE Seek           BY <1>6 DEF Seek
<1>7. CASE StartDecoding  BY <1>7 DEF StartDecoding
<1> QED BY <1>1, <1>2, <1>3, <1>4, <1>5, <1>6, <1>7 DEF Controller

(* Every variable keeps its type, whatever the three threads do. *)
THEOREM PauseTypes == Spec => []TypeOK
<1>1. Types /\ [Next]_vars => Types'
  <2> SUFFICES ASSUME Types, [Next]_vars PROVE Types'
    OBVIOUS
  <2>1. CASE DecodeThread
    BY <2>1, FlushStepTypes, FillRingTypes DEF DecodeThread
  <2>2. CASE SyncThread
    BY <2>2, PlayRingTypes, SyncStepTypes DEF SyncThread
  <2>3. CASE Controller
    BY <2>3, ControllerTypes
  <2>4. CASE UNCHANGED vars
    BY <2>4 DEF vars, Ring!vars, Ring!ring, Ring!wakeup, Ring!history, decodeVars,
       syncVars, controlVars, Types, TypeOK, PlayAtTypes
  <2> QED BY <2>1, <2>2, <2>3, <2>4 DEF Next
<1>2. Types => TypeOK
  BY DEF Types
<1> QED BY InitTypes, <1>1, <1>2, PTL DEF Spec

-----------------------------------------------------------------------------
(* Messages and the tokens they come with. *)

(* The decode thread has taken a token, or need not have, and will look for  *)
(* a message before it sleeps again.                                         *)
WillLook == dpc \in {"parse", "idle", "recheck", "write", "publish", "increment"}

(* A message is in the queue and its token not yet in the semaphore. *)
PostDue == cpc \in {"postPause", "postStart"}

Looks == IF WillLook THEN 1 ELSE 0
Dues == IF PostDue THEN 1 ELSE 0

TokensCoverMessages == Len(decodeQueue) <= decodeSem + Looks + Dues

-----------------------------------------------------------------------------
(* The order of the messages: a pause and a start in turn. *)

LastSent == IF cpc \in {"postStart", "play"} THEN "START" ELSE "PAUSE"

Restarting == dpc \in FlushPC /\ afterFlush = "idle"

(* The last message the decode thread has taken is a start, and it has not   *)
(* come to the end of the stream.                                            *)
Decoding == Restarting \/ dpc \notin FlushPC \cup {"wait", "parse"}

MessagesAlternate ==
  /\ \A i \in 1 .. Len(decodeQueue) - 1 : decodeQueue[i] # decodeQueue[i + 1]
  /\ decodeQueue # << >> => decodeQueue[Len(decodeQueue)] = LastSent
  /\ Decoding => IF decodeQueue = << >> THEN LastSent = "START"
                                        ELSE decodeQueue[1] = "PAUSE"
  /\ afterFlush # "eofTest"

-----------------------------------------------------------------------------
(* The sync thread. *)

InPlayAt == spc \in Ring!SyncPC \ {"out"}

SyncPhases ==
  /\ InPlayAt => syncState = "PLAYING"
  /\ spc \in PausePC => syncState = "PAUSED"
  /\ \/ spc \in PausePC
     \/ syncQueue # << >> /\ syncQueue[Len(syncQueue)] = "PAUSE"
     => cpc = "waitDone" /\ ~pauseDone
  /\ spc \in PausePC => syncQueue = << >>

-----------------------------------------------------------------------------
(* From the moment the ring is closed for a pause until the decode thread    *)
(* has flushed it for the restart, the sync thread does not play and cannot  *)
(* begin to: the ring is closed, or it is empty and nobody fills it.         *)

RingClosed == pauseDone \/ spc \in PausePC \ {"closeRing"}

StartQueued == \E i \in DOMAIN decodeQueue : decodeQueue[i] = "START"

RestartPending ==
  \/ cpc = "waitDone" /\ RingClosed
  \/ cpc \in {"paused", "seek", "startDecoding"}
  \/ StartQueued
  \/ Restarting

RingEmpty == \A i \in Ring!Slots : ~filled[i]

NobodyFills ==
  \/ dpc \in FlushPC \cup {"wait", "parse"}
  \/ dpc = "idle" /\ decodeQueue # << >>

RingInvariant ==
  /\ dpc \in {"flushIndexes", "flushDone"} => RingEmpty
  /\ dontFill => RestartPending
  /\ RestartPending => /\ syncState # "PLAYING"
                       /\ dontFill \/ (RingEmpty /\ NobodyFills)

PausePlayInv ==
  Types /\ TokensCoverMessages /\ MessagesAlternate /\ SyncPhases /\ RingInvariant

LEMMA InitInv == Init => PausePlayInv
<1> SUFFICES ASSUME Init PROVE PausePlayInv
  OBVIOUS
<1> USE DEF Init
<1>1. Types  BY InitTypes
<1>2. TokensCoverMessages
  BY DEF TokensCoverMessages, Looks, WillLook, Dues, PostDue
<1>3. MessagesAlternate
  BY DEF MessagesAlternate, LastSent, Decoding, Restarting, FlushPC
<1>4. SyncPhases
  BY DEF SyncPhases, InPlayAt, PausePC
<1>5. RingInvariant
  BY DEF RingInvariant, RingEmpty, NobodyFills
<1> QED BY <1>1, <1>2, <1>3, <1>4, <1>5 DEF PausePlayInv

-----------------------------------------------------------------------------
(* What the steps inside the ring do to the state around it. *)

(* Filling the ring keeps the messages and the sync thread as they are, and  *)
(* a token it takes is followed by a look at the messages.                   *)
LEMMA FillRingEffect ==
  ASSUME Types, FillRing
  PROVE  /\ UNCHANGED <<afterFlush, decodeQueue, syncQueue, syncState, pauseDone, cpc,
                        dontFill, spc>>
         /\ dpc \in Ring!DecodePC \ {"idle"} /\ dpc' \in Ring!DecodePC
         /\ decodeSem' + Looks' >= decodeSem + Looks
<1> USE DEF Types, TypeOK, FillRing, Ring!FillStep, Ring!DStep, Ring!DecodePC, Looks,
            WillLook, controlVars, Ring!ring, Ring!wakeup, Ring!history,
            Ring!SyncThreadUnchanged
<1>1. CASE Ring!CheckSlot    BY <1>1 DEF Ring!CheckSlot
<1>2. CASE Ring!SetWaiting   BY <1>2 DEF Ring!SetWaiting
<1>3. CASE Ring!Awake        BY <1>3 DEF Ring!Awake
<1>4. CASE Ring!RecheckSlot  BY <1>4 DEF Ring!RecheckSlot
<1>5. CASE Ring!WriteSlot    BY <1>5 DEF Ring!WriteSlot
<1>6. CASE Ring!RaiseFlag    BY <1>6 DEF Ring!RaiseFlag
<1> QED BY <1>1, <1>2, <1>3, <1>4, <1>5, <1>6

(* play_at removes frames from the ring and leaves everything else alone but *)
(* the wake-up of the decode thread.                                         *)
LEMMA PlayRingEffect ==
  ASSUME Types, PlayRing
  PROVE  /\ UNCHANGED <<afterFlush, decodeQueue, syncQueue, syncState, pauseDone, cpc,
                        dontFill, dpc>>
         /\ InPlayAt /\ spc' \in Ring!SyncPC
         /\ decodeSem' >= decodeSem
         /\ \A i \in Ring!Slots : filled'[i] => filled[i]
<1> USE DEF Types, TypeOK, PlayRing, Ring!PlayStep, Ring!SStep, Ring!SyncPC, InPlayAt,
            Ring!LoopExit, controlVars, Ring!ring, Ring!wakeup, Ring!history,
            Ring!DecodeThreadUnchanged
<1>1. CASE Ring!TestSlot            BY <1>1 DEF Ring!TestSlot
<1>2. CASE Ring!TestEof             BY <1>2 DEF Ring!TestEof
<1>3. CASE Ring!FreeSlot            BY <1>3 DEF Ring!FreeSlot
<1>4. CASE Ring!AdvancePlayIndex    BY <1>4 DEF Ring!AdvancePlayIndex
<1>5. CASE Ring!PeekNextSlot        BY <1>5 DEF Ring!PeekNextSlot
<1>6. CASE Ring!Render              BY <1>6 DEF Ring!Render
<1>7. CASE Ring!NotifyDecodeThread  BY <1>7 DEF Ring!NotifyDecodeThread
<1>8. CASE Ring!PostDecodeSem       BY <1>8 DEF Ring!PostDecodeSem
<1>9. ~Ring!ClearSlot               BY DEF Ring!ClearSlot, PlayAtTypes
<1> QED BY <1>1, <1>2, <1>3, <1>4, <1>5, <1>6, <1>7, <1>8, <1>9

LEMMA PlayingEffect ==
  ASSUME Types, Playing
  PROVE  /\ UNCHANGED <<afterFlush, decodeQueue, syncQueue, syncState, pauseDone, cpc,
                        dontFill, dpc, decodeSem, filled>>
         /\ syncState = "PLAYING" /\ syncQueue = << >> /\ spc = "out" /\ spc' = "test"
<1>1. PICK t \in call.time .. published : Ring!CallPlayAt(t, FALSE)
  BY DEF Playing
<1> QED BY <1>1 DEF Playing, AtTop, Ring!CallPlayAt, Ring!ring, Ring!wakeup, Ring!history,
           Ring!SStep, controlVars

(* The sync thread takes no message and no token of the decode thread. *)
LEMMA SyncThreadEffect ==
  ASSUME Types, SyncThread
  PROVE  /\ UNCHANGED <<afterFlush, decodeQueue, cpc, dpc>>
         /\ decodeSem' >= decodeSem
<1> USE DEF Types, TypeOK, ringVars, ringHistory, decodeVars, controlVars
<1>1. CASE ProcessMessages  BY <1>1 DEF ProcessMessages
<1>2. CASE WaitSync         BY <1>2 DEF WaitSync
<1>3. CASE Playing          BY <1>3, PlayingEffect
<1>4. CASE PlayRing         BY <1>4, PlayRingEffect
<1>5. CASE PlayedToEnd      BY <1>5 DEF PlayedToEnd
<1>6. CASE CloseRing        BY <1>6 DEF CloseRing
<1> QED BY <1>1, <1>2, <1>3, <1>4, <1>5, <1>6 DEF SyncThread

-----------------------------------------------------------------------------
(* What covers the messages may be exchanged, not lost. *)
LEMMA CoverArithmetic ==
  \A n, sem, look, due, sem2, look2 \in Nat :
    n <= sem + look + due /\ sem2 + look2 >= sem + look => n <= sem2 + look2 + due
OBVIOUS

(* Tokens: the decode thread. *)
LEMMA TokensDecode ==
  ASSUME Types, TokensCoverMessages, DecodeThread
  PROVE  TokensCoverMessages'
<1>1. decodeSem \in Nat /\ Len(decodeQueue) \in Nat
  BY DEF Types, TypeOK
<1>2. Looks \in {0, 1} /\ Dues \in {0, 1}
  BY DEF Looks, Dues
<1>3. Dues' = Dues
  <2>1. CASE FillRing   BY <2>1, FillRingEffect DEF Dues, PostDue
  <2>2. CASE ~FillRing
    BY <2>2 DEF DecodeThread, Dues, PostDue, WaitForMessage, ParseMessage, FlushSlots,
       FlushIndexes, FlushDone, NextFrame, SetEof, AbandonSlot, controlVars
  <2> QED BY <2>1, <2>2
<1> USE DEF TokensCoverMessages, DStep
<1>4. CASE WaitForMessage
  BY <1>1, <1>2, <1>3, <1>4 DEF WaitForMessage, Looks, WillLook
<1>5. CASE ParseMessage
  <2>1. decodeSem' = decodeSem  BY <1>5 DEF ParseMessage
  <2>2. CASE TakeMessage("idle") \/ TakeMessage("eofTest")
    <3>1. Len(decodeQueue') = Len(decodeQueue) - 1
      BY <2>2, TailOfQueue DEF TakeMessage, Types, TypeOK
    <3> QED BY <1>1, <1>2, <1>3, <2>1, <3>1 DEF Looks
  <2>3. CASE NoMessage("wait") \/ NoMessage("eofTest")
    BY <1>1, <1>2, <1>3, <2>1, <2>3 DEF NoMessage, Looks
  <2> QED BY <1>5, <2>2, <2>3 DEF ParseMessage
<1>6. CASE FlushSlots \/ FlushIndexes \/ FlushDone \/ NextFrame \/ SetEof \/ AbandonSlot
  <2>1. decodeSem' = decodeSem /\ decodeQueue' = decodeQueue
    BY <1>6 DEF FlushSlots, FlushIndexes, FlushDone, NextFrame, SetEof, AbandonSlot
  <2>2. WillLook => WillLook'
    BY <1>6 DEF FlushSlots, FlushIndexes, FlushDone, NextFrame, SetEof, AbandonSlot, WillLook
  <2> QED BY <1>1, <1>2, <1>3, <2>1, <2>2 DEF Looks
<1>7. CASE FillRing
  <2>1. /\ decodeSem' \in Nat /\ Looks \in Nat
        /\ Looks' \in Nat /\ Dues \in Nat
    BY <1>7, FillRingTypes DEF Types, TypeOK, Looks, Dues
  <2>2. decodeQueue' = decodeQueue /\ decodeSem' + Looks' >= decodeSem + Looks
    BY <1>7, FillRingEffect
  <2>3. Len(decodeQueue) <= decodeSem + Looks + Dues
    OBVIOUS
  <2>4. Len(decodeQueue) <= decodeSem' + Looks' + Dues
    BY <1>1, <2>1, <2>2, <2>3, CoverArithmetic, Zenon
  <2> QED BY <1>3, <2>2, <2>4
<1> QED BY <1>4, <1>5, <1>6, <1>7 DEF DecodeThread

(* Tokens: the others only add to them. *)
LEMMA TokensOthers ==
  ASSUME Types, TokensCoverMessages, SyncThread \/ Controller
  PROVE  TokensCoverMessages'
<1>1. decodeSem \in Nat /\ Len(decodeQueue) \in Nat
  BY DEF Types, TypeOK
<1>2. Looks \in {0, 1} /\ Dues \in {0, 1}
  BY DEF Looks, Dues
<1>3. CASE SyncThread
  <2>1. Types'  BY <1>3, PlayRingTypes, SyncStepTypes DEF SyncThread
  <2>2. decodeSem' \in Nat  BY <2>1 DEF Types, TypeOK
  <2>3. Looks' = Looks /\ Dues' = Dues
    BY <1>3, SyncThreadEffect DEF Looks, WillLook, Dues, PostDue
  <2> QED BY <1>1, <1>2, <1>3, <2>2, <2>3, SyncThreadEffect DEF TokensCoverMessages
<1>4. CASE Controller
  <2>1. Looks' = Looks
    BY <1>4 DEF Controller, Looks, WillLook, PauseDecoding, PostMessage, PauseSync,
       WaitPauseDone, StartSync, Seek, StartDecoding, ControllerLeaves
  <2>2. CASE PauseDecoding \/ StartDecoding
    <3>1. Len(decodeQueue') = Len(decodeQueue) + 1 /\ decodeSem' = decodeSem
      BY <2>2 DEF PauseDecoding, StartDecoding, Types, TypeOK
    <3>2. Dues = 0 /\ Dues' = 1
      BY <2>2 DEF PauseDecoding, StartDecoding, CStep, Dues, PostDue
    <3> QED BY <1>1, <1>2, <2>1, <3>1, <3>2 DEF TokensCoverMessages
  <2>3. CASE PostMessage
    <3>1. decodeQueue' = decodeQueue /\ decodeSem' = decodeSem + 1
      BY <2>3 DEF PostMessage
    <3>2. Dues = 1 /\ Dues' = 0
      BY <2>3 DEF PostMessage, CStep, Dues, PostDue
    <3> QED BY <1>1, <1>2, <2>1, <3>1, <3>2 DEF TokensCoverMessages
  <2>4. CASE PauseSync \/ WaitPauseDone \/ StartSync \/ Seek
    <3>1. decodeQueue' = decodeQueue /\ decodeSem' = decodeSem
      BY <2>4 DEF PauseSync, WaitPauseDone, StartSync, Seek
    <3>2. Dues' = Dues
      BY <2>4 DEF PauseSync, WaitPauseDone, StartSync, Seek, CStep, Dues, PostDue
    <3> QED BY <2>1, <3>1, <3>2 DEF TokensCoverMessages
  <2> QED BY <1>4, <2>2, <2>3, <2>4 DEF Controller
<1> QED BY <1>3, <1>4

-----------------------------------------------------------------------------
(* Pauses and starts alternate: the decode thread. *)
LEMMA AlternateDecode ==
  ASSUME Types, MessagesAlternate, DecodeThread
  PROVE  MessagesAlternate'
<1>1. LastSent' = LastSent
  <2>1. CASE FillRing   BY <2>1, FillRingEffect DEF LastSent
  <2>2. CASE ~FillRing
    BY <2>2 DEF DecodeThread, LastSent, WaitForMessage, ParseMessage, FlushSlots,
       FlushIndexes, FlushDone, NextFrame, SetEof, AbandonSlot, controlVars
  <2> QED BY <2>1, <2>2
<1>2. CASE ParseMessage
  <2>1. CASE TakeMessage("idle") \/ TakeMessage("eofTest")
    <3> DEFINE q == decodeQueue
    <3>1. q \in Seq({"PAUSE", "START"}) /\ q # << >> /\ q' = Tail(q)
      BY <2>1 DEF TakeMessage, Types, TypeOK
    <3>2. /\ Head(q) = q[1] /\ q[1] \in {"PAUSE", "START"}
          /\ Len(q) \in Nat \ {0} /\ Len(q') = Len(q) - 1
          /\ \A i \in 1 .. Len(q) - 1 : q'[i] = q[i + 1]
          /\ q' \in Seq({"PAUSE", "START"})
      BY <3>1, TailOfQueue
    <3>3. \A i \in 1 .. Len(q') - 1 : q'[i] # q'[i + 1]
      BY <3>2 DEF MessagesAlternate
    <3>4. q' # << >> => Len(q) - 1 \in 1 .. Len(q) - 1 /\ q'[Len(q')] = q[Len(q)]
      BY <3>2, EmptySeq
    <3>5. q' # << >> => q'[Len(q')] = LastSent'
      BY <1>1, <3>1, <3>4 DEF MessagesAlternate
    <3>6. dpc = "idle" => Head(q) = "PAUSE"
      BY <3>1, <3>2 DEF MessagesAlternate, Decoding, FlushPC
    <3>7. afterFlush' = (IF Head(q) = "START" THEN "idle" ELSE "wait") /\ dpc' = "flushSlots"
      BY <1>2, <2>1, <3>6 DEF ParseMessage, TakeMessage, NoMessage
    <3>8. Decoding' => q[1] = "START"
      BY <3>2, <3>7 DEF Decoding, Restarting, FlushPC
    <3>9. q' = << >> /\ q[1] = "START" => LastSent' = "START"
      <4> SUFFICES ASSUME q' = << >>, q[1] = "START" PROVE LastSent = "START"
        BY <1>1
      <4>1. Len(q) = 1  BY <3>2
      <4> QED BY <3>1, <4>1 DEF MessagesAlternate
    <3>10. q' # << >> /\ q[1] = "START" => q'[1] = "PAUSE"
      <4> SUFFICES ASSUME q' # << >>, q[1] = "START" PROVE q'[1] = "PAUSE"
        OBVIOUS
      <4>1. 1 \in 1 .. Len(q) - 1  BY <3>2, <3>4
      <4>2. q'[1] = q[2] /\ q'[1] # q[1]
        BY <3>2, <4>1 DEF MessagesAlternate
      <4>3. q'[1] \in {"PAUSE", "START"}  BY <3>2, <4>1
      <4> QED BY <4>2, <4>3
    <3> QED BY <3>3, <3>5, <3>7, <3>8, <3>9, <3>10 DEF MessagesAlternate
  <2>2. CASE NoMessage("wait") /\ dpc = "parse"
    BY <1>1, <2>2 DEF NoMessage, MessagesAlternate, Decoding, Restarting, FlushPC
  <2>3. CASE NoMessage("eofTest") /\ dpc = "idle"
    BY <1>1, <2>3 DEF NoMessage, MessagesAlternate, Decoding, Restarting, FlushPC
  <2> QED BY <1>2, <2>1, <2>2, <2>3 DEF ParseMessage
<1>3. CASE WaitForMessage \/ FlushSlots \/ FlushIndexes \/ FlushDone \/ NextFrame
             \/ SetEof \/ AbandonSlot
  <2>1. decodeQueue' = decodeQueue /\ afterFlush' = afterFlush
    BY <1>3 DEF WaitForMessage, FlushSlots, FlushIndexes, FlushDone, NextFrame, SetEof,
       AbandonSlot
  <2>2. afterFlush \in {"wait", "idle"}
    BY DEF Types, TypeOK, MessagesAlternate
  <2>3. Decoding' => Decoding
    BY <1>3, <2>1, <2>2 DEF WaitForMessage, FlushSlots, FlushIndexes, FlushDone, NextFrame,
       SetEof, AbandonSlot, DStep, Decoding, Restarting, FlushPC
  <2> QED BY <1>1, <2>1, <2>3 DEF MessagesAlternate
<1>4. CASE FillRing
  <2>1. decodeQueue' = decodeQueue /\ afterFlush' = afterFlush
    BY <1>4, FillRingEffect
  <2>2. Decoding
    BY <1>4, FillRingEffect DEF Decoding, Ring!DecodePC, FlushPC
  <2> QED BY <1>1, <2>1, <2>2 DEF MessagesAlternate
<1> QED BY <1>2, <1>3, <1>4 DEF DecodeThread

(* Pauses and starts alternate: the senders. *)
LEMMA AlternateOthers ==
  ASSUME Types, MessagesAlternate, SyncThread \/ Controller
  PROVE  MessagesAlternate'
<1>1. CASE SyncThread
  BY <1>1, SyncThreadEffect DEF MessagesAlternate, LastSent, Decoding, Restarting
<1>2. CASE Controller
  <2>1. Decoding' = Decoding /\ afterFlush' = afterFlush
    BY <1>2 DEF Controller, PauseDecoding, PostMessage, PauseSync, WaitPauseDone, StartSync,
       Seek, StartDecoding, ControllerLeaves, Decoding, Restarting
  <2>2. CASE PauseDecoding \/ StartDecoding
    <3> DEFINE q == decodeQueue
    <3>1. PICK m \in {"PAUSE", "START"} : q' = Append(q, m) /\ LastSent' = m /\ LastSent # m
      BY <2>2 DEF PauseDecoding, StartDecoding, CStep, LastSent
    <3>2. q \in Seq({"PAUSE", "START"})
      BY DEF Types, TypeOK
    <3>3. /\ Len(q) \in Nat /\ Len(q') = Len(q) + 1 /\ q'[Len(q')] = m
          /\ \A i \in 1 .. Len(q) : q'[i] = q[i]
          /\ q' # << >>
      BY <3>1, <3>2, AppendProperties
    <3>4. \A i \in 1 .. Len(q') - 1 : q'[i] # q'[i + 1]
      <4> SUFFICES ASSUME NEW i \in 1 .. Len(q) PROVE q'[i] # q'[i + 1]
        BY <3>3
      <4>1. CASE i < Len(q)  BY <3>3, <4>1 DEF MessagesAlternate
      <4>2. CASE i = Len(q)
        <5>1. q[i] = LastSent  BY <3>2, <4>2, EmptySeq DEF MessagesAlternate
        <5> QED BY <3>1, <3>3, <4>2, <5>1
      <4> QED BY <3>3, <4>1, <4>2
    <3>5. Decoding => q'[1] = "PAUSE"
      <4>1. CASE q = << >>
        BY <3>1, <3>3, <4>1 DEF MessagesAlternate
      <4>2. CASE q # << >>
        <5>1. 1 \in 1 .. Len(q)  BY <3>2, <4>2, EmptySeq
        <5> QED BY <3>3, <4>2, <5>1 DEF MessagesAlternate
      <4> QED BY <4>1, <4>2
    <3> QED BY <2>1, <3>1, <3>3, <3>4, <3>5 DEF MessagesAlternate
  <2>3. CASE PostMessage \/ PauseSync \/ WaitPauseDone \/ StartSync \/ Seek
    <3>1. decodeQueue' = decodeQueue /\ LastSent' = LastSent
      BY <2>3 DEF PostMessage, PauseSync, WaitPauseDone, StartSync, Seek, CStep, LastSent
    <3> QED BY <2>1, <3>1 DEF MessagesAlternate
  <2> QED BY <1>2, <2>2, <2>3 DEF Controller
<1> QED BY <1>1, <1>2

-----------------------------------------------------------------------------
(* The phases of a pause. *)
LEMMA SyncPhasesStep ==
  ASSUME Types, SyncPhases, Next
  PROVE  SyncPhases'
<1> USE DEF SyncPhases, InPlayAt, Ring!SyncPC, PausePC
<1>1. CASE DecodeThread
  <2>1. CASE FillRing  BY <2>1, FillRingEffect
  <2>2. CASE ~FillRing
    BY <1>1, <2>2 DEF DecodeThread, WaitForMessage, ParseMessage, FlushSlots, FlushIndexes,
       FlushDone, NextFrame, SetEof, AbandonSlot, controlVars, syncVars
  <2> QED BY <2>1, <2>2
<1>2. CASE ProcessMessages
  BY <1>2 DEF ProcessMessages, controlVars
<1>3. CASE WaitSync
  BY <1>3 DEF WaitSync, AtTop, controlVars
<1>4. CASE Playing
  BY <1>4, PlayingEffect
<1>5. CASE PlayRing
  BY <1>5, PlayRingEffect
<1>6. CASE PlayedToEnd
  BY <1>6 DEF PlayedToEnd, controlVars
<1>7. CASE CloseRing
  BY <1>7 DEF CloseRing, SStep, controlVars
<1>8. CASE PauseDecoding \/ PostMessage \/ Seek \/ StartDecoding \/ WaitPauseDone
  BY <1>8 DEF PauseDecoding, PostMessage, Seek, StartDecoding, WaitPauseDone, CStep,
     ControllerLeaves
<1>9. CASE PauseSync
  BY <1>9 DEF PauseSync, CStep, ControllerLeaves
<1>10. CASE StartSync
  <2>1. syncQueue \in Seq({"PAUSE", "START"})  BY DEF Types, TypeOK
  <2>2. syncQueue'[Len(syncQueue')] = "START"
    BY <1>10, <2>1, AppendProperties DEF StartSync
  <2> QED BY <1>10, <2>2 DEF StartSync, CStep, ControllerLeaves
<1> QED BY <1>1, <1>2, <1>3, <1>4, <1>5, <1>6, <1>7, <1>8, <1>9, <1>10
        DEF Next, SyncThread, Controller

-----------------------------------------------------------------------------
(* The ring between a pause and its restart: the decode thread. *)

(* A step that leaves the states of the other two threads alone and takes no *)
(* message keeps a restart pending or not, but for the end of its flush.     *)
LEMMA PendingSame ==
  ASSUME UNCHANGED <<cpc, pauseDone, spc, decodeQueue>>, Restarting' = Restarting
  PROVE  RestartPending' = RestartPending
BY DEF RestartPending, RingClosed, StartQueued

LEMMA RingDecode ==
  ASSUME Types, MessagesAlternate, SyncPhases, RingInvariant, DecodeThread
  PROVE  RingInvariant'
<1> USE DEF RingInvariant, DStep
<1>1. CASE ParseMessage
  <2>1. UNCHANGED <<filled, dontFill, syncState, cpc, pauseDone, spc>>
    BY <1>1 DEF ParseMessage, ringVars, ringHistory, syncVars, controlVars
  <2>2. CASE TakeMessage("idle") \/ TakeMessage("eofTest")
    <3> DEFINE q == decodeQueue
    <3>1. q \in Seq({"PAUSE", "START"}) /\ q # << >> /\ q' = Tail(q)
      BY <2>2 DEF TakeMessage, Types, TypeOK
    <3>2. /\ Head(q) = q[1] /\ q' \in Seq({"PAUSE", "START"})
          /\ Len(q) \in Nat \ {0} /\ Len(q') = Len(q) - 1
          /\ \A i \in 1 .. Len(q) - 1 : q'[i] = q[i + 1]
      BY <3>1, TailOfQueue
    <3>3. DOMAIN q = 1 .. Len(q) /\ DOMAIN q' = 1 .. Len(q) - 1
      BY <3>1, <3>2, LenProperties
    <3>4. dpc = "idle" => Head(q) = "PAUSE"
      BY <3>1, <3>2 DEF MessagesAlternate, Decoding, FlushPC
    <3>5. afterFlush' = (IF q[1] = "START" THEN "idle" ELSE "wait") /\ dpc' = "flushSlots"
      BY <1>1, <2>2, <3>2, <3>4 DEF ParseMessage, TakeMessage, NoMessage
    <3>6. StartQueued' => StartQueued
      BY <3>2, <3>3 DEF StartQueued
    <3>7. Restarting' => q[1] = "START"
      BY <3>5 DEF Restarting
    <3>8. q[1] = "START" => Restarting' /\ StartQueued
      BY <3>2, <3>3, <3>5 DEF Restarting, FlushPC, StartQueued
    <3>9. StartQueued /\ q[1] # "START" => StartQueued'
      <4> SUFFICES ASSUME NEW i \in 1 .. Len(q), q[i] = "START", q[1] # "START"
                   PROVE  \E j \in 1 .. Len(q) - 1 : q'[j] = "START"
        BY <3>3 DEF StartQueued
      <4>1. i - 1 \in 1 .. Len(q) - 1  BY <3>2
      <4>2. q'[i - 1] = q[i]  BY <3>2, <4>1
      <4> QED BY <4>1, <4>2
    <3>10. ~Restarting
      BY <1>1 DEF ParseMessage, Restarting, FlushPC
    <3>11. RestartPending' = RestartPending
      BY <2>1, <3>6, <3>7, <3>8, <3>9, <3>10 DEF RestartPending, RingClosed
    <3>12. NobodyFills'
      BY <3>5 DEF NobodyFills, FlushPC
    <3> QED BY <2>1, <3>5, <3>11, <3>12 DEF RingEmpty
  <2>3. CASE (NoMessage("wait") /\ dpc = "parse") \/ (NoMessage("eofTest") /\ dpc = "idle")
    <3>1. Restarting' = Restarting
      BY <2>3 DEF NoMessage, Restarting, FlushPC
    <3>2. RestartPending' = RestartPending
      BY <2>1, <2>3, <3>1, PendingSame DEF NoMessage
    <3>3. NobodyFills => NobodyFills'
      BY <2>3 DEF NoMessage, NobodyFills, FlushPC
    <3> QED BY <2>1, <2>3, <3>2, <3>3 DEF NoMessage, RingEmpty
  <2> QED BY <1>1, <2>2, <2>3 DEF ParseMessage
<1>2. CASE WaitForMessage \/ FlushSlots \/ FlushIndexes
  <2>1. UNCHANGED <<dontFill, syncState, cpc, pauseDone, spc, decodeQueue, afterFlush>>
    BY <1>2 DEF WaitForMessage, FlushSlots, FlushIndexes, ringVars, ringHistory, syncVars, controlVars
  <2>2. RestartPending' = RestartPending
    <3>1. Restarting' = Restarting
      BY <1>2 DEF WaitForMessage, FlushSlots, FlushIndexes, Restarting, FlushPC
    <3> QED BY <2>1, <3>1, PendingSame
  <2>3. NobodyFills'
    BY <1>2 DEF WaitForMessage, FlushSlots, FlushIndexes, NobodyFills, FlushPC
  <2>4. (RingEmpty => RingEmpty') /\ (dpc' \in {"flushIndexes", "flushDone"} => RingEmpty')
    BY <1>2 DEF WaitForMessage, FlushSlots, FlushIndexes, RingEmpty, ringVars, ringHistory
  <2> QED BY <2>1, <2>2, <2>3, <2>4
<1>3. CASE FlushDone
  <2>1. /\ UNCHANGED <<filled, syncState, cpc, pauseDone, spc, decodeQueue, afterFlush>>
        /\ dpc = "flushDone" /\ dpc' = afterFlush /\ ~dontFill'
    BY <1>3 DEF FlushDone, ringVars, ringHistory, syncVars, controlVars
  <2>2. RingEmpty'
    BY <2>1 DEF RingEmpty
  <2>3. dpc' \in {"wait", "idle"}
    BY <2>1 DEF MessagesAlternate, Types, TypeOK
  <2>4. ~Restarting'
    BY <2>3 DEF Restarting, FlushPC
  <2>5. RestartPending' => RestartPending
    BY <2>1, <2>4 DEF RestartPending, RingClosed, StartQueued
  <2>6. RestartPending' => NobodyFills'
    <3> SUFFICES ASSUME RestartPending', dpc' = "idle" PROVE decodeQueue' # << >>
      BY <2>3 DEF NobodyFills
    <3>1. CASE StartQueued'  BY <3>1 DEF StartQueued
    <3>2. CASE ~StartQueued'
      <4>1. cpc \in {"waitDone", "paused", "seek", "startDecoding"}
        BY <2>1, <2>4, <3>2 DEF RestartPending
      <4>2. LastSent = "PAUSE"
        BY <4>1 DEF LastSent
      <4>3. Decoding
        BY <2>1 DEF Decoding, Restarting, FlushPC
      <4> QED BY <2>1, <4>2, <4>3 DEF MessagesAlternate
    <3> QED BY <3>1, <3>2
  <2> QED BY <2>1, <2>2, <2>3, <2>5, <2>6
<1>4. CASE NextFrame \/ SetEof \/ AbandonSlot
  <2>1. UNCHANGED <<filled, dontFill, syncState, cpc, pauseDone, spc, decodeQueue, afterFlush>>
    BY <1>4 DEF NextFrame, SetEof, AbandonSlot, ringVars, ringHistory, syncVars, controlVars
  <2>2. ~NobodyFills /\ Restarting' = Restarting
    BY <1>4 DEF NextFrame, SetEof, AbandonSlot, NobodyFills, Restarting, FlushPC
  <2>3. dpc' \notin {"flushIndexes", "flushDone"}
    BY <1>4 DEF NextFrame, SetEof, AbandonSlot
  <2> QED BY <2>1, <2>2, <2>3, PendingSame
<1>5. CASE FillRing
  <2>1. UNCHANGED <<dontFill, syncState, cpc, pauseDone, spc, decodeQueue, afterFlush>>
    BY <1>5, FillRingEffect
  <2>2. ~NobodyFills /\ Restarting' = Restarting /\ dpc' \notin {"flushIndexes", "flushDone"}
    BY <1>5, FillRingEffect DEF NobodyFills, Restarting, FlushPC, Ring!DecodePC
  <2> QED BY <2>1, <2>2, PendingSame
<1> QED BY <1>1, <1>2, <1>3, <1>4, <1>5 DEF DecodeThread

(* The slot that is_ready looks at is a slot of the ring. *)
LEMMA ReadySlot ==
  ASSUME Types
  PROVE  (playIndex + (2 * MaxBuffers) \div 3) % MaxBuffers \in Ring!Slots
<1>1. MaxBuffers \in Nat \ {0} /\ playIndex \in Nat
  BY BuffersAssumption DEF Types, TypeOK, Ring!Slots
<1>2. (2 * MaxBuffers) \div 3 \in Nat
  BY <1>1
<1> DEFINE k == playIndex + (2 * MaxBuffers) \div 3
<1>3. k \in Nat
  BY <1>1, <1>2
<1> HIDE DEF k
<1>4. k % MaxBuffers \in 0 .. MaxBuffers - 1
  BY <1>1, <1>3, SMTT(30)
<1> QED BY <1>4 DEF k, Ring!Slots

(* The ring between a pause and its restart: the sync thread. *)
LEMMA RingSync ==
  ASSUME Types, SyncPhases, RingInvariant, SyncThread
  PROVE  RingInvariant'
<1> USE DEF RingInvariant
<1>0. UNCHANGED <<afterFlush, decodeQueue, cpc, dpc>>
  BY SyncThreadEffect
<1>1. NobodyFills' = NobodyFills /\ Restarting' = Restarting /\ StartQueued' = StartQueued
  BY <1>0 DEF NobodyFills, Restarting, StartQueued
<1>2. CASE ProcessMessages
  <2>1. UNCHANGED <<filled, dontFill, pauseDone>> /\ syncState' # "PLAYING"
    BY <1>2 DEF ProcessMessages, ringVars, ringHistory
  <2>2. RingClosed' = RingClosed
    BY <1>2 DEF ProcessMessages, RingClosed, PausePC
  <2> QED BY <1>0, <1>1, <2>1, <2>2 DEF RestartPending, RingEmpty
<1>3. CASE WaitSync
  <2>1. UNCHANGED <<filled, dontFill, pauseDone, spc>>
    BY <1>3 DEF WaitSync, ringVars, ringHistory
  <2>2. ~RestartPending
    BY <1>3, ReadySlot DEF WaitSync, IsReady, RingEmpty
  <2> QED BY <1>0, <1>1, <2>1, <2>2, PendingSame DEF RingEmpty
<1>4. CASE Playing
  <2>1. UNCHANGED <<filled, dontFill, pauseDone, syncState>> /\ spc = "out" /\ spc' = "test"
    BY <1>4, PlayingEffect
  <2>2. RingClosed' = RingClosed
    BY <2>1 DEF RingClosed, PausePC
  <2> QED BY <1>0, <1>1, <2>1, <2>2 DEF RestartPending, RingEmpty
<1>5. CASE PlayRing
  <2>1. UNCHANGED <<dontFill, pauseDone, syncState>> /\ (RingEmpty => RingEmpty')
    BY <1>5, PlayRingEffect DEF RingEmpty
  <2>2. RingClosed' = RingClosed
    BY <1>5, PlayRingEffect DEF RingClosed, PausePC, InPlayAt, Ring!SyncPC
  <2> QED BY <1>0, <1>1, <2>1, <2>2 DEF RestartPending
<1>6. CASE PlayedToEnd
  <2>1. UNCHANGED <<filled, dontFill, pauseDone, spc>> /\ syncState' # "PLAYING"
    BY <1>6 DEF PlayedToEnd, ringVars, ringHistory
  <2> QED BY <1>0, <1>1, <2>1, PendingSame DEF RingEmpty
<1>7. CASE CloseRing
  <2>1. UNCHANGED <<filled, syncState>>
    BY <1>7 DEF CloseRing, ringVars, ringHistory
  <2>2. syncState # "PLAYING" /\ cpc = "waitDone"
    BY <1>7 DEF CloseRing, SStep, SyncPhases, PausePC
  <2>3. CASE spc = "closeRing"
    <3>1. dontFill' /\ spc' = "clearEof"
      BY <1>7, <2>3 DEF CloseRing, SStep
    <3>2. RestartPending'
      BY <1>0, <2>2, <3>1 DEF RestartPending, RingClosed, PausePC
    <3> QED BY <1>0, <2>1, <2>2, <3>1, <3>2 DEF RingEmpty
  <2>4. CASE spc # "closeRing"
    <3>1. dontFill' = dontFill
      BY <1>7, <2>4 DEF CloseRing, SStep
    <3>2. RingClosed /\ RingClosed'
      BY <1>7, <2>4 DEF CloseRing, SStep, RingClosed, PausePC
    <3> QED BY <1>0, <1>1, <2>1, <2>2, <3>1, <3>2 DEF RestartPending, RingEmpty
  <2> QED BY <2>3, <2>4
<1> QED BY <1>2, <1>3, <1>4, <1>5, <1>6, <1>7 DEF SyncThread

(* The ring between a pause and its restart: the controller. *)
LEMMA RingController ==
  ASSUME Types, SyncPhases, RingInvariant, Controller
  PROVE  RingInvariant'
<1> USE DEF RingInvariant
<1>0. UNCHANGED <<filled, dontFill, dpc, afterFlush, spc, syncState>>
  BY DEF Controller, PauseDecoding, PostMessage, PauseSync, WaitPauseDone, StartSync, Seek,
     StartDecoding, ControllerLeaves, ringVars, ringHistory
<1>1. RingEmpty' = RingEmpty /\ Restarting' = Restarting
  BY <1>0 DEF RingEmpty, Restarting
<1>2. CASE PauseDecoding \/ StartDecoding
  <2> DEFINE q == decodeQueue
  <2>1. PICK m \in {"PAUSE", "START"} : q' = Append(q, m)
    BY <1>2 DEF PauseDecoding, StartDecoding
  <2>2. q \in Seq({"PAUSE", "START"})
    BY DEF Types, TypeOK
  <2>3. /\ Len(q) \in Nat /\ DOMAIN q = 1 .. Len(q) /\ DOMAIN q' = 1 .. Len(q) + 1
        /\ \A i \in 1 .. Len(q) : q'[i] = q[i]
        /\ q'[Len(q) + 1] = m /\ q' # << >>
    BY <2>1, <2>2, AppendProperties, LenProperties
  <2>4. NobodyFills => NobodyFills'
    BY <1>0, <2>3 DEF NobodyFills
  <2>5. pauseDone' = pauseDone
    BY <1>2 DEF PauseDecoding, StartDecoding
  <2>6. CASE PauseDecoding
    <3>1. m = "PAUSE" /\ cpc = "play" /\ cpc' = "postPause"
      BY <2>1, <2>2, <2>3, <2>6, AppendProperties DEF PauseDecoding, CStep
    <3>2. StartQueued' = StartQueued
      BY <2>3, <3>1 DEF StartQueued
    <3> QED BY <1>0, <1>1, <2>4, <3>1, <3>2 DEF RestartPending
  <2>7. CASE StartDecoding
    <3>1. m = "START" /\ cpc = "startDecoding"
      BY <2>1, <2>2, <2>3, <2>7, AppendProperties DEF StartDecoding, CStep
    <3>2. StartQueued'
      BY <2>3, <3>1 DEF StartQueued
    <3> QED BY <1>0, <1>1, <2>4, <3>1, <3>2 DEF RestartPending
  <2> QED BY <1>2, <2>6, <2>7
<1>3. CASE PauseSync
  <2>1. UNCHANGED decodeQueue /\ cpc = "pauseSync" /\ cpc' = "waitDone" /\ ~pauseDone'
    BY <1>3 DEF PauseSync, CStep
  <2>2. ~RingClosed'
    BY <1>0, <2>1 DEF RingClosed, SyncPhases
  <2> QED BY <1>0, <1>1, <2>1, <2>2 DEF RestartPending, StartQueued, NobodyFills
<1>4. CASE WaitPauseDone
  <2>1. /\ UNCHANGED decodeQueue /\ cpc = "waitDone" /\ cpc' = "paused"
        /\ pauseDone /\ UNCHANGED pauseDone
    BY <1>4 DEF WaitPauseDone, CStep
  <2> QED BY <1>0, <1>1, <2>1 DEF RestartPending, RingClosed, StartQueued, NobodyFills
<1>5. CASE PostMessage \/ StartSync \/ Seek
  <2>1. UNCHANGED <<decodeQueue, pauseDone>> /\ (RestartPending' <=> RestartPending)
    BY <1>0, <1>1, <1>5 DEF PostMessage, StartSync, Seek, CStep, RestartPending, RingClosed,
       StartQueued
  <2> QED BY <1>0, <1>1, <2>1 DEF NobodyFills
<1> QED BY <1>2, <1>3, <1>4, <1>5 DEF Controller

-----------------------------------------------------------------------------
(* The invariant is inductive. *)
LEMMA NextInv == PausePlayInv /\ [Next]_vars => PausePlayInv'
<1> SUFFICES ASSUME PausePlayInv, [Next]_vars PROVE PausePlayInv'
  OBVIOUS
<1> USE DEF PausePlayInv
<1>1. CASE DecodeThread
  <2>1. Types'  BY <1>1, FlushStepTypes, FillRingTypes DEF DecodeThread
  <2> QED BY <1>1, <2>1, TokensDecode, AlternateDecode, SyncPhasesStep, RingDecode DEF Next
<1>2. CASE SyncThread
  <2>1. Types'  BY <1>2, PlayRingTypes, SyncStepTypes DEF SyncThread
  <2> QED BY <1>2, <2>1, TokensOthers, AlternateOthers, SyncPhasesStep, RingSync DEF Next
<1>3. CASE Controller
  <2>1. Types'  BY <1>3, ControllerTypes
  <2> QED BY <1>3, <2>1, TokensOthers, AlternateOthers, SyncPhasesStep, RingController DEF Next
<1>4. CASE UNCHANGED vars
  BY <1>4 DEF vars, Ring!vars, Ring!ring, Ring!wakeup, Ring!history, decodeVars, syncVars,
     controlVars, Types, TypeOK, PlayAtTypes, TokensCoverMessages, Looks, WillLook, Dues,
     PostDue, MessagesAlternate, LastSent, Decoding, Restarting, SyncPhases, InPlayAt,
     RingInvariant, RingEmpty, NobodyFills, RestartPending, RingClosed, StartQueued
<1> QED BY <1>1, <1>2, <1>3, <1>4 DEF Next

(* The decode thread never sleeps for good with a message in its queue: the  *)
(* tokens in its semaphore, which have_buffer_to_fill takes as well, cover   *)
(* the messages not yet handled.                                             *)
THEOREM MessageCoverage == Spec => []NoMessageForgotten
<1>1. PausePlayInv => NoMessageForgotten
  <2> SUFFICES ASSUME PausePlayInv, dpc \in {"wait", "sleep"}, decodeSem = 0,
                      decodeQueue # << >>
               PROVE  cpc \in {"postPause", "postStart"} /\ Len(decodeQueue) = 1
    BY DEF NoMessageForgotten
  <2>1. Looks = 0  BY DEF Looks, WillLook
  <2>2. Len(decodeQueue) \in Nat \ {0}
    BY EmptySeq DEF PausePlayInv, Types, TypeOK
  <2>3. Len(decodeQueue) <= Dues
    BY <2>1 DEF PausePlayInv, TokensCoverMessages, Dues
  <2> QED BY <2>2, <2>3 DEF Dues, PostDue
<1> QED BY InitInv, NextInv, <1>1, PTL DEF Spec

(* A restarted session plays no frame from before the restart: from the      *)
(* moment its start message is queued the sync thread takes nothing out of   *)
(* the ring until the decode thread has flushed it.                          *)
THEOREM NothingStale == Spec => []NoStaleFramePlayed
<1>1. PausePlayInv => NoStaleFramePlayed
  BY DEF PausePlayInv, NoStaleFramePlayed, RingInvariant, RestartPending, StartQueued,
     SyncPhases, InPlayAt, Taking, Ring!SyncPC
<1> QED BY InitInv, NextInv, <1>1, PTL DEF Spec

(* flush_decode_buffers, run for a restart, never resets the indexes of the  *)
(* ring under a play_at that is using them, although no lock keeps the two   *)
(* threads apart.                                                            *)
THEOREM FlushIsExclusive == Spec => []RestartFlushIsExclusive
<1>1. PausePlayInv => RestartFlushIsExclusive
  BY DEF PausePlayInv, RestartFlushIsExclusive, RingInvariant, RestartPending, Restarting,
     SyncPhases, InPlayAt, Taking, Ring!SyncPC
<1> QED BY InitInv, NextInv, <1>1, PTL DEF Spec

(* The m_dont_fill of a pause does not outlive it: once the messages of a    *)
(* restart are handled, the ring takes frames again.                         *)
THEOREM RingReopens == Spec => []OpenAfterRestart
<1>1. PausePlayInv => OpenAfterRestart
  BY DEF PausePlayInv, OpenAfterRestart, RingInvariant, RestartPending, Restarting,
     StartQueued
<1> QED BY InitInv, NextInv, <1>1, PTL DEF Spec

-----------------------------------------------------------------------------
(* The ring as it is used: with two threads that flush it and a controller   *)
(* that may send a message at any moment.                                    *)

(* Whoever is about to write has a slot whose flag is down.                  *)
WriterHasFreeSlot == dpc = "write" => ~filled[fillIndex]

(* A frame is stored into slot i. *)
Stored(i) ==
  playThisAt'[i] # playThisAt[i] \/ content'[i] \notin {content[i], Ring!NoFrame}

(* Only the decode thread writes into the ring. *)
LEMMA WhoWrites ==
  ASSUME Types, Next, NEW i \in Ring!Slots, Stored(i)
  PROVE  dpc = "write" /\ dpc' # "write" /\ i = fillIndex
<1>0. playThisAt' # playThisAt \/ content' # content
  BY DEF Stored
<1>2. ~Ring!ClearSlot
  BY DEF Types, PlayAtTypes, Ring!ClearSlot, Ring!SStep
<1>1. Ring!WriteSlot \/ AbandonSlot
  BY <1>0, <1>2 DEF Next, DecodeThread, SyncThread, Controller, WaitForMessage, ParseMessage, FlushSlots,
     FlushIndexes, FlushDone, NextFrame, SetEof, FillRing, Ring!FillStep, Ring!CheckSlot,
     Ring!SetWaiting, Ring!Awake, Ring!RecheckSlot, Ring!RaiseFlag, ProcessMessages, WaitSync,
     Playing, Ring!CallPlayAt, PlayRing, Ring!PlayStep, Ring!TestSlot, Ring!TestEof,
     Ring!FreeSlot, Ring!AdvancePlayIndex, Ring!PeekNextSlot, Ring!Render,
     Ring!NotifyDecodeThread, Ring!PostDecodeSem, Ring!DecodeThreadUnchanged, PlayedToEnd,
     CloseRing, PauseDecoding, PostMessage, PauseSync, WaitPauseDone, StartSync, Seek,
     StartDecoding, ControllerLeaves, ringVars, ringHistory, Ring!ring
<1> QED BY <1>1 DEF Stored, Types, TypeOK, Ring!WriteSlot, AbandonSlot, DStep, Ring!DStep

(* The decode thread comes to its write by finding the flag down only.       *)
LEMMA WriterInductive ==
  ASSUME PausePlayInv, WriterHasFreeSlot, Next
  PROVE  WriterHasFreeSlot'
<1> SUFFICES ASSUME dpc' = "write" PROVE ~filled'[fillIndex']
  BY DEF WriterHasFreeSlot
<1>0. Types
  BY DEF PausePlayInv
<1>1. CASE FillRing
  <2>1. CASE Ring!CheckSlot \/ Ring!RecheckSlot
    <3> QED BY <2>1 DEF Ring!CheckSlot, Ring!RecheckSlot, Ring!DStep, Ring!ring
  <2>2. ~Ring!SetWaiting /\ ~Ring!Awake /\ ~Ring!WriteSlot /\ ~Ring!RaiseFlag
    BY DEF Ring!SetWaiting, Ring!Awake, Ring!WriteSlot, Ring!RaiseFlag, Ring!DStep
  <2> QED BY <1>1, <2>1, <2>2 DEF FillRing, Ring!FillStep
<1>2. CASE DecodeThread /\ ~FillRing
  BY <1>0, <1>2 DEF DecodeThread, WaitForMessage, ParseMessage, TakeMessage, NoMessage, FlushSlots,
     FlushIndexes, FlushDone, NextFrame, SetEof, AbandonSlot, DStep, Types, TypeOK
<1>3. CASE PlayRing
  <2>0. ~Ring!ClearSlot
    BY <1>0 DEF Types, PlayAtTypes, Ring!ClearSlot, Ring!SStep
  <2>1. /\ dpc' = dpc /\ UNCHANGED fillIndex
        /\ \A i \in Ring!Slots : filled'[i] => filled[i]
    BY <2>0, <1>0, <1>3, PlayRingEffect DEF PlayRing, Ring!PlayStep, Ring!TestSlot, Ring!TestEof,
       Ring!FreeSlot, Ring!AdvancePlayIndex, Ring!PeekNextSlot, Ring!Render,
       Ring!NotifyDecodeThread, Ring!PostDecodeSem, Ring!DecodeThreadUnchanged, Ring!ring
  <2> QED BY <1>0, <2>1 DEF WriterHasFreeSlot, Types, TypeOK
<1>4. CASE (SyncThread /\ ~PlayRing) \/ Controller
  <2>1. UNCHANGED <<filled, fillIndex, dpc>>
    BY <1>4 DEF SyncThread, Controller, ProcessMessages, WaitSync, Playing, Ring!CallPlayAt,
       PlayedToEnd, CloseRing, PauseDecoding, PostMessage, PauseSync, WaitPauseDone, StartSync,
       Seek, StartDecoding, ControllerLeaves, ringVars, ringHistory, decodeVars, Ring!ring
  <2> QED BY <2>1 DEF WriterHasFreeSlot
<1> QED BY <1>1, <1>2, <1>3, <1>4 DEF Next

(* No pause, message or restart makes the decode thread store into a slot    *)
(* the frame of which is still to be played: have_buffer_to_fill may be left *)
(* for any of them, and the flush of a restart moves m_fill_index, but never *)
(* between the test of a flag and the store.                                 *)
THEOREM NotOverwrittenByRestarts == Spec => Ring!FramesNotOverwritten
<1>1. Init => WriterHasFreeSlot
  BY DEF Init, WriterHasFreeSlot
<1>2. PausePlayInv /\ WriterHasFreeSlot /\ [Next]_vars => WriterHasFreeSlot'
  <2>1. CASE Next  BY <2>1, WriterInductive
  <2>2. CASE UNCHANGED vars
    BY <2>2 DEF vars, Ring!vars, Ring!ring, decodeVars, WriterHasFreeSlot
  <2> QED BY <2>1, <2>2
<1>3. PausePlayInv /\ WriterHasFreeSlot /\ [Next]_vars =>
        [\A i \in Ring!Slots : Stored(i) => ~filled[i]]_(Ring!vars)
  <2> SUFFICES ASSUME PausePlayInv, WriterHasFreeSlot, [Next]_vars, NEW i \in Ring!Slots,
                      Stored(i)
               PROVE  ~filled[i]
    OBVIOUS
  <2>1. Next
    BY DEF Stored, vars, Ring!vars, Ring!ring
  <2> QED BY <2>1, WhoWrites DEF PausePlayInv, WriterHasFreeSlot
<1> QED BY <1>1, <1>2, <1>3, InitInv, NextInv, PTL DEF Spec, Stored, Ring!FramesNotOverwritten
=============================================================================
