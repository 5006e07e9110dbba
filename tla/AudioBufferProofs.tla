-------------------------- MODULE AudioBufferProofs --------------------------
(***************************************************************************)
(* Proofs about the ring of audio samples, for every size of the ring, of  *)
(* a frame and of what a callback asks for, every stream, and any number of*)
(* pauses and drift corrections: the types, the order of the sound in the  *)
(* ring (RingInv), the time of the sound that is heard (Protocol, TimeInv  *)
(* and ClockInv), who wakes the decode thread (SleepInv) and when the      *)
(* session ends (EofTells).                                                *)
(***************************************************************************)
EXTENDS AudioBuffer, SequenceTheorems, TLAPS

-----------------------------------------------------------------------------
(* The inductive invariant. *)

GhostTypes ==
  ghost \in [lost : BOOLEAN, early : BOOLEAN, missed : BOOLEAN, stale : BOOLEAN,
             lateEof : BOOLEAN, broken : BOOLEAN, start : Int, due : Int, clock : Int,
             adjusts : Nat]

(* What check_for_bytes has found room for is still there when it is filled, *)
(* because nobody else fills; a frame with a resync has no silence; and the  *)
(* waits are counted from 0 for each frame.                                  *)
RoomKept ==
  /\ dec.pc = "silence" => buf.filled + ToInsert <= RingSize
  /\ dec.pc = "frame" => buf.filled + FrameSize <= RingSize
  /\ dec.need => dec.silence = 0
  /\ dec.pc \in {"wait", "top", "read", "load", "pending"} => dec.tries = 0
  /\ dec.pc = "room" => dec.tries < WaitLimit

Types == TypeOK /\ GhostTypes /\ RoomKept

(* The place of a resync that is pending holds sound that waits. *)
ResyncWaits == buf.resync => \E d \in 0 .. buf.filled - 1 : Place(d) = buf.resyncAt

Loading == dec.pc \in {"pending", "room", "fail", "announce", "asleep", "silence"}

LastTime == TimeAt(Place(buf.filled - 1))

(* What will be filled next continues the sound that waits, unless it comes  *)
(* with a resync.                                                            *)
NextFollows ==
  /\ dec.pc # "frame" /\ buf.filled > 0 => buf.firstFilled /\ LastTime + 1 = buf.next
  /\ Loading /\ ~dec.need /\ (buf.filled > 0 \/ dec.silence > 0) =>
       dec.frame = buf.next + dec.silence
  /\ dec.pc = "frame" /\ ~dec.need /\ buf.filled > 0 => LastTime + 1 = dec.frame

RingInv ==
  /\ Types
  /\ OffsetsAgree
  /\ crash => ghost.lost
  /\ ghost.lost \/ (NoJump /\ ResyncWaits)
  /\ NextFollows

-----------------------------------------------------------------------------
(* Wrapping, without the remainder. *)
LEMMA WrapIs ==
  ASSUME NEW k \in Int, 0 - RingSize <= k, k <= 2 * RingSize
  PROVE  Wrap(k) = IF k < 0 THEN k + RingSize
                   ELSE IF k < RingSize THEN k
                   ELSE IF k < 2 * RingSize THEN k - RingSize ELSE 0
BY SizesAssumption, SMTT(30) DEF Wrap

LEMMA WrapInRing ==
  ASSUME NEW k \in Int, 0 - RingSize <= k, k <= 2 * RingSize
  PROVE  Wrap(k) \in 0 .. RingSize - 1
BY WrapIs, SizesAssumption

-----------------------------------------------------------------------------
(* Types. *)
LEMMA DecodePCs ==
  /\ "wait" \in DecodePC /\ "top" \in DecodePC /\ "read" \in DecodePC /\ "load" \in DecodePC
  /\ "pending" \in DecodePC /\ "room" \in DecodePC /\ "fail" \in DecodePC
  /\ "announce" \in DecodePC /\ "asleep" \in DecodePC /\ "silence" \in DecodePC
  /\ "frame" \in DecodePC
BY DEF DecodePC

(* The smallest values of the ranges. *)
LEMMA Zeros ==
  /\ 0 \in 0 .. RingSize - 1 /\ 0 \in 0 .. RingSize /\ 0 \in 0 .. SilenceLimit
  /\ 0 \in 0 .. WaitLimit /\ 0 \in 0 .. OutSize /\ 0 \in 0 .. MaxPauses
  /\ RingSize \in Nat /\ FrameSize \in Nat /\ SilenceLimit \in Nat /\ WaitLimit \in Nat
  /\ OutSize \in Nat
BY SizesAssumption, StreamsAssumption

(* What the types say of the single members. *)
LEMMA Members ==
  ASSUME Types
  PROVE  /\ buf.fill \in 0 .. RingSize - 1 /\ buf.play \in 0 .. RingSize
         /\ buf.filled \in 0 .. RingSize /\ buf.resyncAt \in 0 .. RingSize - 1
         /\ buf.next \in Nat /\ buf.firstTs \in Nat /\ buf.resyncTs \in Nat
         /\ buf.resync \in BOOLEAN /\ buf.firstFilled \in BOOLEAN
         /\ dec.pos \in Nat \ {0} /\ dec.frame \in Nat /\ dec.silence \in 0 .. SilenceLimit
         /\ dec.need \in BOOLEAN /\ dec.tries \in 0 .. WaitLimit
         /\ cb.len \in 0 .. OutSize
BY DEF Types, TypeOK, Buffer, Decoder, Callback

LEMMA FlagMembers ==
  ASSUME Types
  PROVE  /\ flag.dontFill \in BOOLEAN /\ flag.waiting \in BOOLEAN /\ flag.paused \in BOOLEAN
         /\ flag.firstCall \in BOOLEAN /\ flag.running \in BOOLEAN
         /\ flag.awaited \in BOOLEAN /\ flag.eof \in BOOLEAN
BY DEF Types, TypeOK, Flags

LEMMA GhostMembers ==
  ASSUME Types
  PROVE  /\ ghost.lost \in BOOLEAN /\ ghost.early \in BOOLEAN /\ ghost.missed \in BOOLEAN
         /\ ghost.stale \in BOOLEAN /\ ghost.broken \in BOOLEAN
         /\ ghost.start \in Int /\ ghost.due \in Int /\ ghost.clock \in Int
         /\ ghost.adjusts \in Nat
BY DEF Types, GhostTypes

LEMMA InitTypes == Init => Types
<1> SUFFICES ASSUME Init PROVE Types
  OBVIOUS
<1>1. stream \in Streams /\ crash \in BOOLEAN /\ sem \in Nat
  BY DEF Init
<1>2. ring \in [0 .. RingSize - 1 -> Int]  BY DEF Init
<1>3. buf \in Buffer  BY Zeros DEF Init, Buffer
<1>4. flag \in Flags  BY DEF Init, Flags
<1>5. dec \in Decoder  BY Zeros, DecodePCs DEF Init, Decoder
<1>6. cb \in Callback  BY Zeros DEF Init, Callback, CallbackPC
<1>7. sync \in Sync  BY DEF Init, Sync, SyncPC, SyncState
<1>8. ctl \in Control  BY Zeros DEF Init, Control, ControlPC
<1>9. GhostTypes  BY DEF Init, GhostTypes, None
<1>10. RoomKept  BY SizesAssumption DEF Init, RoomKept
<1> QED BY <1>1, <1>2, <1>3, <1>4, <1>5, <1>6, <1>7, <1>8, <1>9, <1>10 DEF Types, TypeOK

(* A sound written into the ring keeps it a ring of numbers. *)
LEMMA WrittenType ==
  ASSUME ring \in [0 .. RingSize - 1 -> Int], NEW sound, \A j \in DOMAIN sound : sound[j] \in Int
  PROVE  Written(sound) \in [0 .. RingSize - 1 -> Int]
BY DEF Written

LEMMA FilledType ==
  ASSUME Types, NEW n \in Nat, buf.filled + n <= RingSize
  PROVE  Filled(n) \in Buffer
<1>1. buf.fill + n \in Int /\ 0 - RingSize <= buf.fill + n /\ buf.fill + n <= 2 * RingSize
  BY Members, Zeros
<1>2. Wrap(buf.fill + n) \in 0 .. RingSize - 1
  BY <1>1, WrapInRing
<1>3. buf.filled + n \in 0 .. RingSize
  BY Members, Zeros
<1>4. buf \in Buffer
  BY DEF Types, TypeOK
<1> QED BY <1>2, <1>3, <1>4 DEF Filled, Buffer

LEMMA ParseTypes == Types /\ ParseMessage => Types'
<1> SUFFICES ASSUME Types, ParseMessage PROVE Types'
  OBVIOUS
<1>1. buf' \in Buffer
  BY Zeros DEF ParseMessage, FlushDecodeBuffers, Types, TypeOK, Buffer
<1>2. flag' \in Flags
  BY DEF ParseMessage, FlushDecodeBuffers, Types, TypeOK, Flags
<1>3. dec' \in Decoder
  BY DecodePCs DEF ParseMessage, Types, TypeOK, Decoder
<1>4. ctl' \in Control
  <2>1. ctl \in Control /\ ctl.queue \in Seq({"START", "PAUSE"}) /\ ctl.queue # << >>
    BY DEF ParseMessage, Types, TypeOK, Control
  <2>2. Tail(ctl.queue) \in Seq({"START", "PAUSE"})
    BY <2>1, HeadTailProperties
  <2> QED BY <2>1, <2>2 DEF ParseMessage, Control
<1>5. GhostTypes'
  <2>1. ghost' = [Silent EXCEPT !.lost = buf.resync, !.early = FALSE, !.stale = FALSE]
    BY DEF ParseMessage
  <2>2. None \in Int  BY DEF None
  <2>3. Silent \in [lost : BOOLEAN, early : BOOLEAN, missed : BOOLEAN, stale : BOOLEAN,
                    lateEof : BOOLEAN, broken : BOOLEAN, start : Int, due : Int, clock : Int,
                    adjusts : Nat]
    BY <2>2 DEF Silent, Types, GhostTypes
  <2> HIDE DEF Silent
  <2> QED BY <2>1, <2>3, Members DEF GhostTypes
<1>6. RoomKept'
  <2>1. dec.pc \in {"wait", "top"} /\ dec'.pc \in {"wait", "top"}
    BY DEF ParseMessage, Types, TypeOK, Decoder
  <2>2. dec'.tries = dec.tries /\ dec'.need = dec.need /\ dec'.silence = dec.silence
    BY DEF ParseMessage, Types, TypeOK, Decoder
  <2> QED BY <2>1, <2>2 DEF Types, RoomKept
<1>7. UNCHANGED <<stream, ring, sem, cb, sync, crash>>
  BY DEF ParseMessage
<1> QED BY <1>1, <1>2, <1>3, <1>4, <1>5, <1>6, <1>7 DEF Types, TypeOK

(* The steps of the decode thread that only move it on. *)
LEMMA LoadTypes ==
  ASSUME Types, NextFrame \/ LoadFrame \/ AwaitResync \/ CheckForBytes \/ GiveUp \/ Announce \/ Awake
  PROVE  Types'
<1>1. dec \in Decoder /\ flag \in Flags /\ sem \in Nat
  BY DEF Types, TypeOK
<1>2. flag' \in Flags /\ sem' \in Nat
  <2>1. CASE NextFrame    BY <1>1, <2>1 DEF NextFrame, Flags
  <2>2. CASE Announce     BY <1>1, <2>2 DEF Announce, Flags
  <2>3. CASE Awake
    <3>1. flag' \in Flags  BY <1>1, <2>3 DEF Awake, Flags
    <3>2. sem' \in Nat     BY <1>1, <2>3 DEF Awake
    <3> QED BY <3>1, <3>2
  <2>4. CASE ~(NextFrame \/ Announce \/ Awake)
    BY <1>1, <2>4 DEF LoadFrame, AwaitResync, CheckForBytes, GiveUp
  <2> QED BY <2>1, <2>2, <2>3, <2>4
<1>3. GhostTypes'
  <2>1. flag.dontFill \in BOOLEAN  BY <1>1 DEF Flags
  <2>2. \/ ghost' = ghost \/ ghost' = [ghost EXCEPT !.missed = FALSE]
        \/ ghost' = [ghost EXCEPT !.lateEof = flag.dontFill]
    BY DEF NextFrame, LoadFrame, AwaitResync, CheckForBytes, GiveUp, Announce, Awake
  <2> QED BY <2>1, <2>2 DEF Types, GhostTypes
<1>4. UNCHANGED <<stream, ring, buf, cb, sync, ctl, crash>>
  BY DEF NextFrame, LoadFrame, AwaitResync, CheckForBytes, GiveUp, Announce, Awake
<1>5. dec' \in Decoder /\ RoomKept'
  <2>1. CASE NextFrame
    <3>0. Len(stream) \in Nat /\ dec.pos \in Nat
      BY <1>1, StreamsAssumption, Members DEF Types, TypeOK
    <3>1. CASE ~(dec.pc = "read" /\ dec.pos <= Len(stream))
      <4>1. /\ dec' = [dec EXCEPT !.pc = "read"] \/ dec' = [dec EXCEPT !.pc = "wait"]
            /\ dec.pc \in {"top", "read"}
        BY <2>1, <3>0, <3>1 DEF NextFrame, DStep
      <4>2. dec' \in Decoder  BY <1>1, <4>1, DecodePCs DEF Decoder
      <4> QED BY <1>1, <4>1, <4>2 DEF RoomKept, Types, Decoder
    <3>2. CASE dec.pc = "read" /\ dec.pos <= Len(stream)
      <4>1. /\ dec' = [dec EXCEPT !.pc = "load", !.frame = stream[dec.pos], !.pos = dec.pos + 1]
            /\ dec.pc = "read" /\ dec.pos \in 1 .. Len(stream)
        BY <2>1, <3>0, <3>2, Members DEF NextFrame, DStep
      <4>2. stream[dec.pos] \in Nat
        <5>1. stream \in Seq(Nat \ {0})  BY StreamsAssumption DEF Types, TypeOK
        <5> QED BY <4>1, <5>1, ElementOfSeq
      <4>3. dec.pos + 1 \in Nat \ {0}  BY Members
      <4>4. dec' \in Decoder  BY <1>1, <4>1, <4>2, <4>3, DecodePCs DEF Decoder
      <4> QED BY <1>1, <4>1, <4>4 DEF RoomKept, Types, Decoder
    <3> QED BY <3>1, <3>2
  <2>2. CASE LoadFrame
    <3>0. dec.pc = "load" /\ dec.tries = 0 /\ 0 < WaitLimit
      BY <2>2, SizesAssumption DEF LoadFrame, Types, RoomKept
    <3>1. CASE flag.dontFill
      <4>1. dec' = FrameDone  BY <2>2, <3>1 DEF LoadFrame
      <4>2. dec' \in Decoder  BY <1>1, <4>1, DecodePCs, Zeros DEF FrameDone, Decoder
      <4> QED BY <1>1, <4>1, <4>2 DEF RoomKept, FrameDone, Decoder
    <3>2. CASE ~flag.dontFill
      <4> DEFINE need == buf.firstFilled /\ Gap \notin 0 .. SilenceLimit
                 pc == IF need THEN "pending" ELSE "room"
                 silence == IF buf.firstFilled /\ ~need THEN Gap ELSE 0
      <4>1. dec' = [dec EXCEPT !.pc = pc, !.need = need, !.silence = silence]
        BY <2>2, <3>2 DEF LoadFrame
      <4>2. need \in BOOLEAN /\ pc \in DecodePC /\ silence \in 0 .. SilenceLimit
        BY Members, DecodePCs, Zeros
      <4>3. (need => silence = 0) /\ pc \in {"pending", "room"}
        BY Members
      <4> HIDE DEF need, pc, silence
      <4>4. dec' \in Decoder  BY <1>1, <4>1, <4>2 DEF Decoder
      <4>5. dec'.pc = pc /\ dec'.need = need /\ dec'.silence = silence /\ dec'.tries = dec.tries
        BY <1>1, <4>1 DEF Decoder
      <4> QED BY <3>0, <4>3, <4>4, <4>5 DEF RoomKept
    <3> QED BY <3>1, <3>2
  <2>3. CASE AwaitResync
    <3>1. CASE buf.resync
      <4>1. dec' = [dec EXCEPT !.pc = "announce"]
        BY <2>3, <3>1 DEF AwaitResync, DStep
      <4>2. dec' \in Decoder  BY <1>1, <4>1, DecodePCs DEF Decoder
      <4> QED BY <1>1, <4>1, <4>2 DEF RoomKept, Types, Decoder
    <3>2. CASE ~buf.resync
      <4>1. dec' = [dec EXCEPT !.pc = "room"] /\ dec.pc = "pending"
        BY <2>3, <3>2 DEF AwaitResync, DStep
      <4>2. dec' \in Decoder  BY <1>1, <4>1, DecodePCs DEF Decoder
      <4> QED BY <1>1, <4>1, <4>2, SizesAssumption DEF RoomKept, Types, Decoder
    <3> QED BY <3>1, <3>2
  <2>4. CASE CheckForBytes
    <3>0. dec.pc = "room" /\ dec.tries < WaitLimit /\ (dec.need => dec.silence = 0)
      BY <2>4 DEF CheckForBytes, Types, RoomKept
    <3>1. CASE flag.dontFill
      <4>1. dec' = [dec EXCEPT !.pc = "fail"]  BY <2>4, <3>1 DEF CheckForBytes
      <4>2. dec' \in Decoder  BY <1>1, <4>1, DecodePCs DEF Decoder
      <4> QED BY <1>1, <3>0, <4>1, <4>2 DEF RoomKept, Decoder
    <3>2. CASE ~flag.dontFill /\ RingSize - buf.filled >= ToInsert
      <4>1. dec' = [dec EXCEPT !.pc = "silence"]  BY <2>4, <3>2 DEF CheckForBytes
      <4>2. dec' \in Decoder  BY <1>1, <4>1, DecodePCs DEF Decoder
      <4>3. dec'.silence = dec.silence /\ dec'.need = dec.need /\ dec'.pc = "silence"
        BY <1>1, <4>1 DEF Decoder
      <4>4. buf.filled + (FrameSize + dec.silence) <= RingSize
        BY <3>2, Members, Zeros DEF ToInsert
      <4> QED BY <1>4, <3>0, <4>2, <4>3, <4>4 DEF RoomKept, ToInsert
    <3>3. CASE ~flag.dontFill /\ ~(RingSize - buf.filled >= ToInsert)
      <4>1. dec' = [dec EXCEPT !.pc = "announce", !.tries = dec.tries + 1]
        BY <2>4, <3>3 DEF CheckForBytes
      <4>2. dec.tries + 1 \in 0 .. WaitLimit  BY <3>0, Members, Zeros
      <4>3. dec' \in Decoder  BY <1>1, <4>1, <4>2, DecodePCs DEF Decoder
      <4> QED BY <1>1, <3>0, <4>1, <4>3 DEF RoomKept, Decoder
    <3> QED BY <3>1, <3>2, <3>3
  <2>5. CASE GiveUp
    <3>1. CASE dec.silence = 0
      <4>1. dec' = FrameDone  BY <2>5, <3>1 DEF GiveUp
      <4>2. dec' \in Decoder  BY <1>1, <4>1, DecodePCs, Zeros DEF FrameDone, Decoder
      <4> QED BY <1>1, <4>1, <4>2 DEF RoomKept, FrameDone, Decoder
    <3>2. CASE dec.silence # 0
      <4>1. dec' = [dec EXCEPT !.pc = "room", !.silence = 0, !.need = TRUE, !.tries = 0]
        BY <2>5, <3>2 DEF GiveUp
      <4>2. dec' \in Decoder  BY <1>1, <4>1, DecodePCs, Zeros DEF Decoder
      <4> QED BY <1>1, <4>1, <4>2, SizesAssumption DEF RoomKept, Decoder
    <3> QED BY <3>1, <3>2
  <2>6. CASE Announce
    <3>1. dec' = [dec EXCEPT !.pc = "asleep"]  BY <2>6 DEF Announce, DStep
    <3>2. dec' \in Decoder  BY <1>1, <3>1, DecodePCs DEF Decoder
    <3> QED BY <1>1, <3>1, <3>2 DEF RoomKept, Types, Decoder
  <2>7. CASE Awake
    <3>1. CASE dec.tries = WaitLimit
      <4>1. dec' = [dec EXCEPT !.pc = "fail"]  BY <2>7, <3>1 DEF Awake, DStep
      <4>2. dec' \in Decoder  BY <1>1, <4>1, DecodePCs DEF Decoder
      <4> QED BY <1>1, <4>1, <4>2 DEF RoomKept, Types, Decoder
    <3>2. CASE dec.tries # WaitLimit
      <4>1. dec' = [dec EXCEPT !.pc = "room"]  BY <2>7, <3>2 DEF Awake, DStep
      <4>2. dec' \in Decoder  BY <1>1, <4>1, DecodePCs DEF Decoder
      <4>3. dec.tries < WaitLimit  BY <3>2, Members, Zeros
      <4> QED BY <1>1, <4>1, <4>2, <4>3 DEF RoomKept, Types, Decoder
    <3> QED BY <3>1, <3>2
  <2> QED BY <2>1, <2>2, <2>3, <2>4, <2>5, <2>6, <2>7
<1> QED BY <1>2, <1>3, <1>4, <1>5 DEF Types, TypeOK

LEMMA FillTypes ==
  ASSUME Types, FillSilence \/ FillFrame
  PROVE  Types'
<1>1. dec \in Decoder /\ buf \in Buffer /\ ring \in [0 .. RingSize - 1 -> Int]
  BY DEF Types, TypeOK
<1>2. CASE FillSilence
  <2>1. dec.silence \in Nat /\ buf.filled + (FrameSize + dec.silence) <= RingSize
    BY <1>2, Members DEF Types, RoomKept, FillSilence, DStep, ToInsert
  <2>2. buf' \in Buffer
    <3>1. buf.filled + dec.silence <= RingSize  BY <2>1, Members, Zeros
    <3> QED BY <1>2, <2>1, <3>1, FilledType DEF FillSilence
  <2>3. ring' \in [0 .. RingSize - 1 -> Int]
    <3> DEFINE sound == [j \in 0 .. dec.silence - 1 |-> -(buf.next + j)]
    <3>1. \A j \in DOMAIN sound : sound[j] \in Int  BY <2>1, Members
    <3>2. ring' = Written(sound)  BY <1>2 DEF FillSilence
    <3> HIDE DEF sound
    <3> QED BY <1>1, <3>1, <3>2, WrittenType
  <2>4. dec' = [dec EXCEPT !.pc = "frame"]  BY <1>2 DEF FillSilence, DStep
  <2>5. dec' \in Decoder  BY <1>1, <2>4, DecodePCs DEF Decoder
  <2>6. dec'.pc = "frame" /\ dec'.need = dec.need /\ dec'.silence = dec.silence
    BY <1>1, <2>4 DEF Decoder
  <2>7. buf'.filled = buf.filled + dec.silence
    BY <1>1, <1>2 DEF FillSilence, Filled, Buffer
  <2>8. RoomKept'
    BY <2>1, <2>6, <2>7, Members, Zeros DEF RoomKept, Types
  <2>9. UNCHANGED <<stream, flag, sem, cb, sync, ctl, crash>>
    BY <1>2 DEF FillSilence
  <2>10. GhostTypes'
    <3> DEFINE early == ghost.early \/ (dec.silence > 0 /\ ~buf.firstFilled)
    <3>1. ghost' = [ghost EXCEPT !.early = early]
      BY <1>2 DEF FillSilence
    <3>2. early \in BOOLEAN
      BY GhostMembers, Members
    <3> HIDE DEF early
    <3> QED BY <3>1, <3>2 DEF Types, GhostTypes
  <2> QED BY <2>2, <2>3, <2>5, <2>8, <2>9, <2>10 DEF Types, TypeOK
<1>3. CASE FillFrame
  <2>1. buf.filled + FrameSize <= RingSize
    BY <1>3 DEF Types, RoomKept, FillFrame
  <2>2. buf' \in Buffer
    <3> DEFINE b == Filled(FrameSize)
    <3>1. b \in Buffer  BY <2>1, Zeros, FilledType
    <3> DEFINE resync == b.resync \/ dec.need
               resyncAt == IF dec.need THEN buf.fill ELSE b.resyncAt
               resyncTs == IF dec.need THEN dec.frame ELSE b.resyncTs
               firstTs == IF dec.need \/ ~buf.firstFilled THEN dec.frame ELSE b.firstTs
               next == dec.frame + FrameSize
    <3>2. buf' = [b EXCEPT !.resync = resync, !.resyncAt = resyncAt, !.resyncTs = resyncTs,
                           !.firstTs = firstTs, !.firstFilled = TRUE, !.next = next]
      BY <1>3 DEF FillFrame
    <3> HIDE DEF b
    <3>3. b.resync \in BOOLEAN /\ b.resyncAt \in 0 .. RingSize - 1 /\ b.resyncTs \in Nat
          /\ b.firstTs \in Nat
      BY <3>1 DEF Buffer
    <3>4. /\ resync \in BOOLEAN /\ resyncAt \in 0 .. RingSize - 1 /\ resyncTs \in Nat
          /\ firstTs \in Nat /\ next \in Nat
      BY <3>3, Members, Zeros
    <3> HIDE DEF resync, resyncAt, resyncTs, firstTs, next
    <3> QED BY <3>1, <3>2, <3>4 DEF Buffer
  <2>3. ring' \in [0 .. RingSize - 1 -> Int]
    <3> DEFINE sound == [j \in 0 .. FrameSize - 1 |-> dec.frame + j]
    <3>1. \A j \in DOMAIN sound : sound[j] \in Int  BY Members
    <3>2. ring' = Written(sound)  BY <1>3 DEF FillFrame
    <3> HIDE DEF sound
    <3> QED BY <1>1, <3>1, <3>2, WrittenType
  <2>4. dec' = FrameDone  BY <1>3 DEF FillFrame
  <2>5. dec' \in Decoder  BY <1>1, <2>4, DecodePCs, Zeros DEF FrameDone, Decoder
  <2>6. RoomKept'  BY <1>1, <2>4 DEF FrameDone, Decoder, RoomKept
  <2>7. GhostTypes'
    <3> DEFINE lost == ghost.lost \/ (dec.need /\ buf.resync)
               early == ghost.early \/ (dec.need /\ flag.firstCall)
    <3>1. ghost' = [ghost EXCEPT !.lost = lost, !.early = early]
      BY <1>3 DEF FillFrame
    <3>2. lost \in BOOLEAN /\ early \in BOOLEAN
      BY GhostMembers, Members, FlagMembers
    <3> HIDE DEF lost, early
    <3> QED BY <3>1, <3>2 DEF Types, GhostTypes
  <2>8. UNCHANGED <<stream, flag, sem, cb, sync, ctl, crash>>
    BY <1>3 DEF FillFrame
  <2> QED BY <2>2, <2>3, <2>5, <2>6, <2>7, <2>8 DEF Types, TypeOK
<1> QED BY <1>2, <1>3

LEMMA CallbackPCs ==
  /\ "idle" \in CallbackPC /\ "called" \in CallbackPC /\ "copy" \in CallbackPC
  /\ "underrun" \in CallbackPC /\ "resync" \in CallbackPC /\ "report" \in CallbackPC
  /\ "done" \in CallbackPC /\ "post" \in CallbackPC
BY DEF CallbackPC

LEMMA SyncPCs ==
  /\ "top" \in SyncPC /\ "start" \in SyncPC /\ "post" \in SyncPC /\ "done" \in SyncPC
  /\ "WAIT_SYNC" \in SyncState /\ "WAIT_AUDIO" \in SyncState /\ "PLAYING" \in SyncState
  /\ "PAUSED" \in SyncState /\ "DONE" \in SyncState
BY DEF SyncPC, SyncState

LEMMA ControlPCs ==
  /\ "playing" \in ControlPC /\ "pauseSync" \in ControlPC /\ "waitDone" \in ControlPC
  /\ "paused" \in ControlPC /\ "move" \in ControlPC /\ "startDecoding" \in ControlPC
BY DEF ControlPC

(* The room that has been found stays: other threads only take from the ring. *)
LEMMA RoomStays ==
  ASSUME Types, UNCHANGED dec, buf'.filled \in 0 .. buf.filled
  PROVE  RoomKept'
BY Members, Zeros DEF Types, RoomKept, ToInsert

LEMMA DecodedRange ==
  ASSUME Types
  PROVE  /\ Decoded \in Nat /\ buf.play + Decoded <= RingSize
         /\ Chunk \in Nat /\ Chunk <= Decoded /\ Chunk <= cb.len
         /\ buf.play + Chunk <= RingSize
<1>1. Decoded \in Nat /\ buf.play + Decoded <= RingSize
  BY Members, Zeros DEF Decoded
<1> QED BY <1>1, Members, Zeros DEF Chunk

LEMMA CallbackTypes ==
  ASSUME Types, AudioCallback
  PROVE  Types'
<1>1. /\ dec \in Decoder /\ buf \in Buffer /\ flag \in Flags /\ cb \in Callback
      /\ ring \in [0 .. RingSize - 1 -> Int] /\ sem \in Nat /\ crash \in BOOLEAN
  BY DEF Types, TypeOK
<1>2. UNCHANGED <<stream, ring, dec, sync, ctl>>
  BY DEF AudioCallback, CallBack, CallEmpty, EnterCallback, CopyOut, Underrun, StopForResync,
     ReportReady, CallbackDone, CallbackPost
<1>3. Stopped \in Flags
  BY <1>1 DEF Stopped, Flags
<1> HIDE DEF Stopped
<1>4. flag' \in Flags
  <2>1. CASE CallBack \/ EnterCallback \/ CopyOut \/ CallbackDone
    BY <1>1, <2>1 DEF CallBack, EnterCallback, CopyOut, CallbackDone
  <2>2. CASE CallEmpty \/ Underrun \/ StopForResync
    BY <1>1, <1>3, <2>2 DEF CallEmpty, Underrun, StopForResync
  <2>3. CASE ReportReady
    BY <1>1, <2>3, FlagMembers DEF ReportReady, Flags
  <2>4. CASE CallbackPost
    BY <1>1, <2>4 DEF CallbackPost, Flags
  <2> QED BY <2>1, <2>2, <2>3, <2>4 DEF AudioCallback
<1>5. CASE CallBack \/ CallEmpty \/ Underrun \/ StopForResync \/ ReportReady \/ CallbackDone
             \/ CallbackPost
  <2>1. cb' \in Callback
    BY <1>1, <1>5, CallbackPCs DEF CallBack, CallEmpty, Underrun, StopForResync, ReportReady,
       CallbackDone, CallbackPost, CbStep, Callback
  <2>2. sem' \in Nat /\ UNCHANGED crash
    BY <1>1, <1>5 DEF CallBack, CallEmpty, Underrun, StopForResync, ReportReady,
       CallbackDone, CallbackPost
  <2>3. buf' = buf \/ buf' = [buf EXCEPT !.firstFilled = FALSE]
    BY <1>5 DEF CallBack, CallEmpty, Underrun, StopForResync, ReportReady,
       CallbackDone, CallbackPost
  <2>4. buf' \in Buffer /\ buf'.filled = buf.filled
    BY <1>1, <2>3 DEF Buffer
  <2>5. GhostTypes'
    <3>1. CASE ReportReady
      BY <3>1, Members, FlagMembers DEF ReportReady, Types, GhostTypes
    <3>2. CASE CallbackDone
      <4> DEFINE missed == ghost.missed \/ NotYetWaiting
      <4>1. ghost' = [ghost EXCEPT !.missed = missed]
        BY <3>2 DEF CallbackDone
      <4>2. missed \in BOOLEAN
        BY GhostMembers DEF NotYetWaiting
      <4> HIDE DEF missed
      <4> QED BY <4>1, <4>2 DEF Types, GhostTypes
    <3>3. CASE ~(ReportReady \/ CallbackDone)
      <4>1. UNCHANGED ghost
        BY <1>5, <3>3 DEF CallBack, CallEmpty, Underrun, StopForResync, CallbackPost
      <4> QED BY <4>1 DEF Types, GhostTypes
    <3> QED BY <3>1, <3>2, <3>3
  <2>6. RoomKept'
    BY <1>2, <2>4, Members, Zeros, RoomStays
  <2> QED BY <1>1, <1>2, <1>4, <2>1, <2>2, <2>4, <2>5, <2>6 DEF Types, TypeOK
<1>6. CASE EnterCallback
  <2>1. PICK drop \in 0 .. buf.filled, add \in 0 .. 1 : Adjust(drop, add)
    BY <1>6, Members, Zeros DEF EnterCallback
  <2>2. UNCHANGED <<sem, crash>>
    BY <1>6 DEF EnterCallback
  <2>3. cb' \in Callback
    <3>1. cb' = [pc |-> "copy", len |-> OutSize - add] /\ OutSize - add \in 0 .. OutSize
      BY <2>1, SizesAssumption DEF Adjust
    <3> QED BY <3>1, CallbackPCs DEF Callback
  <2> DEFINE play == IF buf.play + drop > RingSize THEN buf.play + drop - RingSize
                     ELSE buf.play + drop
             filled == buf.filled - drop
  <2>4. buf' = [buf EXCEPT !.filled = filled, !.play = play]
    BY <2>1 DEF Adjust
  <2>5. play \in 0 .. RingSize /\ filled \in 0 .. RingSize /\ filled \in 0 .. buf.filled
    BY Members, Zeros
  <2> HIDE DEF play, filled
  <2>6. buf' \in Buffer /\ buf'.filled \in 0 .. buf.filled
    BY <1>1, <2>4, <2>5 DEF Buffer
  <2>7. GhostTypes'
    <3> DEFINE adjusts == IF drop + add > 0 THEN ghost.adjusts + 1 ELSE ghost.adjusts
               due == IF ghost.due = None THEN None ELSE ghost.due + drop
               lost == ghost.lost
                         \/ (buf.resync /\ \E i \in 0 .. drop - 1 : Place(i) = buf.resyncAt)
               stale == ghost.stale \/ ~flag.running
    <3>1. ghost' = [ghost EXCEPT !.adjusts = adjusts, !.stale = stale, !.due = due, !.lost = lost]
      BY <2>1 DEF Adjust
    <3>2. adjusts \in Nat /\ due \in Int /\ lost \in BOOLEAN /\ stale \in BOOLEAN
      BY GhostMembers, FlagMembers, Members, Zeros DEF None
    <3> HIDE DEF adjusts, due, lost, stale
    <3> QED BY <3>1, <3>2 DEF Types, GhostTypes
  <2>8. RoomKept'
    BY <1>2, <2>6, RoomStays
  <2> QED BY <1>1, <1>2, <1>4, <2>2, <2>3, <2>6, <2>7, <2>8 DEF Types, TypeOK
<1>7. CASE CopyOut
  <2>1. UNCHANGED sem /\ crash' \in BOOLEAN
    BY <1>1, <1>7 DEF CopyOut
  <2>2. CASE Chunk > buf.filled
    <3>1. UNCHANGED <<buf, cb, ghost>>
      BY <1>7, <2>2 DEF CopyOut
    <3> QED BY <1>1, <1>2, <1>4, <2>1, <3>1 DEF Types, TypeOK, GhostTypes, RoomKept, ToInsert
  <2>3. CASE ~(Chunk > buf.filled)
    <3> DEFINE play == IF buf.play + Chunk >= RingSize THEN 0 ELSE buf.play + Chunk
               done == \/ cb.len = Chunk \/ buf.filled = Chunk
                       \/ buf.resync /\ play = buf.resyncAt
               heard == [i \in 0 .. Chunk - 1 |-> TimeAt(Place(i))]
               broken == ghost.broken \/ (\E i \in 1 .. Chunk - 1 : heard[i] # heard[0] + i)
                           \/ (ghost.due # None /\ heard[0] # ghost.due)
               filled == buf.filled - Chunk
               len == cb.len - Chunk
               pc == IF done THEN "underrun" ELSE "copy"
    <3>1. /\ buf' = [buf EXCEPT !.play = play, !.filled = filled]
          /\ cb' = [cb EXCEPT !.pc = pc, !.len = len]
      BY <1>7, <2>3 DEF CopyOut
    <3>2. /\ play \in 0 .. RingSize /\ filled \in 0 .. RingSize /\ filled \in 0 .. buf.filled
          /\ len \in 0 .. OutSize /\ pc \in CallbackPC
      BY <2>3, DecodedRange, Members, Zeros, CallbackPCs
    <3>3. GhostTypes'
      <4>1. CASE Chunk = 0
        <5>1. UNCHANGED ghost  BY <1>7, <2>3, <4>1 DEF CopyOut
        <5> QED BY <5>1 DEF Types, GhostTypes
      <4>2. CASE Chunk # 0
        <5> DEFINE due == heard[Chunk - 1] + 1
                   start == IF ghost.start = None THEN heard[0] ELSE ghost.start
        <5>1. ghost' = [ghost EXCEPT !.broken = broken, !.due = due, !.start = start]
          BY <1>7, <2>3, <4>2, Zenon DEF CopyOut
        <5>2. \A i \in 0 .. Chunk - 1 : heard[i] \in Int
          <6> SUFFICES ASSUME NEW i \in 0 .. Chunk - 1 PROVE heard[i] \in Int
            OBVIOUS
          <6>1. Place(i) \in 0 .. RingSize - 1
            <7>1. buf.play + i \in Int /\ 0 - RingSize <= buf.play + i
                  /\ buf.play + i <= 2 * RingSize
              BY <2>3, DecodedRange, Members, Zeros
            <7> QED BY <7>1, WrapInRing DEF Place
          <6>2. ring[Place(i)] \in Int  BY <1>1, <6>1
          <6> QED BY <6>2 DEF TimeAt
        <5>3. 0 \in 0 .. Chunk - 1 /\ Chunk - 1 \in 0 .. Chunk - 1
          BY <4>2, DecodedRange
        <5>4. broken \in BOOLEAN
          BY GhostMembers, FlagMembers
        <5>5. due \in Int
          BY <5>2, <5>3
        <5>6. start \in Int
          BY <5>2, <5>3, GhostMembers
        <5> HIDE DEF broken, due, start
        <5> QED BY <5>1, <5>4, <5>5, <5>6 DEF Types, GhostTypes
      <4> QED BY <4>1, <4>2
    <3> HIDE DEF play, filled, len, pc
    <3>4. buf' \in Buffer /\ buf'.filled \in 0 .. buf.filled /\ cb' \in Callback
      BY <1>1, <3>1, <3>2 DEF Buffer, Callback
    <3>5. RoomKept'
      BY <1>2, <3>4, RoomStays
    <3> QED BY <1>1, <1>2, <1>4, <2>1, <3>3, <3>4, <3>5 DEF Types, TypeOK
  <2> QED BY <2>2, <2>3
<1> QED BY <1>5, <1>6, <1>7 DEF AudioCallback

(* Appending a message to a queue of messages. *)
LEMMA QueueType ==
  ASSUME NEW q \in Seq({"START", "PAUSE"})
  PROVE  Append(q, "START") \in Seq({"START", "PAUSE"}) /\ Append(q, "PAUSE") \in Seq({"START", "PAUSE"})
BY AppendProperties

(* play_audio changes no level of the ring. *)
LEMMA PlayAudioTypes ==
  ASSUME Types, NEW ts \in Nat, PlayAudio(ts)
  PROVE  buf' \in Buffer /\ buf'.filled = buf.filled /\ GhostTypes'
<1>1. buf \in Buffer
  BY DEF Types, TypeOK
<1>2. buf' \in Buffer /\ buf'.filled = buf.filled
  BY <1>1 DEF PlayAudio, Buffer
<1>3. GhostTypes'
  <2> DEFINE lost == Silent.lost \/ (buf.resync /\ buf.resyncAt # Wrap(buf.play))
             stale == Silent.stale \/ cb.pc # "idle"
  <2>1. ghost' = [Silent EXCEPT !.lost = lost, !.stale = stale]
    BY DEF PlayAudio
  <2>2. None \in Int  BY DEF None
  <2>3. Silent \in [lost : BOOLEAN, early : BOOLEAN, missed : BOOLEAN, stale : BOOLEAN,
                    lateEof : BOOLEAN, broken : BOOLEAN, start : Int, due : Int, clock : Int,
                    adjusts : Nat]
    BY <2>2 DEF Silent, Types, GhostTypes
  <2> HIDE DEF Silent
  <2>4. lost \in BOOLEAN /\ stale \in BOOLEAN
    BY <2>3, Members
  <2> HIDE DEF lost, stale
  <2> QED BY <2>1, <2>3, <2>4 DEF GhostTypes
<1> QED BY <1>2, <1>3

LEMMA SyncTypes ==
  ASSUME Types, SyncThread
  PROVE  Types'
<1>1. buf \in Buffer /\ flag \in Flags /\ sync \in Sync /\ sem \in Nat
  BY DEF Types, TypeOK
<1>2. UNCHANGED <<stream, ring, dec, cb, ctl, crash>>
  BY DEF SyncThread, ProcessMessages, SyncPost, PauseDone, WaitSync, StartHardware, WaitAudio,
     AudioEnds, ResyncLater, ResyncNow, ResyncAnew, RestartFromStopped
<1>3. flag' \in Flags /\ sem' \in Nat
  <2>1. CASE ProcessMessages
    <3>1. flag' = flag \/ flag' = [flag EXCEPT !.eof = FALSE, !.running = FALSE, !.dontFill = TRUE]
      BY <2>1 DEF ProcessMessages
    <3>2. flag' \in Flags  BY <1>1, <3>1 DEF Flags
    <3> QED BY <1>1, <2>1, <3>2 DEF ProcessMessages
  <2>2. CASE SyncPost
    <3>1. flag' \in Flags  BY <1>1, <2>2 DEF SyncPost, Flags
    <3> QED BY <1>1, <2>2, <3>1 DEF SyncPost
  <2>3. CASE WaitSync       BY <1>1, <2>3 DEF WaitSync, Flags
  <2>4. CASE StartHardware  BY <1>1, <2>4 DEF StartHardware, Flags
  <2>5. CASE ResyncNow      BY <1>1, <2>5 DEF ResyncNow, Flags
  <2>6. CASE PauseDone \/ WaitAudio \/ AudioEnds \/ ResyncLater \/ ResyncAnew \/ RestartFromStopped
    BY <1>1, <2>6 DEF PauseDone, WaitAudio, AudioEnds, ResyncLater, ResyncAnew, RestartFromStopped
  <2> QED BY <2>1, <2>2, <2>3, <2>4, <2>5, <2>6 DEF SyncThread
<1>4. sync' \in Sync
  <2>1. CASE ProcessMessages
    <3> DEFINE state == IF sync.queue[Len(sync.queue)] = "START" THEN "WAIT_SYNC" ELSE "PAUSED"
    <3>1. PICK pc \in SyncPC : sync' = [sync EXCEPT !.state = state, !.queue = << >>, !.pc = pc]
      <4>1. CASE state # "PAUSED" \/ sync.state = "PAUSED"
        <5>1. sync' = [sync EXCEPT !.state = state, !.queue = << >>] /\ sync.pc = "top"
          BY <2>1, <4>1 DEF ProcessMessages
        <5> HIDE DEF state
        <5>2. sync' = [sync EXCEPT !.state = state, !.queue = << >>, !.pc = "top"]
          BY <1>1, <5>1 DEF Sync
        <5> QED BY <5>2, SyncPCs
      <4>2. CASE ~(state # "PAUSED" \/ sync.state = "PAUSED")
        <5>1. sync' = [sync EXCEPT !.state = state, !.queue = << >>,
                         !.pc = IF flag.waiting THEN "post" ELSE "done"]
          BY <2>1, <4>2 DEF ProcessMessages
        <5> QED BY <5>1, SyncPCs
      <4> QED BY <4>1, <4>2
    <3>2. state \in SyncState /\ << >> \in Seq({"START", "PAUSE"})
      BY SyncPCs
    <3> HIDE DEF state
    <3> QED BY <1>1, <3>1, <3>2 DEF Sync
  <2>2. CASE ~ProcessMessages
    BY <1>1, <2>2, SyncPCs DEF SyncThread, SyncPost, PauseDone, WaitSync, StartHardware, WaitAudio,
       AudioEnds, ResyncLater, ResyncNow, ResyncAnew, RestartFromStopped, SyncTo, Sync
  <2> QED BY <2>1, <2>2
<1>5. buf' \in Buffer /\ buf'.filled = buf.filled /\ GhostTypes'
  <2>1. CASE ProcessMessages
    <3> DEFINE missed == ghost.missed \/ NotYetWaiting
    <3>1. UNCHANGED buf /\ (ghost' = ghost \/ ghost' = [ghost EXCEPT !.missed = missed])
      BY <2>1 DEF ProcessMessages
    <3>2. missed \in BOOLEAN  BY GhostMembers
    <3> HIDE DEF missed
    <3> QED BY <1>1, <3>1, <3>2 DEF Types, GhostTypes
  <2>2. CASE WaitSync
    BY <2>2, Members, PlayAudioTypes DEF WaitSync
  <2>3. CASE ResyncNow
    BY <2>3, Members, PlayAudioTypes DEF ResyncNow
  <2>4. CASE ResyncLater \/ ResyncAnew
    <3>1. buf' = [buf EXCEPT !.firstTs = buf.resyncTs] /\ UNCHANGED ghost
      BY <2>4 DEF ResyncLater, ResyncAnew
    <3>2. buf' \in Buffer /\ buf'.filled = buf.filled
      BY <1>1, <3>1, Members DEF Buffer
    <3> QED BY <3>1, <3>2 DEF Types, GhostTypes
  <2>5. CASE SyncPost \/ PauseDone \/ StartHardware \/ WaitAudio \/ AudioEnds \/ RestartFromStopped
    <3>1. UNCHANGED <<buf, ghost>>
      BY <2>5 DEF SyncPost, PauseDone, StartHardware, WaitAudio, AudioEnds, RestartFromStopped
    <3> QED BY <1>1, <3>1 DEF Types, GhostTypes
  <2> QED BY <2>1, <2>2, <2>3, <2>4, <2>5 DEF SyncThread
<1>6. RoomKept'
  BY <1>2, <1>5, Members, Zeros, RoomStays
<1> QED BY <1>2, <1>3, <1>4, <1>5, <1>6 DEF Types, TypeOK

LEMMA ControllerTypes ==
  ASSUME Types, Controller
  PROVE  Types'
<1>1. /\ sync \in Sync /\ ctl \in Control /\ dec \in Decoder
      /\ sync.queue \in Seq({"START", "PAUSE"}) /\ ctl.queue \in Seq({"START", "PAUSE"})
      /\ ctl.pauses \in 0 .. MaxPauses
  BY DEF Types, TypeOK, Sync, Control
<1>2. UNCHANGED <<stream, ring, buf, flag, sem, cb, crash, ghost>>
  BY DEF Controller
<1>3. sync' \in Sync
  <2>1. CASE PauseSync
    BY <1>1, <2>1, QueueType DEF PauseSync, Sync
  <2>2. CASE PlaySync
    BY <1>1, <2>2, QueueType DEF PlaySync, Sync
  <2>3. CASE Pause \/ WaitDone \/ Move \/ StartDecoding
    BY <1>1, <2>3 DEF Pause, WaitDone, Move, StartDecoding
  <2> QED BY <2>1, <2>2, <2>3 DEF Controller
<1>4. ctl' \in Control
  <2>1. CASE Pause
    <3>1. ctl.pauses + 1 \in 0 .. MaxPauses
      BY <1>1, <2>1, StreamsAssumption DEF Pause
    <3> QED BY <1>1, <2>1, <3>1, QueueType, ControlPCs DEF Pause, Control
  <2>2. CASE PauseSync \/ WaitDone \/ PlaySync \/ Move
    BY <1>1, <2>2, ControlPCs DEF PauseSync, WaitDone, PlaySync, Move, CStep, Control
  <2>3. CASE StartDecoding
    BY <1>1, <2>3, QueueType, ControlPCs DEF StartDecoding, Control
  <2> QED BY <2>1, <2>2, <2>3 DEF Controller
<1>5. dec' \in Decoder /\ RoomKept'
  <2>1. CASE Move
    <3>1. Len(stream) \in Nat
      BY StreamsAssumption DEF Types, TypeOK
    <3>2. PICK pos \in 1 .. Len(stream) : dec' = [dec EXCEPT !.pos = pos]
      BY <2>1 DEF Move
    <3>3. pos \in Nat \ {0}
      BY <3>1
    <3>4. dec' \in Decoder
      BY <1>1, <3>2, <3>3 DEF Decoder
    <3>5. /\ dec'.pc = dec.pc /\ dec'.silence = dec.silence /\ dec'.need = dec.need
          /\ dec'.tries = dec.tries
      BY <1>1, <3>2 DEF Decoder
    <3> QED BY <1>2, <3>4, <3>5 DEF Types, RoomKept, ToInsert
  <2>2. CASE Pause \/ PauseSync \/ WaitDone \/ PlaySync \/ StartDecoding
    <3>1. UNCHANGED dec
      BY <2>2 DEF Pause, PauseSync, WaitDone, PlaySync, StartDecoding
    <3> QED BY <1>1, <1>2, <3>1 DEF Types, RoomKept, ToInsert
  <2> QED BY <2>1, <2>2 DEF Controller
<1> QED BY <1>2, <1>3, <1>4, <1>5 DEF Types, TypeOK, GhostTypes

LEMMA NextTypes == Types /\ [Next]_vars => Types'
<1> SUFFICES ASSUME Types, [Next]_vars PROVE Types'
  OBVIOUS
<1>1. CASE DecodeThread  BY <1>1, ParseTypes, LoadTypes, FillTypes DEF DecodeThread
<1>2. CASE AudioCallback  BY <1>2, CallbackTypes
<1>3. CASE SyncThread  BY <1>3, SyncTypes
<1>4. CASE Controller  BY <1>4, ControllerTypes
<1>5. CASE UNCHANGED vars
  BY <1>5 DEF vars, Types, TypeOK, GhostTypes, RoomKept, ToInsert
<1> QED BY <1>1, <1>2, <1>3, <1>4, <1>5 DEF Next

(* Every variable stays in its range, whatever the four threads do: the      *)
(* offsets of the decode thread and the callback never leave the ring, and   *)
(* the level never exceeds its size.                                         *)
THEOREM AudioTypes == Spec => []TypeOK
<1>1. Types => TypeOK
  BY DEF Types
<1> QED BY InitTypes, NextTypes, <1>1, PTL DEF Spec

-----------------------------------------------------------------------------
(* The order of the sound. *)

(* Where the units that wait are, without the remainder. *)
LEMMA PlaceIs ==
  ASSUME Types, NEW i \in 0 .. RingSize - 1
  PROVE  /\ Place(i) = IF buf.play + i < RingSize THEN buf.play + i
                       ELSE buf.play + i - RingSize
         /\ Place(i) \in 0 .. RingSize - 1
<1>1. /\ buf.play + i \in Int /\ 0 <= buf.play + i /\ buf.play + i < 2 * RingSize
      /\ 0 - RingSize <= buf.play + i /\ buf.play + i <= 2 * RingSize
  BY Members, Zeros
<1>2. Wrap(buf.play + i) = IF buf.play + i < 0 THEN buf.play + i + RingSize
                           ELSE IF buf.play + i < RingSize THEN buf.play + i
                           ELSE IF buf.play + i < 2 * RingSize THEN buf.play + i - RingSize ELSE 0
  BY <1>1, WrapIs, Zeros, Members
<1>3. Wrap(buf.play + i) \in 0 .. RingSize - 1
  BY <1>1, WrapInRing, Zeros
<1> QED BY <1>1, <1>2, <1>3, Zeros, Members DEF Place

(* How far the place of a unit is from the place that is filled next. *)
LEMMA WrapDifference ==
  ASSUME NEW play \in 0 .. RingSize, NEW filled \in 0 .. RingSize, NEW i \in 0 .. RingSize - 1
  PROVE  Wrap(Wrap(play + i) - Wrap(play + filled)) =
           IF i < filled THEN i - filled + RingSize ELSE i - filled
<1>1. /\ play + i \in Int /\ 0 - RingSize <= play + i /\ play + i <= 2 * RingSize
      /\ play + filled \in Int /\ 0 - RingSize <= play + filled
      /\ play + filled <= 2 * RingSize /\ play + i < 2 * RingSize
      /\ 0 <= play + i /\ 0 <= play + filled
  BY Zeros
<1> DEFINE a == Wrap(play + i)
           b == Wrap(play + filled)
<1>2. a = IF play + i < 0 THEN play + i + RingSize ELSE IF play + i < RingSize THEN play + i
          ELSE IF play + i < 2 * RingSize THEN play + i - RingSize ELSE 0
  BY <1>1, WrapIs, Zeros
<1>3. b = IF play + filled < 0 THEN play + filled + RingSize
          ELSE IF play + filled < RingSize THEN play + filled
          ELSE IF play + filled < 2 * RingSize THEN play + filled - RingSize ELSE 0
  BY <1>1, WrapIs, Zeros
<1>4. a \in 0 .. RingSize - 1 /\ b \in 0 .. RingSize - 1
  BY <1>1, WrapInRing
<1> HIDE DEF a, b
<1>5. a - b \in Int /\ 0 - RingSize <= a - b /\ a - b <= 2 * RingSize /\ a - b < RingSize
  BY <1>4, Zeros
<1>6. Wrap(a - b) = IF a - b < 0 THEN a - b + RingSize ELSE a - b
  BY <1>5, WrapIs
<1>7. IF a - b < 0 THEN a - b + RingSize = IF i < filled THEN i - filled + RingSize ELSE i - filled
      ELSE a - b = IF i < filled THEN i - filled + RingSize ELSE i - filled
  BY <1>1, <1>2, <1>3, Zeros
<1> QED BY <1>6, <1>7 DEF a, b

LEMMA WrapTwice ==
  ASSUME NEW k \in 0 .. 2 * RingSize, NEW n \in Nat, k + n <= 2 * RingSize
  PROVE  Wrap(Wrap(k) + n) = Wrap(k + n)
<1>1. /\ k \in Int /\ 0 - RingSize <= k /\ k <= 2 * RingSize
      /\ k + n \in Int /\ 0 - RingSize <= k + n
  BY Zeros
<1> DEFINE a == Wrap(k)
<1>2. a = IF k < RingSize THEN k ELSE IF k < 2 * RingSize THEN k - RingSize ELSE 0
  BY <1>1, WrapIs
<1>3. a \in 0 .. RingSize - 1  BY <1>1, WrapInRing
<1> HIDE DEF a
<1>4. a + n \in Int /\ 0 - RingSize <= a + n /\ a + n <= 2 * RingSize
  BY <1>2, <1>3, Zeros
<1>5. Wrap(a + n) = IF a + n < RingSize THEN a + n
                    ELSE IF a + n < 2 * RingSize THEN a + n - RingSize ELSE 0
  BY <1>3, <1>4, WrapIs, Zeros
<1>6. Wrap(k + n) = IF k + n < RingSize THEN k + n
                    ELSE IF k + n < 2 * RingSize THEN k + n - RingSize ELSE 0
  BY <1>1, WrapIs, Zeros
<1> QED BY <1>2, <1>5, <1>6, Zeros DEF a

(* Filling writes behind the sound that waits, and moves nothing of it. *)
LEMMA Filling ==
  ASSUME Types, OffsetsAgree, NEW n \in Nat, buf.filled + n <= RingSize,
         NEW sound, DOMAIN sound = 0 .. n - 1,
         ring' = Written(sound), buf'.play = buf.play,
         buf'.filled = buf.filled + n, buf'.fill = Wrap(buf.fill + n)
  PROVE  /\ OffsetsAgree'
         /\ \A i \in 0 .. RingSize - 1 : Place(i)' = Place(i)
         /\ \A i \in 0 .. buf.filled - 1 : ring'[Place(i)] = ring[Place(i)]
         /\ \A j \in 0 .. n - 1 : ring'[Place(buf.filled + j)] = sound[j]
<1>1. buf.play \in 0 .. RingSize /\ buf.filled \in 0 .. RingSize /\ RingSize \in Nat
  BY Members, Zeros
<1>2. OffsetsAgree'
  <2>1. buf.play + buf.filled \in 0 .. 2 * RingSize
        /\ (buf.play + buf.filled) + n <= 2 * RingSize
    BY <1>1
  <2>2. Wrap(Wrap(buf.play + buf.filled) + n) = Wrap((buf.play + buf.filled) + n)
    BY <2>1, WrapTwice
  <2>3. (buf.play + buf.filled) + n = buf.play + (buf.filled + n)
    BY <1>1
  <2>4. Wrap(buf.play + (buf.filled + n)) = Wrap(buf.fill + n)
    BY <2>2, <2>3 DEF OffsetsAgree
  <2>5. Wrap(buf'.play + buf'.filled) = buf'.fill
    BY <2>4
  <2> QED BY <2>5 DEF OffsetsAgree, Wrap
<1>3. \A i \in 0 .. RingSize - 1 : Place(i)' = Place(i)
  BY DEF Place, Wrap
<1>4. ASSUME NEW i \in 0 .. RingSize - 1
      PROVE  ring'[Place(i)] =
               LET j == IF i < buf.filled THEN i - buf.filled + RingSize ELSE i - buf.filled
               IN  IF j \in 0 .. n - 1 THEN sound[j] ELSE ring[Place(i)]
  <2>1. Place(i) \in 0 .. RingSize - 1
    BY PlaceIs
  <2>2. Wrap(Place(i) - buf.fill) =
          IF i < buf.filled THEN i - buf.filled + RingSize ELSE i - buf.filled
    BY <1>1, WrapDifference DEF Place, OffsetsAgree
  <2>3. ring'[Place(i)] =
          IF Wrap(Place(i) - buf.fill) \in DOMAIN sound THEN sound[Wrap(Place(i) - buf.fill)]
          ELSE ring[Place(i)]
    BY <2>1 DEF Written
  <2> QED BY <2>2, <2>3
<1>5. ASSUME NEW i \in 0 .. buf.filled - 1 PROVE ring'[Place(i)] = ring[Place(i)]
  <2>1. i \in 0 .. RingSize - 1 /\ i < buf.filled /\ i - buf.filled + RingSize \notin 0 .. n - 1
    BY <1>1
  <2> QED BY <1>4, <2>1
<1>6. ASSUME NEW j \in 0 .. n - 1 PROVE ring'[Place(buf.filled + j)] = sound[j]
  <2>1. /\ buf.filled + j \in 0 .. RingSize - 1 /\ ~(buf.filled + j < buf.filled)
        /\ (buf.filled + j) - buf.filled = j
    BY <1>1
  <2> QED BY <1>4, <2>1
<1> QED BY <1>2, <1>3, <1>5, <1>6

(* If what is filled is in order and continues the sound that waits, or comes *)
(* with a resync, there is no jump but at a resync.                          *)
LEMMA FillInOrder ==
  ASSUME Types, OffsetsAgree, NEW n \in Nat, buf.filled + n <= RingSize,
         NEW sound, DOMAIN sound = 0 .. n - 1, NEW t \in Nat,
         \A j \in 0 .. n - 1 : sound[j] = t + j \/ sound[j] = -(t + j),
         ring' = Written(sound), buf'.play = buf.play,
         buf'.filled = buf.filled + n, buf'.fill = Wrap(buf.fill + n)
  PROVE  /\ OffsetsAgree'
         /\ n > 0 => LastTime' = t + n - 1
         /\ n = 0 /\ buf.filled > 0 => LastTime' = LastTime
         /\ /\ NoJump
            /\ buf.resync => buf'.resync /\ buf'.resyncAt = buf.resyncAt
            /\ n > 0 /\ buf.filled > 0 =>
                 LastTime + 1 = t \/ (buf'.resync /\ buf'.resyncAt = buf.fill)
            => NoJump'
         /\ /\ ResyncWaits
            /\ buf'.resync => buf.resync /\ buf'.resyncAt = buf.resyncAt
            => ResyncWaits'
         /\ n > 0 /\ buf'.resyncAt = buf.fill => ResyncWaits'
<1>1. buf.play \in 0 .. RingSize /\ buf.filled \in 0 .. RingSize /\ RingSize \in Nat
  BY Members, Zeros
<1>2. /\ OffsetsAgree'
      /\ \A i \in 0 .. RingSize - 1 : Place(i)' = Place(i)
      /\ \A i \in 0 .. buf.filled - 1 : ring'[Place(i)] = ring[Place(i)]
      /\ \A j \in 0 .. n - 1 : ring'[Place(buf.filled + j)] = sound[j]
  BY Filling
<1>3. ASSUME NEW i \in 0 .. buf.filled - 1 PROVE TimeAt(Place(i))' = TimeAt(Place(i))
  <2>1. i \in 0 .. RingSize - 1  BY <1>1
  <2>2. Place(i)' = Place(i) /\ ring'[Place(i)] = ring[Place(i)]
    BY <1>2, <2>1
  <2> QED BY <2>2 DEF TimeAt
<1>4. ASSUME NEW i \in buf.filled .. buf.filled + n - 1
      PROVE  TimeAt(Place(i))' = t + (i - buf.filled)
  <2>1. i \in 0 .. RingSize - 1 /\ i - buf.filled \in 0 .. n - 1 /\ buf.filled + (i - buf.filled) = i
    BY <1>1
  <2>2. ring'[Place(i)] = sound[i - buf.filled] /\ Place(i)' = Place(i)
    BY <1>2, <2>1
  <2>3. LET j == i - buf.filled
        IN  /\ t + j \in Nat
            /\ ring'[Place(i)] = t + j \/ ring'[Place(i)] = -(t + j)
    BY <2>1, <2>2
  <2>4. TimeAt(Place(i))' = IF ring'[Place(i)] < 0 THEN -ring'[Place(i)] ELSE ring'[Place(i)]
    BY <2>2 DEF TimeAt
  <2> QED BY <2>3, <2>4
<1>5. n > 0 => LastTime' = t + n - 1
  <2> SUFFICES ASSUME n > 0 PROVE LastTime' = t + n - 1
    OBVIOUS
  <2>0. PICK k \in Int : k = buf.filled + n - 1
    BY <1>1
  <2>1. k \in buf.filled .. buf.filled + n - 1 /\ k - buf.filled = n - 1 /\ buf'.filled - 1 = k
    BY <1>1, <2>0
  <2>2. TimeAt(Place(k))' = t + (n - 1)
    BY <1>4, <2>1
  <2>3. LastTime' = TimeAt(Place(k))'
    BY <2>1 DEF LastTime, TimeAt, Place, Wrap
  <2> QED BY <2>2, <2>3
<1>6. n = 0 /\ buf.filled > 0 => LastTime' = LastTime
  <2> SUFFICES ASSUME n = 0, buf.filled > 0 PROVE LastTime' = LastTime
    OBVIOUS
  <2>0. PICK k \in Int : k = buf.filled - 1
    BY <1>1
  <2>1. k \in 0 .. buf.filled - 1 /\ buf'.filled - 1 = k
    BY <1>1, <2>0
  <2>2. TimeAt(Place(k))' = TimeAt(Place(k))
    BY <1>3, <2>1
  <2>3. LastTime' = TimeAt(Place(k))' /\ LastTime = TimeAt(Place(k))
    BY <2>0, <2>1 DEF LastTime, TimeAt, Place, Wrap
  <2> QED BY <2>2, <2>3
<1>7. ASSUME NoJump, buf.resync => buf'.resync /\ buf'.resyncAt = buf.resyncAt,
             n > 0 /\ buf.filled > 0 =>
               LastTime + 1 = t \/ (buf'.resync /\ buf'.resyncAt = buf.fill)
      PROVE  NoJump'
  <2> SUFFICES ASSUME NEW i \in 1 .. buf'.filled - 1
               PROVE  \/ TimeAt(Place(i))' = TimeAt(Place(i - 1))' + 1
                      \/ buf'.resync /\ Place(i)' = buf'.resyncAt
    BY DEF NoJump
  <2>0. i \in 1 .. buf.filled + n - 1
    BY <1>1
  <2>1. i \in 0 .. RingSize - 1
    BY <1>1, <2>0
  <2>2. CASE i < buf.filled
    <3>1. i \in 0 .. buf.filled - 1 /\ i - 1 \in 0 .. buf.filled - 1 /\ i \in 1 .. buf.filled - 1
      BY <1>1, <2>0, <2>2
    <3>2. TimeAt(Place(i))' = TimeAt(Place(i)) /\ TimeAt(Place(i - 1))' = TimeAt(Place(i - 1))
      BY <1>3, <3>1
    <3>3. \/ TimeAt(Place(i)) = TimeAt(Place(i - 1)) + 1
          \/ buf.resync /\ Place(i) = buf.resyncAt
      BY <1>7, <3>1 DEF NoJump
    <3>4. Place(i)' = Place(i)
      BY <1>2, <2>1
    <3> QED BY <1>7, <3>2, <3>3, <3>4
  <2>3. CASE i = buf.filled
    <3>1. /\ n > 0 /\ buf.filled > 0 /\ i \in buf.filled .. buf.filled + n - 1
          /\ i - 1 \in 0 .. buf.filled - 1 /\ i - buf.filled = 0
      BY <1>1, <2>0, <2>3
    <3>2. TimeAt(Place(i))' = t
      BY <1>4, <3>1
    <3>3. TimeAt(Place(i - 1))' = LastTime
      BY <1>3, <2>3, <3>1 DEF LastTime
    <3>4. Place(i)' = buf.fill
      BY <1>2, <2>1, <2>3 DEF Place, OffsetsAgree
    <3> QED BY <1>7, <3>1, <3>2, <3>3, <3>4
  <2>4. CASE i > buf.filled
    <3>1. i \in buf.filled .. buf.filled + n - 1 /\ i - 1 \in buf.filled .. buf.filled + n - 1
      BY <1>1, <2>0, <2>4
    <3>2. /\ TimeAt(Place(i))' = t + (i - buf.filled)
          /\ TimeAt(Place(i - 1))' = t + (i - 1 - buf.filled)
      BY <1>4, <3>1
    <3> QED BY <1>1, <3>2
  <2> QED BY <1>1, <2>0, <2>2, <2>3, <2>4
<1>8. ASSUME ResyncWaits, buf'.resync => buf.resync /\ buf'.resyncAt = buf.resyncAt
      PROVE  ResyncWaits'
  <2> SUFFICES ASSUME buf'.resync
               PROVE  \E d \in 0 .. buf'.filled - 1 : Place(d)' = buf'.resyncAt
    BY DEF ResyncWaits
  <2>1. PICK d \in 0 .. buf.filled - 1 : Place(d) = buf.resyncAt
    BY <1>8 DEF ResyncWaits
  <2>2. d \in 0 .. buf'.filled - 1 /\ d \in 0 .. RingSize - 1
    BY <1>1
  <2> QED BY <1>2, <1>8, <2>1, <2>2
<1>9. n > 0 /\ buf'.resyncAt = buf.fill => ResyncWaits'
  <2> SUFFICES ASSUME n > 0, buf'.resyncAt = buf.fill
               PROVE  \E d \in 0 .. buf'.filled - 1 : Place(d)' = buf'.resyncAt
    BY DEF ResyncWaits
  <2>0. PICK k \in Int : k = buf.filled
    BY <1>1
  <2>1. k \in 0 .. buf'.filled - 1 /\ k \in 0 .. RingSize - 1
    BY <1>1, <2>0
  <2>2. Place(k)' = Place(k)
    BY <1>2, <2>1
  <2>3. Place(k) = buf.fill
    BY <2>0 DEF Place, OffsetsAgree
  <2> QED BY <2>1, <2>2, <2>3
<1> QED BY <1>2, <1>5, <1>6, <1>7, <1>8, <1>9

(* Taking sound from the front of the ring moves nothing of the rest.        *)
LEMMA Taking ==
  ASSUME Types, OffsetsAgree, NEW n \in 0 .. buf.filled,
         buf'.play \in 0 .. RingSize,
         buf'.play = buf.play + n \/ buf'.play = buf.play + n - RingSize,
         buf'.filled = buf.filled - n, buf'.fill = buf.fill, ring' = ring,
         buf'.resync = buf.resync, buf'.resyncAt = buf.resyncAt
  PROVE  /\ OffsetsAgree'
         /\ buf'.filled > 0 => LastTime' = LastTime
         /\ NoJump => NoJump'
         /\ ResyncWaits /\ (buf.resync => \A i \in 0 .. n - 1 : Place(i) # buf.resyncAt)
              => ResyncWaits'
         /\ \A i \in 0 .. buf.filled - n - 1 : Place(i)' = Place(i + n)
<1>1. buf.play \in 0 .. RingSize /\ buf.filled \in 0 .. RingSize /\ RingSize \in Nat
  BY Members, Zeros
<1>2. ASSUME NEW i \in 0 .. buf.filled - n
      PROVE  Wrap(buf'.play + i) = Wrap(buf.play + (i + n))
  <2>1. /\ buf'.play + i \in Int /\ 0 - RingSize <= buf'.play + i /\ buf'.play + i <= 2 * RingSize
        /\ buf.play + (i + n) \in Int /\ 0 - RingSize <= buf.play + (i + n)
        /\ buf.play + (i + n) <= 2 * RingSize
        /\ 0 <= buf'.play + i /\ 0 <= buf.play + (i + n)
    BY <1>1
  <2>2. Wrap(buf'.play + i) = IF buf'.play + i < 0 THEN buf'.play + i + RingSize
          ELSE IF buf'.play + i < RingSize THEN buf'.play + i
          ELSE IF buf'.play + i < 2 * RingSize THEN buf'.play + i - RingSize ELSE 0
    BY <1>1, <2>1, WrapIs
  <2>3. Wrap(buf.play + (i + n)) = IF buf.play + (i + n) < 0 THEN buf.play + (i + n) + RingSize
          ELSE IF buf.play + (i + n) < RingSize THEN buf.play + (i + n)
          ELSE IF buf.play + (i + n) < 2 * RingSize THEN buf.play + (i + n) - RingSize ELSE 0
    BY <1>1, <2>1, WrapIs
  <2>4. CASE buf'.play = buf.play + n
    <3>1. buf'.play + i = buf.play + (i + n)  BY <1>1, <2>4
    <3> QED BY <3>1
  <2>5. CASE buf'.play = buf.play + n - RingSize
    <3>1. buf.play + (i + n) = buf'.play + i + RingSize  BY <1>1, <2>5
    <3> QED BY <1>1, <2>1, <2>2, <2>3, <3>1
  <2> QED BY <2>4, <2>5
<1>3. OffsetsAgree'
  <2>1. buf.filled - n \in 0 .. buf.filled - n /\ (buf.filled - n) + n = buf.filled
    BY <1>1
  <2>2. Wrap(buf'.play + (buf.filled - n)) = Wrap(buf.play + buf.filled)
    BY <1>2, <2>1
  <2> QED BY <2>2 DEF OffsetsAgree, Wrap
<1>4. ASSUME NEW i \in 0 .. buf.filled - n - 1 PROVE Place(i)' = Place(i + n)
  <2>1. i \in 0 .. buf.filled - n
    BY <1>1
  <2> QED BY <1>2, <2>1 DEF Place, Wrap
<1>5. ASSUME NEW i \in 0 .. buf.filled - n - 1 PROVE TimeAt(Place(i))' = TimeAt(Place(i + n))
  BY <1>4 DEF TimeAt
<1>6. buf'.filled > 0 => LastTime' = LastTime
  <2> SUFFICES ASSUME buf'.filled > 0 PROVE LastTime' = LastTime
    OBVIOUS
  <2>0. PICK k \in Int : k = buf.filled - n - 1
    BY <1>1
  <2>1. k \in 0 .. buf.filled - n - 1 /\ buf'.filled - 1 = k /\ k + n = buf.filled - 1
    BY <1>1, <2>0
  <2>2. TimeAt(Place(k))' = TimeAt(Place(k + n))
    BY <1>5, <2>1
  <2>3. LastTime' = TimeAt(Place(k))' /\ LastTime = TimeAt(Place(k + n))
    BY <2>1 DEF LastTime, TimeAt, Place, Wrap
  <2> QED BY <2>2, <2>3
<1>7. NoJump => NoJump'
  <2> SUFFICES ASSUME NoJump, NEW i \in 1 .. buf'.filled - 1
               PROVE  \/ TimeAt(Place(i))' = TimeAt(Place(i - 1))' + 1
                      \/ buf'.resync /\ Place(i)' = buf'.resyncAt
    BY DEF NoJump
  <2>1. /\ i \in 0 .. buf.filled - n - 1 /\ i - 1 \in 0 .. buf.filled - n - 1
        /\ i + n \in 1 .. buf.filled - 1 /\ (i + n) - 1 = (i - 1) + n
    BY <1>1
  <2>2. \/ TimeAt(Place(i + n)) = TimeAt(Place((i - 1) + n)) + 1
        \/ buf.resync /\ Place(i + n) = buf.resyncAt
    BY <2>1 DEF NoJump
  <2>3. /\ TimeAt(Place(i))' = TimeAt(Place(i + n))
        /\ TimeAt(Place(i - 1))' = TimeAt(Place((i - 1) + n))
        /\ Place(i)' = Place(i + n)
    BY <1>4, <1>5, <2>1
  <2> QED BY <2>2, <2>3
<1>8. ResyncWaits /\ (buf.resync => \A i \in 0 .. n - 1 : Place(i) # buf.resyncAt) => ResyncWaits'
  <2> SUFFICES ASSUME ResyncWaits, buf.resync, \A i \in 0 .. n - 1 : Place(i) # buf.resyncAt
               PROVE  \E d \in 0 .. buf'.filled - 1 : Place(d)' = buf'.resyncAt
    BY DEF ResyncWaits
  <2>1. PICK d \in 0 .. buf.filled - 1 : Place(d) = buf.resyncAt
    BY DEF ResyncWaits
  <2>2. d - n \in 0 .. buf.filled - n - 1 /\ (d - n) + n = d /\ d - n \in 0 .. buf'.filled - 1
    BY <1>1, <2>1
  <2>3. Place(d - n)' = Place(d)
    BY <1>4, <2>2
  <2> QED BY <2>1, <2>2, <2>3
<1> QED BY <1>3, <1>4, <1>6, <1>7, <1>8

(* Where a resync that waits is: the callback cannot pass it. *)
LEMMA ResyncAhead ==
  ASSUME Types, ResyncWaits, buf.resync
  PROVE  /\ Decoded < buf.filled
         /\ \A i \in 0 .. Decoded - 1 : Place(i) # buf.resyncAt
<1>1. buf.play \in 0 .. RingSize /\ buf.filled \in 0 .. RingSize /\ RingSize \in Nat
      /\ buf.resyncAt \in 0 .. RingSize - 1
  BY Members, Zeros
<1>2. PICK d \in 0 .. buf.filled - 1 : Place(d) = buf.resyncAt
  BY DEF ResyncWaits
<1>3. d \in 0 .. RingSize - 1
  BY <1>1
<1>4. buf.resyncAt = IF buf.play + d < RingSize THEN buf.play + d ELSE buf.play + d - RingSize
  BY <1>2, <1>3, PlaceIs
<1>5. Decoded = IF buf.resyncAt < buf.play THEN RingSize - buf.play ELSE buf.resyncAt - buf.play
  BY DEF Decoded
<1>6. Decoded \in 0 .. d
  BY <1>1, <1>3, <1>4, <1>5
<1>7. ASSUME NEW i \in 0 .. Decoded - 1 PROVE Place(i) # buf.resyncAt
  <2>1. i \in 0 .. RingSize - 1 /\ i < d
    BY <1>1, <1>3, <1>6
  <2>2. Place(i) = IF buf.play + i < RingSize THEN buf.play + i ELSE buf.play + i - RingSize
    BY <2>1, PlaceIs
  <2> QED BY <1>1, <1>3, <1>4, <2>1, <2>2
<1> QED BY <1>1, <1>6, <1>7

(* The frame or the silence that is filled follows what waits. *)
LEMMA FillRing == RingInv /\ (FillSilence \/ FillFrame) => RingInv'
<1> SUFFICES ASSUME RingInv, FillSilence \/ FillFrame PROVE RingInv'
  OBVIOUS
<1>1. Types /\ OffsetsAgree /\ Types'
  BY FillTypes DEF RingInv
<1>2. buf \in Buffer /\ dec \in Decoder
  BY <1>1 DEF Types, TypeOK
<1>3. /\ buf.filled \in Nat /\ buf.next \in Nat /\ dec.frame \in Nat /\ dec.silence \in Nat
      /\ FrameSize \in Nat \ {0}
  BY <1>1, Members, SizesAssumption
<1>4. CASE FillSilence
  <2> DEFINE n == dec.silence
             t == buf.next
             sound == [j \in 0 .. n - 1 |-> -(t + j)]
  <2>1. /\ dec.pc = "silence" /\ dec' = [dec EXCEPT !.pc = "frame"]
        /\ ring' = Written(sound) /\ buf' = Filled(n) /\ UNCHANGED crash
    BY <1>4 DEF FillSilence, DStep
  <2>2. buf.filled + n <= RingSize
    <3>1. buf.filled + (FrameSize + dec.silence) <= RingSize
      BY <1>1, <2>1 DEF Types, RoomKept, ToInsert
    <3> QED BY <1>3, <3>1, Zeros
  <2>3. /\ buf'.play = buf.play /\ buf'.filled = buf.filled + n
        /\ buf'.fill = Wrap(buf.fill + n) /\ buf'.resync = buf.resync
        /\ buf'.resyncAt = buf.resyncAt
    BY <1>2, <2>1 DEF Filled, Buffer
  <2>4. DOMAIN sound = 0 .. n - 1 /\ n \in Nat /\ t \in Nat
        /\ \A j \in 0 .. n - 1 : sound[j] = t + j \/ sound[j] = -(t + j)
    BY <1>3
  <2>5. dec'.pc = "frame" /\ dec'.need = dec.need /\ dec'.frame = dec.frame
    BY <1>2, <2>1 DEF Decoder
  <2>6. buf.filled > 0 => LastTime + 1 = t
    BY <2>1 DEF RingInv, NextFollows
  <2>7. ~dec.need /\ (buf.filled > 0 \/ n > 0) => dec.frame = t + n
    BY <2>1 DEF RingInv, NextFollows, Loading
  <2> HIDE DEF sound, n, t
  <2>8. /\ OffsetsAgree'
        /\ n > 0 => LastTime' = t + n - 1
        /\ n = 0 /\ buf.filled > 0 => LastTime' = LastTime
        /\ NoJump => NoJump'
        /\ ResyncWaits => ResyncWaits'
    BY <1>1, <2>1, <2>2, <2>3, <2>4, <2>6, FillInOrder
  <2>9. NextFollows'
    <3>1. ASSUME ~dec.need, buf'.filled > 0 PROVE LastTime' + 1 = dec.frame
      <4>1. CASE n > 0
        BY <1>3, <2>4, <2>7, <2>8, <3>1, <4>1
      <4>2. CASE n = 0
        <5>1. buf.filled > 0  BY <1>3, <2>3, <3>1, <4>2
        <5> QED BY <1>3, <2>4, <2>6, <2>7, <2>8, <3>1, <4>2, <5>1
      <4> QED BY <2>4, <4>1, <4>2
    <3> QED BY <2>5, <3>1 DEF NextFollows, Loading
  <2>10. ghost'.lost = ghost.lost
    BY <1>1, <1>4 DEF FillSilence, Types, GhostTypes
  <2> QED BY <1>1, <2>1, <2>8, <2>9, <2>10 DEF RingInv
<1>5. CASE FillFrame
  <2> DEFINE t == dec.frame
             sound == [j \in 0 .. FrameSize - 1 |-> t + j]
  <2>1. dec.pc = "frame" /\ dec' = FrameDone /\ ring' = Written(sound) /\ UNCHANGED crash
    BY <1>5 DEF FillFrame
  <2>2. buf.filled + FrameSize <= RingSize
    BY <1>1, <2>1 DEF Types, RoomKept
  <2>3. /\ buf'.play = buf.play /\ buf'.filled = buf.filled + FrameSize
        /\ buf'.fill = Wrap(buf.fill + FrameSize)
        /\ buf'.firstFilled = TRUE /\ buf'.next = t + FrameSize
    BY <1>2, <1>5 DEF FillFrame, Filled, Buffer
  <2>4. /\ buf'.resync = (buf.resync \/ dec.need)
        /\ buf'.resyncAt = IF dec.need THEN buf.fill ELSE buf.resyncAt
    BY <1>2, <1>5 DEF FillFrame, Filled, Buffer
  <2>5. DOMAIN sound = 0 .. FrameSize - 1 /\ t \in Nat
        /\ \A j \in 0 .. FrameSize - 1 : sound[j] = t + j \/ sound[j] = -(t + j)
    BY <1>3
  <2>6. dec'.pc = "top"
    BY <1>2, <2>1 DEF FrameDone, Decoder
  <2>7. ~dec.need /\ buf.filled > 0 => LastTime + 1 = t
    BY <2>1 DEF RingInv, NextFollows
  <2>8. ghost'.lost = (ghost.lost \/ (dec.need /\ buf.resync))
    BY <1>1, <1>5 DEF FillFrame, Types, GhostTypes
  <2> HIDE DEF sound, t
  <2>9. /\ OffsetsAgree'
        /\ FrameSize > 0 => LastTime' = t + FrameSize - 1
        /\ /\ NoJump
           /\ buf.resync => buf'.resync /\ buf'.resyncAt = buf.resyncAt
           /\ FrameSize > 0 /\ buf.filled > 0 =>
                LastTime + 1 = t \/ (buf'.resync /\ buf'.resyncAt = buf.fill)
           => NoJump'
        /\ /\ ResyncWaits
           /\ buf'.resync => buf.resync /\ buf'.resyncAt = buf.resyncAt
           => ResyncWaits'
        /\ FrameSize > 0 /\ buf'.resyncAt = buf.fill => ResyncWaits'
    BY <1>1, <1>3, <2>1, <2>2, <2>3, <2>5, FillInOrder
  <2>10. ASSUME ~ghost'.lost PROVE NoJump' /\ ResyncWaits'
    <3>1. ~(dec.need /\ buf.resync) /\ NoJump /\ ResyncWaits
      BY <2>8, <2>10 DEF RingInv
    <3>2. CASE dec.need
      <4>1. FrameSize > 0
        BY <1>3
      <4>2. ~buf.resync /\ buf'.resync /\ buf'.resyncAt = buf.fill
        BY <2>4, <3>1, <3>2
      <4> QED BY <2>9, <3>1, <4>1, <4>2, Zenon
    <3>3. CASE ~dec.need
      BY <2>4, <2>7, <2>9, <3>1, <3>3
    <3> QED BY <3>2, <3>3
  <2>11. NextFollows'
    <3>1. LastTime' = t + FrameSize - 1
      BY <1>3, <2>9
    <3>2. LastTime' + 1 = t + FrameSize
      BY <1>3, <2>5, <3>1
    <3> QED BY <2>3, <2>6, <3>2 DEF NextFollows, Loading
  <2>12. crash' => ghost'.lost
    BY <2>1, <2>8 DEF RingInv
  <2> QED BY <1>1, <2>9, <2>10, <2>11, <2>12 DEF RingInv
<1> QED BY <1>4, <1>5

(* The parts of the invariant that look at the ring only. *)
LEMMA RingStays ==
  ASSUME RingInv, Types', ring' = ring, crash' = crash, ghost'.lost = ghost.lost,
         buf'.play = buf.play, buf'.filled = buf.filled, buf'.fill = buf.fill,
         buf'.resync = buf.resync, buf'.resyncAt = buf.resyncAt, NextFollows'
  PROVE  RingInv'
<1>1. OffsetsAgree'
  BY DEF RingInv, OffsetsAgree, Wrap
<1>2. NoJump => NoJump'
  BY DEF NoJump, TimeAt, Place, Wrap
<1>3. ResyncWaits => ResyncWaits'
  BY DEF ResyncWaits, Place, Wrap
<1> QED BY <1>1, <1>2, <1>3 DEF RingInv

LEMMA LastStays ==
  ASSUME ring' = ring, buf'.play = buf.play, buf'.filled = buf.filled
  PROVE  LastTime' = LastTime
BY DEF LastTime, TimeAt, Place, Wrap

LEMMA ParseRing == RingInv /\ ~crash /\ ParseMessage => RingInv'
<1> SUFFICES ASSUME RingInv, ~crash, ParseMessage PROVE RingInv'
  OBVIOUS
<1>1. Types /\ Types'
  BY ParseTypes DEF RingInv
<1>2. /\ buf'.play = 0 /\ buf'.filled = 0 /\ buf'.fill = 0 /\ buf'.resync = buf.resync
  BY <1>1 DEF ParseMessage, FlushDecodeBuffers, Types, TypeOK, Buffer
<1>3. OffsetsAgree'
  <2>1. 0 - RingSize <= 0 /\ 0 <= 2 * RingSize /\ RingSize > 0 /\ 0 \in Int
    BY SizesAssumption
  <2>2. Wrap(0) = 0  BY <2>1, WrapIs
  <2> QED BY <1>2, <2>2 DEF OffsetsAgree, Wrap
<1>4. NoJump'  BY <1>2 DEF NoJump
<1>5. ghost'.lost = buf.resync
  <2>1. ghost' = [Silent EXCEPT !.lost = buf.resync, !.early = FALSE, !.stale = FALSE]
    BY DEF ParseMessage
  <2>2. ghost \in [lost : BOOLEAN, early : BOOLEAN, missed : BOOLEAN, stale : BOOLEAN,
                   lateEof : BOOLEAN, broken : BOOLEAN, start : Int, due : Int, clock : Int,
                   adjusts : Nat]
    BY <1>1 DEF Types, GhostTypes
  <2> QED BY <2>1, <2>2 DEF Silent
<1>6. ghost'.lost \/ ResyncWaits'
  BY <1>2, <1>5 DEF ResyncWaits
<1>7. dec'.pc \in {"wait", "top"}
  BY <1>1 DEF ParseMessage, Types, TypeOK, Decoder
<1>8. NextFollows'
  BY <1>2, <1>7 DEF NextFollows, Loading
<1>9. ~crash'
  BY DEF ParseMessage
<1> QED BY <1>1, <1>3, <1>4, <1>6, <1>8, <1>9 DEF RingInv

(* A gap that is filled with silence is the one between the frame and what   *)
(* was filled last.                                                          *)
LEMMA LoadRing ==
  ASSUME RingInv, NextFrame \/ LoadFrame \/ AwaitResync \/ CheckForBytes \/ GiveUp \/ Announce \/ Awake
  PROVE  RingInv'
<1>1. Types /\ Types'
  BY LoadTypes DEF RingInv
<1>2. UNCHANGED <<ring, buf, crash>>
  BY DEF NextFrame, LoadFrame, AwaitResync, CheckForBytes, GiveUp, Announce, Awake
<1>3. ghost'.lost = ghost.lost
  BY <1>1 DEF NextFrame, LoadFrame, AwaitResync, CheckForBytes, GiveUp, Announce, Awake, Types,
     GhostTypes
<1>4. LastTime' = LastTime
  BY <1>2, LastStays
<1>5. dec \in Decoder
  BY <1>1 DEF Types, TypeOK
<1>6. /\ dec.pc # "frame" /\ dec'.pc # "frame"
      /\ \/ dec'.pc \notin {"pending", "room", "fail", "announce", "asleep", "silence"}
         \/ dec'.need
         \/ Loading /\ ~dec.need /\ dec'.frame = dec.frame /\ dec'.silence = dec.silence
         \/ /\ buf.firstFilled /\ dec'.silence = dec.frame - buf.next /\ dec'.frame = dec.frame
         \/ ~buf.firstFilled /\ dec'.silence = 0
  <2>1. CASE NextFrame
    BY <1>5, <2>1 DEF NextFrame, DStep, Decoder
  <2>2. CASE LoadFrame
    <3>1. CASE flag.dontFill
      <4>1. dec' = FrameDone /\ dec.pc = "load"  BY <2>2, <3>1 DEF LoadFrame
      <4>2. dec'.pc = "top"  BY <1>5, <4>1 DEF FrameDone, Decoder
      <4> QED BY <4>1, <4>2
    <3>2. CASE ~flag.dontFill
      <4> DEFINE need == buf.firstFilled /\ Gap \notin 0 .. SilenceLimit
                 pc == IF need THEN "pending" ELSE "room"
                 silence == IF buf.firstFilled /\ ~need THEN Gap ELSE 0
      <4>1. dec' = [dec EXCEPT !.pc = pc, !.need = need, !.silence = silence] /\ dec.pc = "load"
        BY <2>2, <3>2 DEF LoadFrame
      <4>2. dec'.pc = pc /\ dec'.need = need /\ dec'.silence = silence /\ dec'.frame = dec.frame
        BY <1>5, <4>1 DEF Decoder
      <4>3. buf.firstFilled /\ ~need => silence = dec.frame - buf.next
        BY DEF Gap
      <4>4. ~buf.firstFilled => silence = 0 /\ ~need
        BY <1>1, Members
      <4>5. need \in BOOLEAN /\ pc \in {"pending", "room"} /\ buf.firstFilled \in BOOLEAN
        BY <1>1, Members
      <4> HIDE DEF need, pc, silence
      <4> QED BY <4>1, <4>2, <4>3, <4>4, <4>5
    <3> QED BY <3>1, <3>2
  <2>3. CASE AwaitResync \/ CheckForBytes \/ Announce \/ Awake
    <3>1. dec.pc \in {"pending", "room", "announce", "asleep"}
      BY <2>3 DEF AwaitResync, CheckForBytes, Announce, Awake, DStep
    <3>2. /\ dec'.need = dec.need /\ dec'.frame = dec.frame /\ dec'.silence = dec.silence
          /\ dec'.pc # "frame"
      BY <1>5, <2>3 DEF AwaitResync, CheckForBytes, Announce, Awake, DStep, Decoder
    <3> QED BY <1>1, <3>1, <3>2, Members DEF Loading
  <2>4. CASE GiveUp
    BY <1>5, <2>4 DEF GiveUp, FrameDone, Decoder
  <2> QED BY <2>1, <2>2, <2>3, <2>4
<1>7. NextFollows'
  <2>1. buf'.filled > 0 => buf'.firstFilled /\ LastTime' + 1 = buf'.next
    BY <1>2, <1>4, <1>6 DEF RingInv, NextFollows
  <2>2. Loading' /\ ~dec'.need /\ (buf'.filled > 0 \/ dec'.silence > 0) =>
          dec'.frame = buf'.next + dec'.silence
    <3> SUFFICES ASSUME Loading', ~dec'.need, buf.filled > 0 \/ dec'.silence > 0
                 PROVE  dec'.frame = buf.next + dec'.silence
      BY <1>2
    <3>1. CASE Loading /\ ~dec.need /\ dec'.frame = dec.frame /\ dec'.silence = dec.silence
      BY <3>1 DEF RingInv, NextFollows
    <3>2. CASE /\ buf.firstFilled /\ dec'.silence = dec.frame - buf.next
               /\ dec'.frame = dec.frame
      BY <1>1, <3>2, Members
    <3>3. CASE ~buf.firstFilled /\ dec'.silence = 0
      BY <1>6, <3>3 DEF RingInv, NextFollows
    <3> QED BY <1>6, <3>1, <3>2, <3>3 DEF Loading
  <2> QED BY <1>6, <2>1, <2>2 DEF NextFollows
<1> QED BY <1>1, <1>2, <1>3, <1>7, RingStays

(* play_audio forgets a resync only where the sound that waits begins. *)
LEMMA PlayAudioRing ==
  ASSUME RingInv, Types', NEW ts \in Nat, PlayAudio(ts), UNCHANGED <<ring, dec, crash>>
  PROVE  RingInv'
<1>1. Types
  BY DEF RingInv
<1>2. /\ buf'.play = buf.play /\ buf'.filled = buf.filled /\ buf'.fill = buf.fill
      /\ buf'.resync = FALSE /\ buf'.firstFilled = buf.firstFilled /\ buf'.next = buf.next
  BY <1>1 DEF PlayAudio, Types, TypeOK, Buffer
<1>3. ghost'.lost = (ghost.lost \/ (buf.resync /\ buf.resyncAt # Wrap(buf.play)))
  BY <1>1 DEF PlayAudio, Silent, Types, GhostTypes
<1>4. ASSUME ~ghost'.lost PROVE NoJump' /\ ResyncWaits'
  <2>1. ResyncWaits'
    BY <1>2 DEF ResyncWaits
  <2>2. NoJump /\ (buf.resync => buf.resyncAt = Wrap(buf.play))
    BY <1>3, <1>4 DEF RingInv
  <2>3. ASSUME NEW i \in 1 .. buf.filled - 1
        PROVE  TimeAt(Place(i)) = TimeAt(Place(i - 1)) + 1
    <3>1. i \in 0 .. RingSize - 1 /\ 0 \in 0 .. RingSize - 1 /\ buf.play \in 0 .. RingSize
      BY <1>1, Members, Zeros
    <3>2. Place(0) = Wrap(buf.play)
      BY <3>1 DEF Place
    <3>3. Place(i) # Place(0)
      <4>1. Place(0) = IF buf.play + 0 < RingSize THEN buf.play + 0 ELSE buf.play + 0 - RingSize
        BY <1>1, <3>1, PlaceIs
      <4>2. Place(i) = IF buf.play + i < RingSize THEN buf.play + i ELSE buf.play + i - RingSize
        BY <1>1, <3>1, PlaceIs
      <4>3. i \in 1 .. RingSize - 1 /\ RingSize \in Nat
        BY <3>1, Zeros
      <4> QED BY <3>1, <4>1, <4>2, <4>3
    <3> QED BY <2>2, <3>2, <3>3 DEF NoJump
  <2>4. NoJump'
    BY <1>2, <2>3 DEF NoJump, TimeAt, Place, Wrap
  <2> QED BY <2>1, <2>4
<1>5. OffsetsAgree'
  BY <1>2 DEF RingInv, OffsetsAgree, Wrap
<1>6. NextFollows'
  BY <1>2, LastStays DEF RingInv, NextFollows, Loading
<1>7. crash' => ghost'.lost
  BY <1>3 DEF RingInv
<1> QED BY <1>4, <1>5, <1>6, <1>7 DEF RingInv

LEMMA SyncRing == RingInv /\ SyncThread => RingInv'
<1> SUFFICES ASSUME RingInv, SyncThread PROVE RingInv'
  OBVIOUS
<1>1. Types /\ Types'
  BY SyncTypes DEF RingInv
<1>2. UNCHANGED <<ring, dec, crash>>
  BY DEF SyncThread, ProcessMessages, SyncPost, PauseDone, WaitSync, StartHardware, WaitAudio,
     AudioEnds, ResyncLater, ResyncNow, ResyncAnew, RestartFromStopped
<1>3. CASE WaitSync
  BY <1>1, <1>2, <1>3, PlayAudioRing, Members DEF WaitSync
<1>4. CASE ResyncNow
  BY <1>1, <1>2, <1>4, PlayAudioRing, Members DEF ResyncNow
<1>5. CASE ~(WaitSync \/ ResyncNow)
  <2>1. ghost'.lost = ghost.lost
    <3>1. ghost' = ghost \/ ghost' = [ghost EXCEPT !.missed = ghost.missed \/ NotYetWaiting]
      BY <1>5 DEF SyncThread, ProcessMessages, SyncPost, PauseDone, StartHardware, WaitAudio,
         AudioEnds, ResyncLater, ResyncAnew, RestartFromStopped
    <3> QED BY <1>1, <3>1 DEF Types, GhostTypes
  <2>2. buf' = buf \/ buf' = [buf EXCEPT !.firstTs = buf.resyncTs]
    BY <1>5 DEF SyncThread, ProcessMessages, SyncPost, PauseDone, StartHardware, WaitAudio,
       AudioEnds, ResyncLater, ResyncAnew, RestartFromStopped
  <2>3. /\ buf'.play = buf.play /\ buf'.filled = buf.filled /\ buf'.fill = buf.fill
        /\ buf'.resync = buf.resync /\ buf'.resyncAt = buf.resyncAt
        /\ buf'.firstFilled = buf.firstFilled /\ buf'.next = buf.next
    BY <1>1, <2>2 DEF Types, TypeOK, Buffer
  <2>4. NextFollows'
    BY <1>2, <2>3, LastStays DEF RingInv, NextFollows, Loading
  <2> QED BY <1>1, <1>2, <2>1, <2>3, <2>4, RingStays
<1> QED BY <1>3, <1>4, <1>5

LEMMA ControllerRing == RingInv /\ Controller => RingInv'
<1> SUFFICES ASSUME RingInv, Controller PROVE RingInv'
  OBVIOUS
<1>1. Types /\ Types'
  BY ControllerTypes DEF RingInv
<1>2. UNCHANGED <<ring, buf, crash, ghost>>
  BY DEF Controller
<1>3. /\ dec'.pc = dec.pc /\ dec'.need = dec.need /\ dec'.frame = dec.frame
      /\ dec'.silence = dec.silence
  <2>1. dec' = dec \/ \E pos \in 1 .. Len(stream) : dec' = [dec EXCEPT !.pos = pos]
    BY DEF Controller, Pause, PauseSync, WaitDone, PlaySync, Move, StartDecoding
  <2> QED BY <1>1, <2>1 DEF Types, TypeOK, Decoder
<1>4. NextFollows'
  BY <1>2, <1>3, LastStays DEF RingInv, NextFollows, Loading
<1> QED BY <1>1, <1>2, <1>4, RingStays

(* The callback takes what is next, and never passes a resync that waits.    *)
LEMMA CallbackRing == RingInv /\ AudioCallback => RingInv'
<1> SUFFICES ASSUME RingInv, AudioCallback PROVE RingInv'
  OBVIOUS
<1>1. Types /\ OffsetsAgree /\ Types'
  BY CallbackTypes DEF RingInv
<1>2. UNCHANGED <<ring, dec>>
  BY DEF AudioCallback, CallBack, CallEmpty, EnterCallback, CopyOut, Underrun, StopForResync,
     ReportReady, CallbackDone, CallbackPost
<1>3. buf \in Buffer
  BY <1>1 DEF Types, TypeOK
<1>4. buf.play \in 0 .. RingSize /\ buf.filled \in 0 .. RingSize /\ RingSize \in Nat
  BY <1>1, Members, Zeros
<1>5. CASE CallBack \/ CallEmpty \/ Underrun \/ StopForResync \/ ReportReady \/ CallbackDone
             \/ CallbackPost
  <2>1. UNCHANGED crash
    BY <1>5 DEF CallBack, CallEmpty, Underrun, StopForResync, ReportReady, CallbackDone, CallbackPost
  <2>2. ghost'.lost = ghost.lost
    BY <1>1, <1>5 DEF CallBack, CallEmpty, Underrun, StopForResync, ReportReady, CallbackDone,
       CallbackPost, Types, GhostTypes
  <2>3. buf' = buf \/ (buf.filled = 0 /\ buf' = [buf EXCEPT !.firstFilled = FALSE])
    BY <1>5 DEF CallBack, CallEmpty, Underrun, StopForResync, ReportReady, CallbackDone, CallbackPost
  <2>4. /\ buf'.play = buf.play /\ buf'.filled = buf.filled /\ buf'.fill = buf.fill
        /\ buf'.resync = buf.resync /\ buf'.resyncAt = buf.resyncAt /\ buf'.next = buf.next
        /\ buf.filled > 0 => buf'.firstFilled = buf.firstFilled
    BY <1>3, <2>3 DEF Buffer
  <2>5. NextFollows'
    BY <1>2, <2>4, LastStays DEF RingInv, NextFollows, Loading
  <2> QED BY <1>1, <1>2, <2>1, <2>2, <2>4, <2>5, RingStays
<1>6. ASSUME NEW n \in 0 .. buf.filled, buf'.play = buf.play + n \/ buf'.play = buf.play + n - RingSize,
             buf'.filled = buf.filled - n, buf'.fill = buf.fill, UNCHANGED crash,
             buf'.resync = buf.resync, buf'.resyncAt = buf.resyncAt,
             buf'.firstFilled = buf.firstFilled, buf'.next = buf.next,
             \/ ghost'.lost
             \/ /\ ~ghost.lost
                /\ ResyncWaits => (buf.resync => \A i \in 0 .. n - 1 : Place(i) # buf.resyncAt),
             ghost.lost => ghost'.lost
      PROVE  RingInv'
  <2>1. buf'.play \in 0 .. RingSize
    BY <1>1 DEF Types, TypeOK, Buffer
  <2>2. /\ OffsetsAgree'
        /\ buf'.filled > 0 => LastTime' = LastTime
        /\ NoJump => NoJump'
        /\ ResyncWaits /\ (buf.resync => \A i \in 0 .. n - 1 : Place(i) # buf.resyncAt)
             => ResyncWaits'
    BY <1>1, <1>2, <1>6, <2>1, Taking
  <2>3. buf'.filled > 0 => buf.filled > 0
    BY <1>4, <1>6
  <2>4. NextFollows'
    BY <1>2, <1>6, <2>2, <2>3 DEF RingInv, NextFollows, Loading
  <2>5. ghost'.lost \/ (NoJump' /\ ResyncWaits')
    BY <1>6, <2>2 DEF RingInv
  <2>6. crash' => ghost'.lost
    BY <1>6 DEF RingInv
  <2> QED BY <1>1, <2>2, <2>4, <2>5, <2>6 DEF RingInv
<1>7. CASE EnterCallback
  <2>1. PICK drop \in 0 .. buf.filled, add \in 0 .. 1 : Adjust(drop, add)
    BY <1>4, <1>7 DEF EnterCallback
  <2> DEFINE play == IF buf.play + drop > RingSize THEN buf.play + drop - RingSize
                     ELSE buf.play + drop
             filled == buf.filled - drop
             dropped == \E i \in 0 .. drop - 1 : Place(i) = buf.resyncAt
             lost == ghost.lost \/ (buf.resync /\ dropped)
             due == IF ghost.due = None THEN None ELSE ghost.due + drop
             adjusts == IF drop + add > 0 THEN ghost.adjusts + 1 ELSE ghost.adjusts
             stale == ghost.stale \/ ~flag.running
  <2>2. buf' = [buf EXCEPT !.filled = filled, !.play = play]
    BY <2>1 DEF Adjust
  <2>3. ghost' = [ghost EXCEPT !.adjusts = adjusts, !.stale = stale, !.due = due, !.lost = lost]
    BY <2>1 DEF Adjust
  <2>4. play = buf.play + drop \/ play = buf.play + drop - RingSize
    OBVIOUS
  <2> HIDE DEF play, adjusts, due, lost, stale
  <2>5. /\ buf'.play = play /\ buf'.filled = buf.filled - drop /\ buf'.fill = buf.fill
        /\ buf'.resync = buf.resync /\ buf'.resyncAt = buf.resyncAt
        /\ buf'.firstFilled = buf.firstFilled /\ buf'.next = buf.next
    BY <1>3, <2>2 DEF Buffer
  <2>6. ghost'.lost = lost
    BY <1>1, <2>3 DEF Types, GhostTypes
  <2>7. lost = (ghost.lost \/ (buf.resync /\ dropped))
    BY DEF lost
  <2>8. \/ ghost'.lost
        \/ ~ghost.lost /\ (buf.resync => \A i \in 0 .. drop - 1 : Place(i) # buf.resyncAt)
    BY <2>6, <2>7
  <2>9. UNCHANGED crash  BY <1>7 DEF EnterCallback
  <2> QED BY <1>6, <2>4, <2>5, <2>6, <2>7, <2>8, <2>9
<1>8. CASE CopyOut
  <2>1. /\ Decoded \in Nat /\ buf.play + Decoded <= RingSize /\ Chunk \in Nat
        /\ Chunk <= Decoded /\ buf.play + Chunk <= RingSize
    BY <1>1, DecodedRange
  <2>2. CASE Chunk > buf.filled
    <3>1. crash' = TRUE /\ UNCHANGED <<buf, ghost>>
      BY <1>8, <2>2 DEF CopyOut
    <3>2. Decoded > buf.filled
      BY <1>4, <2>1, <2>2
    <3>3. buf.resync
      BY <1>4, <3>2 DEF Decoded
    <3>4. ghost.lost
      BY <1>1, <1>4, <2>1, <3>2, <3>3, ResyncAhead DEF RingInv
    <3>5. OffsetsAgree'
      BY <3>1 DEF RingInv, OffsetsAgree, Wrap
    <3>6. NextFollows'
      BY <1>2, <3>1, LastStays DEF RingInv, NextFollows, Loading
    <3> QED BY <1>1, <3>1, <3>4, <3>5, <3>6 DEF RingInv
  <2>3. CASE ~(Chunk > buf.filled)
    <3> DEFINE play == IF buf.play + Chunk >= RingSize THEN 0 ELSE buf.play + Chunk
               filled == buf.filled - Chunk
    <3>1. buf' = [buf EXCEPT !.play = play, !.filled = filled] /\ UNCHANGED crash
      BY <1>8, <2>3 DEF CopyOut
    <3>2. play = buf.play + Chunk \/ play = buf.play + Chunk - RingSize
      BY <1>4, <2>1
    <3> HIDE DEF play
    <3>3. /\ buf'.play = play /\ buf'.filled = buf.filled - Chunk /\ buf'.fill = buf.fill
          /\ buf'.resync = buf.resync /\ buf'.resyncAt = buf.resyncAt
          /\ buf'.firstFilled = buf.firstFilled /\ buf'.next = buf.next
      BY <1>3, <3>1 DEF Buffer
    <3>4. ghost'.lost = ghost.lost
      <4>1. CASE Chunk = 0
        BY <1>8, <2>3, <4>1 DEF CopyOut
      <4>2. CASE Chunk # 0
        <5> DEFINE heard == [i \in 0 .. Chunk - 1 |-> TimeAt(Place(i))]
                   broken == ghost.broken \/ (\E i \in 1 .. Chunk - 1 : heard[i] # heard[0] + i)
                               \/ (ghost.due # None /\ heard[0] # ghost.due)
                   due == heard[Chunk - 1] + 1
                   start == IF ghost.start = None THEN heard[0] ELSE ghost.start
        <5>1. ghost' = [ghost EXCEPT !.broken = broken, !.due = due, !.start = start]
          BY <1>8, <2>3, <4>2, Zenon DEF CopyOut
        <5> HIDE DEF broken, due, start
        <5> QED BY <1>1, <5>1 DEF Types, GhostTypes
      <4> QED BY <4>1, <4>2
    <3>5. Chunk \in 0 .. buf.filled
      BY <1>4, <2>1, <2>3
    <3>6. ResyncWaits => (buf.resync => \A i \in 0 .. Chunk - 1 : Place(i) # buf.resyncAt)
      BY <1>1, <2>1, ResyncAhead
    <3>7. ghost.lost \in BOOLEAN
      BY <1>1, GhostMembers
    <3> HIDE DEF filled
    <3> QED BY <1>6, <3>1, <3>2, <3>3, <3>4, <3>5, <3>6, <3>7
  <2> QED BY <2>2, <2>3
<1> QED BY <1>5, <1>7, <1>8 DEF AudioCallback

LEMMA InitRing == Init => RingInv
<1> SUFFICES ASSUME Init PROVE RingInv
  OBVIOUS
<1>1. Types
  BY InitTypes
<1>2. /\ buf.play = 0 /\ buf.filled = 0 /\ buf.fill = 0 /\ buf.resync = FALSE
      /\ dec.pc = "top" /\ crash = FALSE
  BY DEF Init
<1>3. 0 - RingSize <= 0 /\ 0 <= 2 * RingSize /\ RingSize > 0 /\ 0 \in Int
  BY SizesAssumption
<1>4. Wrap(0) = 0  BY <1>3, WrapIs
<1> QED BY <1>1, <1>2, <1>4 DEF RingInv, OffsetsAgree, NoJump, ResyncWaits, NextFollows, Loading

LEMMA NextRing == RingInv /\ [Next]_vars => RingInv'
<1> SUFFICES ASSUME RingInv, [Next]_vars PROVE RingInv'
  OBVIOUS
<1>1. CASE DecodeThread
  BY <1>1, ParseRing, LoadRing, FillRing DEF DecodeThread
<1>2. CASE AudioCallback  BY <1>2, CallbackRing
<1>3. CASE SyncThread  BY <1>3, SyncRing
<1>4. CASE Controller  BY <1>4, ControllerRing
<1>5. CASE UNCHANGED vars
  <2>1. Types'
    BY <1>5, NextTypes DEF RingInv
  <2>2. UNCHANGED <<ring, buf, dec, crash, ghost>>
    BY <1>5 DEF vars
  <2>3. NextFollows'
    BY <2>2, LastStays DEF RingInv, NextFollows, Loading
  <2> QED BY <2>1, <2>2, <2>3, RingStays
<1> QED BY <1>1, <1>2, <1>3, <1>4, <1>5 DEF Next

LEMMA RingAlways == Spec => []RingInv
BY InitRing, NextRing, PTL DEF Spec

(* fill_silence, load_audio_buffer and audio_buffer_callback: the three      *)
(* offsets of the ring agree across every wrap, and the sound that waits has *)
(* no jump but at the resync that is pending, unless a resync was lost.      *)
THEOREM SoundInOrder == Spec => []RingInOrder
<1>1. RingInv => RingInOrder
  BY DEF RingInv, RingInOrder
<1> QED BY RingAlways, <1>1, PTL

(* audio_buffer_callback: m_filled_bytes, which is unsigned, does go below   *)
(* zero, but only after a resync that was noted has been lost: left over a   *)
(* flush, cleared by play_audio, overwritten, or passed by a correction.     *)
THEOREM BelowZeroIfLost == Spec => []UnderflowOnlyIfLost
<1>1. RingInv => UnderflowOnlyIfLost
  BY DEF RingInv, UnderflowOnlyIfLost
<1> QED BY RingAlways, <1>1, PTL

-----------------------------------------------------------------------------
(* The clock.  How a pause and a restart are passed on between the threads.  *)

LastOf(q) == q[Len(q)]

(* The messages to the decode thread and those to the sync thread end with   *)
(* what the controller has sent last.                                        *)
LastSent == IF ctl.pc = "playing" THEN "START" ELSE "PAUSE"
QueueEnds == ctl.queue # << >> => LastOf(ctl.queue) = LastSent

(* The sync thread flushes the sound, because of a pause. *)
Closing == sync.pc \in {"post", "done"}
PauseSent == sync.queue # << >> /\ LastOf(sync.queue) = "PAUSE"
StartSent == sync.queue # << >> /\ LastOf(sync.queue) = "START"
PauseTaken == ctl.pc = "paused" \/ (ctl.pc = "waitDone" /\ sync.done)

SyncPhases ==
  /\ Closing => sync.state = "PAUSED" /\ sync.queue = << >> /\ ~sync.done
  /\ Closing \/ PauseSent => ctl.pc = "waitDone" /\ ~sync.done
  /\ PauseTaken => sync.state = "PAUSED" /\ sync.queue = << >>
  /\ StartSent => sync.state = "PAUSED"
  /\ sync.state = "PAUSED" => ~flag.running /\ sync.pc # "start"
  /\ sync.pc = "start" => sync.state \in {"WAIT_AUDIO", "PLAYING"}

(* From the flush of the sync thread to the moment the decode thread takes   *)
(* the message to go on, the sound does not run, and the ring is not filled: *)
(* it refuses to be (m_dont_fill), or the decode thread has flushed it and   *)
(* does not load frames.                                                     *)
StartQueued == \E i \in DOMAIN ctl.queue : ctl.queue[i] = "START"
RestartPending ==
  \/ ctl.pc = "waitDone" /\ (sync.done \/ Closing)
  \/ ctl.pc \in {"paused", "move", "startDecoding"}
  \/ StartQueued
NobodyFills == dec.pc = "wait" \/ (dec.pc = "top" /\ ctl.queue # << >>)
RingRests ==
  RestartPending =>
    /\ sync.state \in {"PAUSED", "WAIT_SYNC"} /\ sync.pc # "start" /\ ~flag.running
    /\ flag.dontFill \/ (buf.filled = 0 /\ NobodyFills)

FlushedOrTold == sync.state \in {"PAUSED", "WAIT_SYNC"} => flag.paused \/ flag.dontFill

Protocol == QueueEnds /\ SyncPhases /\ RingRests /\ FlushedOrTold

-----------------------------------------------------------------------------
(* The time of the sound. *)

AtResync(d) == buf.resync /\ Place(d) = buf.resyncAt

(* Between any two units that wait the time goes on, or there is a resync.   *)
InLine ==
  \A j \in 0 .. buf.filled - 1 : \A i \in 0 .. j :
    \/ TimeAt(Place(j)) = TimeAt(Place(i)) + (j - i)
    \/ \E k \in i + 1 .. j : AtResync(k)

(* m_first_ts is the time of the resync that waits. *)
ResyncTimed ==
  buf.resync =>
    buf.firstTs = buf.resyncTs /\ TimeAt(buf.resyncAt) = buf.resyncTs /\ buf.firstFilled

FrameFollows ==
  Loading /\ ~dec.need /\ buf.firstFilled => dec.frame = buf.next + dec.silence

TimeInv == FrameFollows /\ (ghost.lost \/ (InLine /\ ResyncTimed))

-----------------------------------------------------------------------------
(* The clock. *)

(* After a flush nothing moves until the decode thread is told to go on. *)
Drained ==
  /\ buf.filled = 0 /\ ~buf.resync /\ NobodyFills
  /\ ghost.due = None /\ ghost.start = None /\ ghost.clock = None
  /\ cb.pc \notin {"copy", "underrun", "resync", "report"}

SilentWhilePaused ==
  /\ sync.pc = "top" /\ flag.paused => ~flag.running
  /\ sync.state = "WAIT_SYNC" => ~flag.running
  /\ sync.state \in {"WAIT_AUDIO", "PLAYING"} /\ sync.pc = "top" /\ flag.paused =>
       cb.pc \notin {"called", "copy", "underrun"}

(* When the sound is being started, the callback that may still be under way *)
(* will not run out of sound and not come to a resync.                       *)
Margin == IF cb.pc = "called" THEN 2 * OutSize
          ELSE IF cb.pc = "copy" THEN OutSize + cb.len
          ELSE IF cb.pc = "underrun" THEN OutSize ELSE 0
Starting ==
  sync.pc = "start" =>
    /\ ~flag.running /\ ~flag.paused
    /\ cb.pc = "called" => flag.firstCall
    /\ buf.filled >= Margin
    /\ cb.pc \in {"called", "copy", "underrun"} /\ buf.resync =>
         \E d \in Margin .. buf.filled - 1 : Place(d) = buf.resyncAt
    /\ cb.pc = "resync" => ~(buf.resync /\ buf.play = buf.resyncAt)

(* What is heard next continues what was heard last. *)
Halted == ~flag.running /\ sync.pc # "start" /\ cb.pc \notin {"called", "copy"}
Continues ==
  IF buf.filled > 0 THEN TimeAt(Place(0)) = ghost.due \/ AtResync(0)
  ELSE IF dec.pc = "frame" THEN dec.need \/ ghost.due = dec.frame
  ELSE buf.firstFilled /\ ghost.due = buf.next
GoesOn == Halted \/ ghost.due = None \/ Continues

(* m_first_ts is the time of what is heard first, as long as it matters. *)
Sure == ~ghost.early /\ ~ghost.stale
FirstIsNext ==
  IF buf.filled > 0 THEN buf.resync \/ buf.firstTs = TimeAt(Place(0)) ELSE ~buf.firstFilled
InCallback == cb.pc \in {"copy", "underrun", "resync", "report"}
Unheard == flag.firstCall /\ ghost.start = None
ClockSet ==
  Sure =>
    /\ flag.firstCall => ~buf.resync
    /\ flag.paused \/ Unheard => FirstIsNext
    /\ flag.paused => cb.pc \notin {"copy", "underrun"}
    /\ flag.firstCall /\ ghost.start # None => buf.firstTs = ghost.start /\ InCallback
    /\ Unheard /\ InCallback => cb.pc = "copy" /\ buf.filled > 0 /\ cb.len > 0
    /\ ghost.clock # None => ghost.clock = ghost.start
    /\ buf.filled > 0 => buf.firstFilled

Live == SilentWhilePaused /\ Starting /\ GoesOn /\ ClockSet

ClockInv == ghost.lost \/ (~ghost.broken /\ (Drained \/ Live))

-----------------------------------------------------------------------------
(* The messages. *)

(* Steps that leave the messages alone. *)
LEMMA ProtocolStays ==
  ASSUME Protocol, UNCHANGED <<sync, ctl>>, flag'.running => flag.running,
         flag'.dontFill = flag.dontFill, flag.paused => flag'.paused,
         buf.filled = 0 /\ NobodyFills => buf'.filled = 0 /\ NobodyFills'
  PROVE  Protocol'
<1>1. QueueEnds'
  BY DEF Protocol, QueueEnds, LastOf, LastSent
<1>2. SyncPhases'
  BY DEF Protocol, SyncPhases, Closing, PauseSent, StartSent, PauseTaken, LastOf
<1>3. RingRests'
  BY DEF Protocol, RingRests, RestartPending, StartQueued, Closing
<1>4. FlushedOrTold'
  BY DEF Protocol, FlushedOrTold
<1> QED BY <1>1, <1>2, <1>3, <1>4 DEF Protocol

(* The first message of a queue is taken: it is the last one only if nothing *)
(* is left.                                                                  *)
LEMMA TailEnds ==
  ASSUME NEW q \in Seq({"START", "PAUSE"}), q # << >>
  PROVE  /\ Tail(q) # << >> => LastOf(Tail(q)) = LastOf(q)
         /\ Tail(q) = << >> => LastOf(q) = Head(q)
         /\ \A i \in DOMAIN Tail(q) : i + 1 \in DOMAIN q /\ Tail(q)[i] = q[i + 1]
         /\ Head(q) = q[1] /\ 1 \in DOMAIN q
<1>1. Len(q) \in Nat \ {0} /\ DOMAIN q = 1 .. Len(q)
  BY EmptySeq
<1>2. /\ Tail(q) \in Seq({"START", "PAUSE"}) /\ Len(Tail(q)) = Len(q) - 1
      /\ \A i \in 1 .. Len(q) - 1 : Tail(q)[i] = q[i + 1]
  BY HeadTailProperties, EmptySeq
<1>3. DOMAIN Tail(q) = 1 .. Len(q) - 1
  BY <1>2
<1>4. Head(q) = q[1]
  OBVIOUS
<1>5. Tail(q) # << >> => LastOf(Tail(q)) = LastOf(q)
  <2> SUFFICES ASSUME Tail(q) # << >> PROVE LastOf(Tail(q)) = LastOf(q)
    OBVIOUS
  <2>1. Len(Tail(q)) # 0
    BY <1>2, EmptySeq
  <2>2. Len(q) - 1 \in 1 .. Len(q) - 1 /\ (Len(q) - 1) + 1 = Len(q)
    BY <1>1, <1>2, <2>1
  <2>3. Tail(q)[Len(q) - 1] = q[Len(q)]
    BY <1>2, <2>2
  <2> QED BY <1>2, <2>3 DEF LastOf
<1>6. Tail(q) = << >> => LastOf(q) = Head(q)
  <2> SUFFICES ASSUME Tail(q) = << >> PROVE LastOf(q) = Head(q)
    OBVIOUS
  <2>0. Len(<< >>) = 0
    BY EmptySeq
  <2>1. Len(Tail(q)) = 0
    BY <2>0, Zenon
  <2>2. Len(q) = 1
    <3>1. Len(q) - 1 = 0
      BY <1>2, <2>1, Zenon
    <3> QED BY <1>1, <3>1
  <2> QED BY <1>4, <2>2 DEF LastOf
<1>7. \A i \in DOMAIN Tail(q) : i + 1 \in DOMAIN q /\ Tail(q)[i] = q[i + 1]
  BY <1>1, <1>2, <1>3
<1> QED BY <1>1, <1>4, <1>5, <1>6, <1>7

LEMMA AppendEnds ==
  ASSUME NEW q \in Seq({"START", "PAUSE"}), NEW m \in {"START", "PAUSE"}
  PROVE  /\ Append(q, m) # << >> /\ LastOf(Append(q, m)) = m
         /\ \A i \in DOMAIN Append(q, m) :
              (i \in DOMAIN q /\ Append(q, m)[i] = q[i]) \/ Append(q, m)[i] = m
<1>1. /\ Append(q, m) \in Seq({"START", "PAUSE"}) /\ Len(Append(q, m)) = Len(q) + 1
      /\ Append(q, m)[Len(q) + 1] = m /\ Len(q) \in Nat
      /\ \A i \in 1 .. Len(q) : Append(q, m)[i] = q[i]
  BY AppendProperties
<1>2. Append(q, m) # << >>
  BY <1>1, EmptySeq
<1>3. DOMAIN Append(q, m) = 1 .. Len(q) + 1 /\ DOMAIN q = 1 .. Len(q)
  BY <1>1
<1> QED BY <1>1, <1>2, <1>3 DEF LastOf

(* A message is taken by the decode thread, which flushes. *)
LEMMA ParseProtocol == Types /\ Protocol /\ ParseMessage => Protocol'
<1> SUFFICES ASSUME Types, Protocol, ParseMessage PROVE Protocol'
  OBVIOUS
<1>1. /\ ctl.queue \in Seq({"START", "PAUSE"}) /\ ctl.queue # << >> /\ ctl \in Control
      /\ dec \in Decoder /\ buf \in Buffer /\ flag \in Flags
  BY DEF ParseMessage, Types, TypeOK, Control
<1>2. ctl'.queue = Tail(ctl.queue) /\ ctl'.pc = ctl.pc /\ UNCHANGED sync
  BY <1>1 DEF ParseMessage, Control
<1>3. /\ flag'.dontFill = FALSE /\ flag'.paused = TRUE /\ flag'.running = flag.running
      /\ buf'.filled = 0
  BY <1>1 DEF ParseMessage, FlushDecodeBuffers, Flags, Buffer
<1>4. dec'.pc = IF Head(ctl.queue) = "START" THEN "top" ELSE "wait"
  BY <1>1 DEF ParseMessage, Decoder
<1>5. QueueEnds'
  BY <1>1, <1>2, TailEnds DEF Protocol, QueueEnds, LastSent
<1>6. SyncPhases'
  BY <1>2, <1>3 DEF Protocol, SyncPhases, Closing, PauseSent, StartSent, PauseTaken, LastOf
<1>7. FlushedOrTold'
  BY <1>3 DEF FlushedOrTold
<1>8. ASSUME RestartPending'
      PROVE  RestartPending /\ NobodyFills'
  <2>1. RestartPending
    <3>1. CASE StartQueued'
      <4>1. PICK i \in DOMAIN ctl'.queue : ctl'.queue[i] = "START"
        BY <3>1 DEF StartQueued
      <4>2. i + 1 \in DOMAIN ctl.queue /\ ctl.queue[i + 1] = "START"
        BY <1>1, <1>2, <4>1, TailEnds
      <4> QED BY <4>2 DEF RestartPending, StartQueued
    <3>2. CASE ~StartQueued'
      BY <1>2, <1>8, <3>2 DEF RestartPending, Closing
    <3> QED BY <3>1, <3>2
  <2>2. CASE Head(ctl.queue) # "START"
    BY <1>4, <2>1, <2>2 DEF NobodyFills
  <2>3. CASE Head(ctl.queue) = "START"
    <3>1. ctl'.queue # << >>
      <4>1. CASE StartQueued'
        <5>1. PICK i \in DOMAIN ctl'.queue : ctl'.queue[i] = "START"
          BY <4>1 DEF StartQueued
        <5>2. DOMAIN << >> = {}
          OBVIOUS
        <5> QED BY <5>1, <5>2
      <4>2. CASE ~StartQueued'
        <5>1. LastSent = "PAUSE"
          BY <1>2, <1>8, <4>2 DEF RestartPending, LastSent
        <5>2. LastOf(ctl.queue) = "PAUSE"
          BY <1>1, <5>1 DEF Protocol, QueueEnds
        <5>3. Tail(ctl.queue) = << >> => LastOf(ctl.queue) = Head(ctl.queue)
          BY <1>1, TailEnds
        <5>4. LastOf(ctl.queue) # Head(ctl.queue)
          BY <2>3, <5>2
        <5>5. Tail(ctl.queue) # << >>
          BY <5>3, <5>4, Zenon
        <5> QED BY <1>2, <5>5, Zenon
      <4> QED BY <4>1, <4>2
    <3> QED BY <1>4, <2>1, <2>3, <3>1 DEF NobodyFills
  <2> QED BY <2>1, <2>2, <2>3
<1>9. RingRests'
  BY <1>2, <1>3, <1>8 DEF Protocol, RingRests
<1> QED BY <1>5, <1>6, <1>7, <1>9 DEF Protocol

(* The other steps of the decode thread. *)
LEMMA DecodeProtocol ==
  ASSUME Types, Protocol, DecodeThread, ~ParseMessage
  PROVE  Protocol'
<1>1. UNCHANGED <<sync, ctl>>
  BY DEF DecodeThread, NextFrame, LoadFrame, AwaitResync, CheckForBytes, GiveUp, Announce,
     Awake, FillSilence, FillFrame
<1>2. flag' = flag \/ flag' = [flag EXCEPT !.eof = TRUE] \/ flag' = [flag EXCEPT !.waiting = TRUE]
        \/ flag' = [flag EXCEPT !.waiting = FALSE]
  BY DEF DecodeThread, NextFrame, LoadFrame, AwaitResync, CheckForBytes, GiveUp, Announce,
     Awake, FillSilence, FillFrame
<1>3. flag \in Flags
  BY DEF Types, TypeOK
<1>4. /\ flag'.running = flag.running /\ flag'.dontFill = flag.dontFill
      /\ flag'.paused = flag.paused
  BY <1>2, <1>3 DEF Flags
<1>5. ~NobodyFills
  BY DEF DecodeThread, NextFrame, LoadFrame, AwaitResync, CheckForBytes, GiveUp, Announce,
     Awake, FillSilence, FillFrame, DStep, NobodyFills
<1> QED BY <1>1, <1>4, <1>5, ProtocolStays

(* What a callback does to the flags and the level. *)
LEMMA CallbackSteps ==
  ASSUME Types, AudioCallback
  PROVE  /\ UNCHANGED <<stream, ring, dec, sync, ctl>>
         /\ \/ flag' = flag \/ flag' = Stopped \/ flag' = [flag EXCEPT !.waiting = FALSE]
            \/ flag' = [flag EXCEPT !.firstCall = FALSE, !.awaited = FALSE]
         /\ flag'.running => flag.running
         /\ flag'.dontFill = flag.dontFill /\ (flag.paused => flag'.paused)
         /\ buf.filled = 0 => buf'.filled = 0
<1>1. UNCHANGED <<stream, ring, dec, sync, ctl>>
  BY DEF AudioCallback, CallBack, CallEmpty, EnterCallback, CopyOut, Underrun, StopForResync,
     ReportReady, CallbackDone, CallbackPost
<1>2. \/ flag' = flag \/ flag' = Stopped \/ flag' = [flag EXCEPT !.waiting = FALSE]
      \/ flag' = [flag EXCEPT !.firstCall = FALSE, !.awaited = FALSE]
  BY DEF AudioCallback, CallBack, CallEmpty, EnterCallback, CopyOut, Underrun, StopForResync,
     ReportReady, CallbackDone, CallbackPost
<1>3. flag \in Flags /\ buf \in Buffer
  BY DEF Types, TypeOK
<1>4. /\ flag'.running => flag.running
      /\ flag'.dontFill = flag.dontFill /\ (flag.paused => flag'.paused)
  BY <1>2, <1>3 DEF Stopped, Flags
<1>5. ASSUME buf.filled = 0 PROVE buf'.filled = 0
  <2>1. CASE CopyOut
    <3>1. CASE Chunk > buf.filled
      BY <1>5, <2>1, <3>1 DEF CopyOut
    <3>2. CASE ~(Chunk > buf.filled)
      <4>1. Chunk = 0
        BY <1>5, <3>2, DecodedRange
      <4> DEFINE play == IF buf.play + Chunk >= RingSize THEN 0 ELSE buf.play + Chunk
                 filled == buf.filled - Chunk
      <4>2. buf' = [buf EXCEPT !.play = play, !.filled = filled]
        BY <2>1, <3>2 DEF CopyOut
      <4>3. filled = 0
        BY <1>5, <4>1
      <4> HIDE DEF play, filled
      <4> QED BY <1>3, <4>2, <4>3 DEF Buffer
    <3> QED BY <3>1, <3>2
  <2>2. CASE EnterCallback
    BY <1>3, <1>5, <2>2 DEF EnterCallback, Buffer
  <2>3. CASE ~(CopyOut \/ EnterCallback)
    <3>1. buf' = buf \/ buf' = [buf EXCEPT !.firstFilled = FALSE]
      BY <2>3 DEF AudioCallback, CallBack, CallEmpty, Underrun, StopForResync, ReportReady,
         CallbackDone, CallbackPost
    <3> QED BY <1>3, <1>5, <3>1 DEF Buffer
  <2> QED BY <2>1, <2>2, <2>3
<1> QED BY <1>1, <1>2, <1>4, <1>5

LEMMA CallbackProtocol ==
  ASSUME Types, Protocol, AudioCallback
  PROVE  Protocol'
<1>1. UNCHANGED <<sync, ctl, dec>>
  BY CallbackSteps
<1>2. NobodyFills => NobodyFills'
  BY <1>1 DEF NobodyFills
<1> QED BY <1>1, <1>2, CallbackSteps, ProtocolStays

LEMMA SyncProtocol ==
  ASSUME Types, Protocol, SyncThread
  PROVE  Protocol'
<1>1. /\ sync \in Sync /\ flag \in Flags /\ buf \in Buffer
      /\ sync.queue \in Seq({"START", "PAUSE"})
  BY DEF Types, TypeOK, Sync
<1>2. UNCHANGED <<ctl, dec>>
  BY DEF SyncThread, ProcessMessages, SyncPost, PauseDone, WaitSync, StartHardware, WaitAudio,
     AudioEnds, ResyncLater, ResyncNow, ResyncAnew, RestartFromStopped
<1>3. buf'.filled = buf.filled
  BY <1>1 DEF SyncThread, ProcessMessages, SyncPost, PauseDone, WaitSync, StartHardware, WaitAudio,
     AudioEnds, ResyncLater, ResyncNow, ResyncAnew, RestartFromStopped, PlayAudio, Buffer
<1>4. QueueEnds' /\ (NobodyFills' <=> NobodyFills) /\ (StartQueued' <=> StartQueued)
  BY <1>2 DEF Protocol, QueueEnds, LastSent, LastOf, NobodyFills, StartQueued
<1>5. SUFFICES SyncPhases' /\ RingRests' /\ FlushedOrTold'
  BY <1>4 DEF Protocol
<1>6. CASE ProcessMessages
  <2>0. sync.pc = "top" /\ sync.queue # << >>
    BY <1>6 DEF ProcessMessages
  <2>1. ~PauseTaken /\ ~Closing
    BY <2>0 DEF Protocol, SyncPhases, Closing
  <2>2. LastOf(sync.queue) = "START" \/ LastOf(sync.queue) = "PAUSE"
    <3>1. Len(sync.queue) \in DOMAIN sync.queue
      BY <1>1, <2>0, EmptySeq
    <3> QED BY <1>1, <3>1 DEF LastOf
  <2>3. CASE LastOf(sync.queue) = "START"
    <3>1. StartSent
      BY <2>0, <2>3 DEF StartSent
    <3>2. sync.state = "PAUSED" /\ ~flag.running
      BY <3>1 DEF Protocol, SyncPhases
    <3>3. /\ sync' = [sync EXCEPT !.state = "WAIT_SYNC", !.queue = << >>] /\ flag' = flag
      BY <1>6, <2>3 DEF ProcessMessages, LastOf
    <3>4. /\ sync'.pc = "top" /\ sync'.state = "WAIT_SYNC" /\ sync'.queue = << >>
          /\ sync'.done = sync.done
      BY <1>1, <2>0, <3>3 DEF Sync
    <3>5. ~PauseTaken' /\ ~Closing' /\ ~PauseSent' /\ ~StartSent'
      BY <1>2, <2>1, <3>4 DEF PauseTaken, Closing, PauseSent, StartSent
    <3>6. SyncPhases'
      BY <3>4, <3>5 DEF SyncPhases
    <3>7. RingRests'
      BY <1>2, <1>3, <1>4, <2>0, <3>2, <3>3, <3>4, <3>5 DEF Protocol, RingRests, RestartPending, Closing
    <3>8. FlushedOrTold'
      BY <3>2, <3>3 DEF Protocol, FlushedOrTold
    <3> QED BY <3>6, <3>7, <3>8
  <2>4. CASE LastOf(sync.queue) = "PAUSE"
    <3>1. ctl.pc = "waitDone" /\ ~sync.done
      BY <2>0, <2>4 DEF Protocol, SyncPhases, PauseSent
    <3>2. CASE sync.state = "PAUSED"
      <4>1. sync' = [sync EXCEPT !.state = "PAUSED", !.queue = << >>] /\ flag' = flag
        BY <1>6, <2>4, <3>2 DEF ProcessMessages, LastOf
      <4>2. /\ sync'.pc = "top" /\ sync'.state = "PAUSED" /\ sync'.queue = << >>
            /\ sync'.done = sync.done
        BY <1>1, <2>0, <4>1 DEF Sync
      <4>3. ~PauseTaken' /\ ~Closing' /\ ~PauseSent' /\ ~StartSent'
        BY <1>2, <2>1, <4>2 DEF PauseTaken, Closing, PauseSent, StartSent
      <4>4. ~flag'.running
        BY <3>2, <4>1 DEF Protocol, SyncPhases
      <4>5. SyncPhases'
        BY <4>2, <4>3, <4>4 DEF SyncPhases
      <4>6. RingRests'
        BY <1>2, <1>3, <1>4, <3>2, <4>1, <4>2, <4>3, <4>4 DEF Protocol, RingRests, RestartPending, Closing
      <4>7. FlushedOrTold'
        BY <3>2, <4>1 DEF Protocol, FlushedOrTold
      <4> QED BY <4>5, <4>6, <4>7
    <3>3. CASE sync.state # "PAUSED"
      <4> DEFINE pc == IF flag.waiting THEN "post" ELSE "done"
      <4>1. /\ sync' = [sync EXCEPT !.state = "PAUSED", !.queue = << >>, !.pc = pc]
            /\ flag' = [flag EXCEPT !.eof = FALSE, !.running = FALSE, !.dontFill = TRUE]
        BY <1>6, <2>4, <3>3 DEF ProcessMessages, LastOf
      <4>2. pc \in {"post", "done"}
        OBVIOUS
      <4> HIDE DEF pc
      <4>3. /\ sync'.pc = pc /\ sync'.state = "PAUSED" /\ sync'.queue = << >>
            /\ sync'.done = sync.done
        BY <1>1, <4>1 DEF Sync
      <4>4. ~flag'.running /\ flag'.dontFill
        BY <1>1, <4>1 DEF Flags
      <4>5. ~PauseTaken' /\ Closing' /\ ~PauseSent' /\ ~StartSent' /\ sync'.pc # "start"
        BY <1>2, <3>1, <4>2, <4>3 DEF PauseTaken, Closing, PauseSent, StartSent
      <4>6. SyncPhases'
        BY <1>2, <3>1, <4>3, <4>4, <4>5 DEF SyncPhases
      <4>7. RingRests'
        BY <4>3, <4>4, <4>5 DEF RingRests
      <4>8. FlushedOrTold'
        BY <4>4 DEF FlushedOrTold
      <4> QED BY <4>6, <4>7, <4>8
    <3> QED BY <3>2, <3>3
  <2> QED BY <2>2, <2>3, <2>4
<1>7. CASE SyncPost \/ PauseDone
  <2>1. /\ sync.pc \in {"post", "done"} /\ sync.state = "PAUSED" /\ sync.queue = << >>
        /\ ~sync.done /\ ctl.pc = "waitDone"
    BY <1>7 DEF SyncPost, PauseDone, Protocol, SyncPhases, Closing
  <2>2. /\ flag'.running = flag.running /\ flag'.dontFill = flag.dontFill
        /\ flag'.paused = flag.paused
    BY <1>1, <1>7 DEF SyncPost, PauseDone, Flags
  <2>3. /\ sync'.state = "PAUSED" /\ sync'.queue = << >>
        /\ \/ sync'.pc = "done" /\ ~sync'.done
           \/ sync'.pc = "top" /\ sync'.done
    BY <1>1, <1>7, <2>1 DEF SyncPost, PauseDone, Sync
  <2>4. ~flag.running
    BY <2>1 DEF Protocol, SyncPhases
  <2>5. SyncPhases'
    BY <1>2, <2>1, <2>2, <2>3, <2>4 DEF SyncPhases, Closing, PauseSent, StartSent, PauseTaken
  <2>6. RingRests'
    BY <1>2, <1>3, <1>4, <2>1, <2>2, <2>3, <2>4 DEF Protocol, RingRests, RestartPending, Closing
  <2>7. FlushedOrTold'
    BY <2>1, <2>2 DEF Protocol, FlushedOrTold
  <2> QED BY <2>5, <2>6, <2>7
<1>8. CASE WaitSync \/ ResyncNow
  <2>1. /\ sync.pc = "top" /\ sync.state \in {"WAIT_SYNC", "PLAYING"} /\ sync.queue = << >>
        /\ sync'.pc = "start" /\ sync'.state \in {"WAIT_AUDIO", "PLAYING"}
        /\ sync'.queue = << >> /\ sync'.done = sync.done
    BY <1>1, <1>8 DEF WaitSync, ResyncNow, ResyncDue, AtTop, Sync
  <2>2. ~RestartPending
    <3>1. CASE WaitSync
      <4>1. buf.filled # 0 /\ ~flag.dontFill
        BY <3>1, SizesAssumption DEF WaitSync
      <4> QED BY <4>1 DEF Protocol, RingRests
    <3>2. CASE ResyncNow
      <4>1. sync.state = "PLAYING"
        BY <3>2 DEF ResyncNow, ResyncDue, AtTop
      <4> QED BY <4>1 DEF Protocol, RingRests
    <3> QED BY <1>8, <3>1, <3>2
  <2>3. ~RestartPending'
    BY <1>2, <1>4, <2>1, <2>2 DEF RestartPending, Closing
  <2>4. SyncPhases'
    BY <1>2, <2>1 DEF Protocol, SyncPhases, Closing, PauseSent, StartSent, PauseTaken
  <2>5. RingRests' /\ FlushedOrTold'
    BY <2>1, <2>3 DEF RingRests, FlushedOrTold
  <2> QED BY <2>4, <2>5
<1>9. CASE StartHardware
  <2>1. /\ sync.pc = "start" /\ sync.state \in {"WAIT_AUDIO", "PLAYING"}
        /\ sync'.pc = "top" /\ sync'.state = sync.state
        /\ sync'.queue = sync.queue /\ sync'.done = sync.done
    BY <1>1, <1>9 DEF StartHardware, Sync, Protocol, SyncPhases
  <2>2. ~RestartPending
    BY <2>1 DEF Protocol, RingRests
  <2>3. ~RestartPending'
    BY <1>2, <1>4, <2>1, <2>2 DEF RestartPending, Closing
  <2>4. SyncPhases'
    BY <1>2, <2>1 DEF Protocol, SyncPhases, Closing, PauseSent, StartSent, PauseTaken, LastOf
  <2>5. RingRests' /\ FlushedOrTold'
    BY <2>1, <2>3 DEF RingRests, FlushedOrTold
  <2> QED BY <2>4, <2>5
<1>10. CASE WaitAudio \/ AudioEnds \/ ResyncLater \/ ResyncAnew \/ RestartFromStopped
  <2>1. /\ sync.pc = "top" /\ sync.state \in {"WAIT_AUDIO", "PLAYING"} /\ sync.queue = << >>
        /\ sync'.pc = "top" /\ sync'.state \in {"PLAYING", "DONE", "WAIT_SYNC"}
        /\ sync'.queue = << >> /\ sync'.done = sync.done
        /\ flag' = flag /\ (sync'.state = "WAIT_SYNC" => flag.paused)
    BY <1>1, <1>10 DEF WaitAudio, AudioEnds, ResyncLater, ResyncAnew, RestartFromStopped, ResyncDue,
       AtTop, SyncTo, Sync
  <2>2. ~RestartPending
    BY <2>1 DEF Protocol, RingRests
  <2>3. ~RestartPending'
    BY <1>2, <1>4, <2>1, <2>2 DEF RestartPending, Closing
  <2>4. SyncPhases'
    BY <1>2, <2>1 DEF Protocol, SyncPhases, Closing, PauseSent, StartSent, PauseTaken
  <2>5. RingRests' /\ FlushedOrTold'
    BY <2>1, <2>3 DEF RingRests, FlushedOrTold
  <2> QED BY <2>4, <2>5
<1> QED BY <1>6, <1>7, <1>8, <1>9, <1>10 DEF SyncThread

LEMMA ControllerProtocol ==
  ASSUME Types, Protocol, Controller
  PROVE  Protocol'
<1>1. /\ sync \in Sync /\ ctl \in Control /\ dec \in Decoder
      /\ sync.queue \in Seq({"START", "PAUSE"}) /\ ctl.queue \in Seq({"START", "PAUSE"})
  BY DEF Types, TypeOK, Sync, Control
<1>2. UNCHANGED <<flag, buf>>
  BY DEF Controller
<1>3. dec'.pc = dec.pc
  <2>1. dec' = dec \/ \E pos \in 1 .. Len(stream) : dec' = [dec EXCEPT !.pos = pos]
    BY DEF Controller, Pause, PauseSync, WaitDone, PlaySync, Move, StartDecoding
  <2> QED BY <1>1, <2>1 DEF Decoder
<1>4. CASE Pause \/ StartDecoding
  <2> DEFINE m == IF ctl.pc = "playing" THEN "PAUSE" ELSE "START"
  <2>1. /\ ctl.pc \in {"playing", "startDecoding"} /\ ctl'.queue = Append(ctl.queue, m)
        /\ ctl'.pc = IF ctl.pc = "playing" THEN "pauseSync" ELSE "playing"
        /\ UNCHANGED sync
    <3>1. CASE Pause
      BY <3>1 DEF Pause
    <3>2. CASE StartDecoding
      <4>1. ctl' = [ctl EXCEPT !.pc = "playing", !.queue = Append(ctl.queue, "START")]
            /\ ctl.pc = "startDecoding" /\ UNCHANGED sync
        BY <3>2 DEF StartDecoding
      <4>2. ctl'.pc = "playing" /\ ctl'.queue = Append(ctl.queue, "START")
        BY <1>1, <4>1 DEF Control
      <4> QED BY <4>1, <4>2
    <3> QED BY <1>4, <3>1, <3>2
  <2>2. m \in {"START", "PAUSE"} /\ (m = "START" => ctl.pc = "startDecoding")
    BY <2>1
  <2>3. m = LastSent'
    BY <2>1 DEF LastSent
  <2> HIDE DEF m
  <2>4. /\ ctl'.queue # << >> /\ LastOf(ctl'.queue) = m
        /\ \A i \in DOMAIN ctl'.queue :
             (i \in DOMAIN ctl.queue /\ ctl'.queue[i] = ctl.queue[i]) \/ ctl'.queue[i] = m
    BY <1>1, <2>1, <2>2, AppendEnds
  <2>5. QueueEnds'
    <3>1. LastOf(ctl.queue)' = LastOf(ctl'.queue)
      BY DEF LastOf
    <3> QED BY <2>3, <2>4, <3>1 DEF QueueEnds
  <2>6. SyncPhases'
    BY <1>2, <2>1 DEF Protocol, SyncPhases, Closing, PauseSent, StartSent, PauseTaken, LastOf
  <2>7. NobodyFills => NobodyFills'
    BY <1>3, <2>4 DEF NobodyFills
  <2>8. RestartPending' => RestartPending
    <3>1. StartQueued' => StartQueued \/ ctl.pc = "startDecoding"
      BY <2>2, <2>4 DEF StartQueued
    <3> QED BY <2>1, <3>1 DEF RestartPending, Closing
  <2>9. RingRests'
    BY <1>2, <2>1, <2>7, <2>8 DEF Protocol, RingRests
  <2>10. FlushedOrTold'
    BY <1>2, <2>1 DEF Protocol, FlushedOrTold
  <2> QED BY <2>5, <2>6, <2>9, <2>10 DEF Protocol
<1>5. CASE PauseSync \/ WaitDone \/ PlaySync \/ Move
  <2>1. /\ ctl'.queue = ctl.queue /\ ctl.pc # "playing" /\ ctl'.pc # "playing"
    BY <1>1, <1>5 DEF PauseSync, WaitDone, PlaySync, Move, CStep, Control
  <2>2. QueueEnds' /\ (StartQueued' <=> StartQueued) /\ (NobodyFills <=> NobodyFills')
    BY <1>3, <2>1 DEF Protocol, QueueEnds, LastOf, LastSent, StartQueued, NobodyFills
  <2>3. SyncPhases' /\ (RestartPending' => RestartPending) /\ sync'.state = sync.state
        /\ sync'.pc = sync.pc
    <3>1. CASE PauseSync
      <4>1. /\ ctl.pc = "pauseSync" /\ ctl'.pc = "waitDone"
            /\ sync' = [sync EXCEPT !.queue = Append(sync.queue, "PAUSE"), !.done = FALSE]
        BY <1>1, <3>1 DEF PauseSync, CStep, Control
      <4>2. /\ sync'.queue = Append(sync.queue, "PAUSE") /\ ~sync'.done
            /\ sync'.pc = sync.pc /\ sync'.state = sync.state
        BY <1>1, <4>1 DEF Sync
      <4>3. sync'.queue # << >> /\ LastOf(sync'.queue) = "PAUSE"
        BY <1>1, <4>2, AppendEnds
      <4>4. ~StartSent' /\ ~PauseTaken' /\ ~Closing' /\ ~Closing
        <5>1. LastOf(sync.queue)' = LastOf(sync'.queue)
          BY DEF LastOf
        <5> QED BY <4>1, <4>2, <4>3, <5>1 DEF Protocol, SyncPhases, StartSent, PauseTaken, Closing
      <4>5. SyncPhases'
        BY <1>2, <4>1, <4>2, <4>4 DEF Protocol, SyncPhases
      <4>6. RestartPending' => RestartPending
        BY <2>2, <4>1, <4>2, <4>4 DEF RestartPending
      <4> QED BY <4>2, <4>5, <4>6
    <3>2. CASE PlaySync
      <4>1. /\ ctl.pc = "paused" /\ ctl'.pc = "move"
            /\ sync' = [sync EXCEPT !.queue = Append(sync.queue, "START")]
        BY <1>1, <3>2 DEF PlaySync, CStep, Control
      <4>2. /\ sync'.queue = Append(sync.queue, "START") /\ sync'.done = sync.done
            /\ sync'.pc = sync.pc /\ sync'.state = sync.state
        BY <1>1, <4>1 DEF Sync
      <4>3. sync'.queue # << >> /\ LastOf(sync'.queue) = "START"
        BY <1>1, <4>2, AppendEnds
      <4>4. ~PauseSent' /\ ~PauseTaken' /\ ~Closing' /\ sync.state = "PAUSED"
        <5>1. LastOf(sync.queue)' = LastOf(sync'.queue)
          BY DEF LastOf
        <5> QED BY <4>1, <4>2, <4>3, <5>1 DEF Protocol, SyncPhases, PauseSent, PauseTaken, Closing
      <4>5. SyncPhases'
        BY <1>2, <4>2, <4>4 DEF Protocol, SyncPhases
      <4>6. RestartPending
        BY <4>1 DEF RestartPending
      <4> QED BY <4>2, <4>5, <4>6
    <3>3. CASE WaitDone \/ Move
      <4>1. /\ UNCHANGED sync
            /\ \/ ctl.pc = "waitDone" /\ ctl'.pc = "paused" /\ sync.done
               \/ ctl.pc = "move" /\ ctl'.pc = "startDecoding"
        BY <1>1, <3>3 DEF WaitDone, Move, CStep, Control
      <4>2. SyncPhases'
        BY <1>2, <4>1 DEF Protocol, SyncPhases, Closing, PauseSent, StartSent, PauseTaken, LastOf
      <4>3. RestartPending
        BY <4>1 DEF RestartPending
      <4> QED BY <4>1, <4>2, <4>3
    <3> QED BY <1>5, <3>1, <3>2, <3>3
  <2>4. RingRests'
    BY <1>2, <2>2, <2>3 DEF Protocol, RingRests
  <2>5. FlushedOrTold'
    BY <1>2, <2>3 DEF Protocol, FlushedOrTold
  <2> QED BY <2>2, <2>3, <2>4, <2>5 DEF Protocol
<1> QED BY <1>4, <1>5 DEF Controller

LEMMA InitProtocol == Init => Protocol
<1> SUFFICES ASSUME Init PROVE Protocol
  OBVIOUS
<1>1. /\ ctl.queue = << >> /\ ctl.pc = "playing" /\ sync.pc = "top" /\ sync.queue = << >>
      /\ sync.state = "WAIT_SYNC" /\ flag.paused
  BY DEF Init
<1>2. ~StartQueued
  <2>1. DOMAIN << >> = {}
    OBVIOUS
  <2> QED BY <1>1, <2>1 DEF StartQueued
<1>3. QueueEnds /\ SyncPhases
  BY <1>1 DEF QueueEnds, SyncPhases, Closing, PauseSent, StartSent, PauseTaken
<1>4. RingRests /\ FlushedOrTold
  BY <1>1, <1>2 DEF RingRests, RestartPending, FlushedOrTold
<1> QED BY <1>3, <1>4 DEF Protocol

LEMMA NextProtocol == Types /\ Protocol /\ [Next]_vars => Protocol'
<1> SUFFICES ASSUME Types, Protocol, [Next]_vars PROVE Protocol'
  OBVIOUS
<1>1. CASE ParseMessage  BY <1>1, ParseProtocol
<1>2. CASE DecodeThread /\ ~ParseMessage  BY <1>2, DecodeProtocol
<1>3. CASE AudioCallback  BY <1>3, CallbackProtocol
<1>4. CASE SyncThread  BY <1>4, SyncProtocol
<1>5. CASE Controller  BY <1>5, ControllerProtocol
<1>6. CASE UNCHANGED vars
  <2>1. UNCHANGED <<sync, ctl, flag, buf, dec>>
    BY <1>6 DEF vars
  <2>2. NobodyFills' <=> NobodyFills
    BY <2>1 DEF NobodyFills
  <2> QED BY <2>1, <2>2, ProtocolStays
<1> QED BY <1>1, <1>2, <1>3, <1>4, <1>5, <1>6 DEF Next

-----------------------------------------------------------------------------
(* The time of the sound in the ring. *)

(* The times after filling. *)
LEMMA FillingTimes ==
  ASSUME Types, OffsetsAgree, NEW n \in Nat, buf.filled + n <= RingSize,
         NEW sound, DOMAIN sound = 0 .. n - 1, NEW t \in Nat,
         \A j \in 0 .. n - 1 : sound[j] = t + j \/ sound[j] = -(t + j),
         ring' = Written(sound), buf'.play = buf.play,
         buf'.filled = buf.filled + n, buf'.fill = Wrap(buf.fill + n)
  PROVE  /\ \A i \in 0 .. buf.filled - 1 :
              Place(i)' = Place(i) /\ TimeAt(Place(i))' = TimeAt(Place(i))
         /\ \A i \in buf.filled .. buf.filled + n - 1 :
              Place(i)' = Place(i) /\ TimeAt(Place(i))' = t + (i - buf.filled)
         /\ Place(buf.filled) = buf.fill
<1>1. buf.play \in 0 .. RingSize /\ buf.filled \in 0 .. RingSize /\ RingSize \in Nat
  BY Members, Zeros
<1>2. /\ \A i \in 0 .. RingSize - 1 : Place(i)' = Place(i)
      /\ \A i \in 0 .. buf.filled - 1 : ring'[Place(i)] = ring[Place(i)]
      /\ \A j \in 0 .. n - 1 : ring'[Place(buf.filled + j)] = sound[j]
  BY Filling
<1>3. ASSUME NEW i \in 0 .. buf.filled - 1
      PROVE  Place(i)' = Place(i) /\ TimeAt(Place(i))' = TimeAt(Place(i))
  <2>1. i \in 0 .. RingSize - 1  BY <1>1
  <2>2. Place(i)' = Place(i) /\ ring'[Place(i)] = ring[Place(i)]
    BY <1>2, <2>1
  <2> QED BY <2>2 DEF TimeAt
<1>4. ASSUME NEW i \in buf.filled .. buf.filled + n - 1
      PROVE  Place(i)' = Place(i) /\ TimeAt(Place(i))' = t + (i - buf.filled)
  <2>1. i \in 0 .. RingSize - 1 /\ i - buf.filled \in 0 .. n - 1 /\ buf.filled + (i - buf.filled) = i
    BY <1>1
  <2>2. ring'[Place(i)] = sound[i - buf.filled] /\ Place(i)' = Place(i)
    BY <1>2, <2>1
  <2>3. LET j == i - buf.filled
        IN  /\ t + j \in Nat
            /\ ring'[Place(i)] = t + j \/ ring'[Place(i)] = -(t + j)
    BY <2>1, <2>2
  <2>4. TimeAt(Place(i))' = IF ring'[Place(i)] < 0 THEN -ring'[Place(i)] ELSE ring'[Place(i)]
    BY <2>2 DEF TimeAt
  <2> QED BY <2>2, <2>3, <2>4
<1>5. Place(buf.filled) = buf.fill
  BY DEF Place, OffsetsAgree
<1> QED BY <1>3, <1>4, <1>5

(* The places of the sound that waits are different from each other. *)
LEMMA PlacesDiffer ==
  ASSUME Types, NEW i \in 0 .. buf.filled - 1, NEW j \in 0 .. buf.filled - 1, i # j
  PROVE  Place(i) # Place(j)
<1>1. buf.play \in 0 .. RingSize /\ buf.filled \in 0 .. RingSize /\ RingSize \in Nat
  BY Members, Zeros
<1>2. i \in 0 .. RingSize - 1 /\ j \in 0 .. RingSize - 1
  BY <1>1
<1>3. Place(i) = IF buf.play + i < RingSize THEN buf.play + i ELSE buf.play + i - RingSize
  BY <1>2, PlaceIs
<1>4. Place(j) = IF buf.play + j < RingSize THEN buf.play + j ELSE buf.play + j - RingSize
  BY <1>2, PlaceIs
<1> QED BY <1>1, <1>2, <1>3, <1>4

LEMMA TimesAreTimes ==
  ASSUME Types, NEW i \in 0 .. RingSize - 1
  PROVE  TimeAt(Place(i)) \in Nat
<1>1. Place(i) \in 0 .. RingSize - 1
  BY PlaceIs
<1>2. ring[Place(i)] \in Int
  BY <1>1 DEF Types, TypeOK
<1> QED BY <1>2 DEF TimeAt

LEMMA InLineTaking ==
  ASSUME Types, OffsetsAgree, InLine, NEW n \in 0 .. buf.filled,
         buf'.play \in 0 .. RingSize,
         buf'.play = buf.play + n \/ buf'.play = buf.play + n - RingSize,
         buf'.filled = buf.filled - n, buf'.fill = buf.fill, ring' = ring,
         buf'.resync = buf.resync, buf'.resyncAt = buf.resyncAt
  PROVE  InLine'
<1>1. buf.filled \in 0 .. RingSize /\ RingSize \in Nat
  BY Members, Zeros
<1>2. \A i \in 0 .. buf.filled - n - 1 : Place(i)' = Place(i + n)
  BY Taking
<1> SUFFICES ASSUME NEW j \in 0 .. buf'.filled - 1, NEW i \in 0 .. j
             PROVE  \/ TimeAt(Place(j))' = TimeAt(Place(i))' + (j - i)
                    \/ \E k \in i + 1 .. j : AtResync(k)'
  BY DEF InLine
<1>3. /\ j \in 0 .. buf.filled - n - 1 /\ i \in 0 .. buf.filled - n - 1
      /\ j + n \in 0 .. buf.filled - 1 /\ i + n \in 0 .. j + n
      /\ (j + n) - (i + n) = j - i
  BY <1>1
<1>4. TimeAt(Place(j))' = TimeAt(Place(j + n)) /\ TimeAt(Place(i))' = TimeAt(Place(i + n))
  BY <1>2, <1>3 DEF TimeAt
<1>5. \/ TimeAt(Place(j + n)) = TimeAt(Place(i + n)) + ((j + n) - (i + n))
      \/ \E k \in (i + n) + 1 .. j + n : AtResync(k)
  BY <1>3 DEF InLine
<1>6. ASSUME NEW k \in (i + n) + 1 .. j + n, AtResync(k)
      PROVE  \E l \in i + 1 .. j : AtResync(l)'
  <2>0. PICK l \in Int : l = k - n
    BY <1>1
  <2>1. l \in i + 1 .. j /\ l \in 0 .. buf.filled - n - 1 /\ l + n = k
    BY <1>1, <1>3, <2>0
  <2>2. Place(l)' = Place(k)
    BY <1>2, <2>1
  <2>3. AtResync(l)'
    BY <1>6, <2>2 DEF AtResync
  <2> QED BY <2>1, <2>3
<1>7. CASE TimeAt(Place(j + n)) = TimeAt(Place(i + n)) + ((j + n) - (i + n))
  BY <1>3, <1>4, <1>7
<1>8. CASE \E k \in (i + n) + 1 .. j + n : AtResync(k)
  BY <1>6, <1>8
<1> QED BY <1>5, <1>7, <1>8

LEMMA InLineFilling ==
  ASSUME Types, OffsetsAgree, InLine, NEW n \in Nat, buf.filled + n <= RingSize,
         NEW sound, DOMAIN sound = 0 .. n - 1, NEW t \in Nat,
         \A j \in 0 .. n - 1 : sound[j] = t + j \/ sound[j] = -(t + j),
         ring' = Written(sound), buf'.play = buf.play,
         buf'.filled = buf.filled + n, buf'.fill = Wrap(buf.fill + n),
         buf.resync => buf'.resync /\ buf'.resyncAt = buf.resyncAt,
         n > 0 /\ buf.filled > 0 =>
           LastTime + 1 = t \/ (buf'.resync /\ buf'.resyncAt = buf.fill)
  PROVE  InLine'
<1>1. buf.filled \in 0 .. RingSize /\ RingSize \in Nat
  BY Members, Zeros
<1>2. /\ \A i \in 0 .. buf.filled - 1 :
           Place(i)' = Place(i) /\ TimeAt(Place(i))' = TimeAt(Place(i))
      /\ \A i \in buf.filled .. buf.filled + n - 1 :
           Place(i)' = Place(i) /\ TimeAt(Place(i))' = t + (i - buf.filled)
      /\ Place(buf.filled) = buf.fill
  BY FillingTimes
<1> SUFFICES ASSUME NEW j \in 0 .. buf'.filled - 1, NEW i \in 0 .. j
             PROVE  \/ TimeAt(Place(j))' = TimeAt(Place(i))' + (j - i)
                    \/ \E k \in i + 1 .. j : AtResync(k)'
  BY DEF InLine
<1>3. j \in 0 .. buf.filled + n - 1
  BY <1>1
<1>4. ASSUME NEW k \in 0 .. buf.filled - 1, AtResync(k) PROVE AtResync(k)'
  BY <1>2, <1>4 DEF AtResync
<1>5. CASE j < buf.filled
  <2>1. j \in 0 .. buf.filled - 1 /\ i \in 0 .. buf.filled - 1
    BY <1>1, <1>3, <1>5
  <2>2. TimeAt(Place(j))' = TimeAt(Place(j)) /\ TimeAt(Place(i))' = TimeAt(Place(i))
    BY <1>2, <2>1
  <2>3. \/ TimeAt(Place(j)) = TimeAt(Place(i)) + (j - i)
        \/ \E k \in i + 1 .. j : AtResync(k)
    BY <2>1 DEF InLine
  <2>4. \A k \in i + 1 .. j : k \in 0 .. buf.filled - 1
    BY <1>1, <2>1
  <2> QED BY <1>4, <2>2, <2>3, <2>4
<1>6. CASE i >= buf.filled
  <2>1. j \in buf.filled .. buf.filled + n - 1 /\ i \in buf.filled .. buf.filled + n - 1
    BY <1>1, <1>3, <1>6
  <2>2. TimeAt(Place(j))' = t + (j - buf.filled) /\ TimeAt(Place(i))' = t + (i - buf.filled)
    BY <1>2, <2>1
  <2> QED BY <1>1, <1>3, <2>2
<1>7. CASE j >= buf.filled /\ i < buf.filled
  <2>0. PICK last \in Int : last = buf.filled - 1
    BY <1>1
  <2>1. /\ j \in buf.filled .. buf.filled + n - 1 /\ i \in 0 .. buf.filled - 1
        /\ last \in 0 .. buf.filled - 1 /\ i \in 0 .. last
        /\ n > 0 /\ buf.filled > 0 /\ buf.filled \in i + 1 .. j
        /\ buf.filled \in buf.filled .. buf.filled + n - 1
    BY <1>1, <1>3, <1>7, <2>0
  <2>2. TimeAt(Place(j))' = t + (j - buf.filled) /\ TimeAt(Place(i))' = TimeAt(Place(i))
    BY <1>2, <2>1
  <2>3. CASE buf'.resync /\ buf'.resyncAt = buf.fill
    <3>0. PICK p \in Int : p = buf.filled
      BY <1>1
    <3>1. p \in buf.filled .. buf.filled + n - 1 /\ p \in i + 1 .. j
      BY <2>1, <3>0
    <3>2. Place(p) = buf.fill
      BY <1>2, <3>0
    <3>3. Place(p)' = Place(p)
      BY <1>2, <3>1
    <3> QED BY <2>3, <3>1, <3>2, <3>3 DEF AtResync
  <2>4. CASE LastTime + 1 = t
    <3>1. \/ TimeAt(Place(last)) = TimeAt(Place(i)) + (last - i)
          \/ \E k \in i + 1 .. last : AtResync(k)
      BY <2>1 DEF InLine
    <3>2. CASE TimeAt(Place(last)) = TimeAt(Place(i)) + (last - i)
      <4>1. LastTime = TimeAt(Place(i)) + (last - i)
        BY <2>0, <3>2 DEF LastTime
      <4>2. i \in 0 .. RingSize - 1
        BY <1>1, <2>1
      <4>3. TimeAt(Place(i)) \in Nat
        BY <4>2, TimesAreTimes
      <4>4. PICK time \in Nat : time = TimeAt(Place(i))
        BY <4>3
      <4>5. t = time + (last - i) + 1
        BY <2>4, <4>1, <4>4
      <4>6. i \in Int /\ j \in Int /\ last \in Int /\ buf.filled = last + 1
        BY <1>1, <1>3, <2>0, <2>1
      <4>7. t + (j - buf.filled) = time + (j - i)
        BY <4>5, <4>6
      <4> QED BY <2>2, <4>4, <4>7
    <3>3. CASE \E k \in i + 1 .. last : AtResync(k)
      <4>1. PICK k \in i + 1 .. last : AtResync(k)
        BY <3>3
      <4>2. k \in i + 1 .. j /\ k \in 0 .. buf.filled - 1
        BY <1>1, <2>0, <2>1
      <4> QED BY <1>4, <4>1, <4>2
    <3> QED BY <3>1, <3>2, <3>3
  <2> QED BY <2>1, <2>3, <2>4
<1> QED BY <1>1, <1>3, <1>5, <1>6, <1>7

(* What filling does. *)
LEMMA FillSilenceDoes ==
  ASSUME Types, OffsetsAgree, FillSilence
  PROVE  /\ dec.pc = "silence" /\ dec'.pc = "frame" /\ dec'.need = dec.need
         /\ dec'.frame = dec.frame /\ dec'.silence = dec.silence /\ dec.silence \in Nat
         /\ Unlocked /\ UNCHANGED <<flag, sync, ctl, cb, crash>>
         /\ buf'.play = buf.play /\ buf'.filled = buf.filled + dec.silence
         /\ buf'.fill = Wrap(buf.fill + dec.silence)
         /\ buf'.resync = buf.resync /\ buf'.resyncAt = buf.resyncAt
         /\ buf'.resyncTs = buf.resyncTs /\ buf'.firstTs = buf.firstTs
         /\ buf'.firstFilled = buf.firstFilled /\ buf'.next = buf.next
         /\ ghost'.early = (ghost.early \/ (dec.silence > 0 /\ ~buf.firstFilled))
         /\ ghost'.lost = ghost.lost /\ ghost'.stale = ghost.stale
         /\ ghost'.broken = ghost.broken /\ ghost'.start = ghost.start
         /\ ghost'.due = ghost.due /\ ghost'.clock = ghost.clock
         /\ \A i \in 0 .. buf.filled - 1 :
              Place(i)' = Place(i) /\ TimeAt(Place(i))' = TimeAt(Place(i))
         /\ \A i \in buf.filled .. buf.filled + dec.silence - 1 :
              Place(i)' = Place(i) /\ TimeAt(Place(i))' = buf.next + (i - buf.filled)
         /\ InLine /\ (buf.filled > 0 => LastTime + 1 = buf.next) => InLine'
<1>1. dec \in Decoder /\ buf \in Buffer
  BY DEF Types, TypeOK
<1>2. buf.filled \in Nat /\ buf.next \in Nat /\ dec.frame \in Nat /\ dec.silence \in Nat
  BY Members
<1> DEFINE n == dec.silence
           t == buf.next
           sound == [j \in 0 .. n - 1 |-> -(t + j)]
<1>3. /\ dec.pc = "silence" /\ dec' = [dec EXCEPT !.pc = "frame"]
      /\ ring' = Written(sound) /\ buf' = Filled(n) /\ UNCHANGED <<flag, sync, ctl, cb, crash>>
      /\ Unlocked
  BY DEF FillSilence, DStep
<1>4. buf.filled + n <= RingSize
  <2>1. buf.filled + (FrameSize + dec.silence) <= RingSize
    BY <1>3 DEF Types, RoomKept, ToInsert
  <2> QED BY <1>2, <2>1, Zeros
<1>5. /\ buf'.play = buf.play /\ buf'.filled = buf.filled + n
      /\ buf'.fill = Wrap(buf.fill + n) /\ buf'.resync = buf.resync
      /\ buf'.resyncAt = buf.resyncAt /\ buf'.resyncTs = buf.resyncTs
      /\ buf'.firstTs = buf.firstTs /\ buf'.firstFilled = buf.firstFilled
      /\ buf'.next = buf.next
  BY <1>1, <1>3 DEF Filled, Buffer
<1>6. DOMAIN sound = 0 .. n - 1 /\ n \in Nat /\ t \in Nat
      /\ \A j \in 0 .. n - 1 : sound[j] = t + j \/ sound[j] = -(t + j)
  BY <1>2
<1>7. /\ dec'.pc = "frame" /\ dec'.need = dec.need /\ dec'.frame = dec.frame
      /\ dec'.silence = dec.silence
  BY <1>1, <1>3 DEF Decoder
<1>8. /\ ghost'.early = (ghost.early \/ (dec.silence > 0 /\ ~buf.firstFilled))
      /\ ghost'.lost = ghost.lost /\ ghost'.stale = ghost.stale
      /\ ghost'.broken = ghost.broken /\ ghost'.start = ghost.start
      /\ ghost'.due = ghost.due /\ ghost'.clock = ghost.clock
  <2> DEFINE early == ghost.early \/ (dec.silence > 0 /\ ~buf.firstFilled)
  <2>1. ghost' = [ghost EXCEPT !.early = early]
    BY DEF FillSilence
  <2> HIDE DEF early
  <2>2. /\ ghost'.early = early /\ ghost'.lost = ghost.lost /\ ghost'.stale = ghost.stale
        /\ ghost'.broken = ghost.broken /\ ghost'.start = ghost.start
        /\ ghost'.due = ghost.due /\ ghost'.clock = ghost.clock
    BY <2>1 DEF Types, GhostTypes
  <2> QED BY <2>2 DEF early
<1> HIDE DEF sound, n, t
<1>9. /\ \A i \in 0 .. buf.filled - 1 :
           Place(i)' = Place(i) /\ TimeAt(Place(i))' = TimeAt(Place(i))
      /\ \A i \in buf.filled .. buf.filled + n - 1 :
           Place(i)' = Place(i) /\ TimeAt(Place(i))' = t + (i - buf.filled)
  BY <1>3, <1>4, <1>5, <1>6, FillingTimes
<1>10. InLine /\ (buf.filled > 0 => LastTime + 1 = t) => InLine'
  BY <1>3, <1>4, <1>5, <1>6, InLineFilling
<1> QED BY <1>2, <1>3, <1>5, <1>7, <1>8, <1>9, <1>10 DEF n, t

LEMMA FillFrameDoes ==
  ASSUME Types, OffsetsAgree, FillFrame
  PROVE  /\ dec.pc = "frame" /\ dec'.pc = "top"
         /\ Unlocked /\ UNCHANGED <<flag, sync, ctl, cb, crash>>
         /\ buf'.play = buf.play /\ buf'.filled = buf.filled + FrameSize
         /\ buf'.fill = Wrap(buf.fill + FrameSize)
         /\ buf'.resync = (buf.resync \/ dec.need)
         /\ buf'.resyncAt = (IF dec.need THEN buf.fill ELSE buf.resyncAt)
         /\ buf'.resyncTs = (IF dec.need THEN dec.frame ELSE buf.resyncTs)
         /\ buf'.firstTs = (IF dec.need \/ ~buf.firstFilled THEN dec.frame ELSE buf.firstTs)
         /\ buf'.firstFilled = TRUE /\ buf'.next = dec.frame + FrameSize
         /\ ghost'.early = (ghost.early \/ (dec.need /\ flag.firstCall))
         /\ ghost'.lost = (ghost.lost \/ (dec.need /\ buf.resync))
         /\ ghost'.stale = ghost.stale
         /\ ghost'.broken = ghost.broken /\ ghost'.start = ghost.start
         /\ ghost'.due = ghost.due /\ ghost'.clock = ghost.clock
         /\ \A i \in 0 .. buf.filled - 1 :
              Place(i)' = Place(i) /\ TimeAt(Place(i))' = TimeAt(Place(i))
         /\ \A i \in buf.filled .. buf.filled + FrameSize - 1 :
              Place(i)' = Place(i) /\ TimeAt(Place(i))' = dec.frame + (i - buf.filled)
         /\ Place(buf.filled) = buf.fill
         /\ InLine /\ (buf.resync => ~dec.need)
              /\ (~dec.need /\ buf.filled > 0 => LastTime + 1 = dec.frame) => InLine'
<1>1. dec \in Decoder /\ buf \in Buffer
  BY DEF Types, TypeOK
<1>2. buf.filled \in Nat /\ dec.frame \in Nat /\ FrameSize \in Nat \ {0}
  BY Members, SizesAssumption
<1> DEFINE t == dec.frame
           sound == [j \in 0 .. FrameSize - 1 |-> t + j]
<1>3. /\ dec.pc = "frame" /\ dec' = FrameDone
      /\ ring' = Written(sound) /\ UNCHANGED <<flag, sync, ctl, cb, crash>> /\ Unlocked
  BY DEF FillFrame
<1>4. buf.filled + FrameSize <= RingSize
  BY <1>3 DEF Types, RoomKept
<1>5. /\ buf'.play = buf.play /\ buf'.filled = buf.filled + FrameSize
      /\ buf'.fill = Wrap(buf.fill + FrameSize)
      /\ buf'.firstFilled = TRUE /\ buf'.next = t + FrameSize
  BY <1>1 DEF FillFrame, Filled, Buffer
<1>6. /\ buf'.resync = (buf.resync \/ dec.need)
      /\ buf'.resyncAt = IF dec.need THEN buf.fill ELSE buf.resyncAt
      /\ buf'.resyncTs = IF dec.need THEN t ELSE buf.resyncTs
      /\ buf'.firstTs = IF dec.need \/ ~buf.firstFilled THEN t ELSE buf.firstTs
  BY <1>1 DEF FillFrame, Filled, Buffer
<1>7. DOMAIN sound = 0 .. FrameSize - 1 /\ t \in Nat
      /\ \A j \in 0 .. FrameSize - 1 : sound[j] = t + j \/ sound[j] = -(t + j)
  BY <1>2
<1>8. dec'.pc = "top"
  BY <1>1, <1>3 DEF FrameDone, Decoder
<1>9. /\ ghost'.early = (ghost.early \/ (dec.need /\ flag.firstCall))
      /\ ghost'.lost = (ghost.lost \/ (dec.need /\ buf.resync))
      /\ ghost'.stale = ghost.stale /\ ghost'.broken = ghost.broken
      /\ ghost'.start = ghost.start /\ ghost'.due = ghost.due /\ ghost'.clock = ghost.clock
  <2> DEFINE early == ghost.early \/ (dec.need /\ flag.firstCall)
             lost == ghost.lost \/ (dec.need /\ buf.resync)
  <2>1. ghost' = [ghost EXCEPT !.lost = lost, !.early = early]
    BY DEF FillFrame
  <2> HIDE DEF early, lost
  <2>2. /\ ghost'.early = early /\ ghost'.lost = lost /\ ghost'.stale = ghost.stale
        /\ ghost'.broken = ghost.broken /\ ghost'.start = ghost.start
        /\ ghost'.due = ghost.due /\ ghost'.clock = ghost.clock
    BY <2>1 DEF Types, GhostTypes
  <2> QED BY <2>2 DEF early, lost
<1> HIDE DEF sound, t
<1>10. /\ \A i \in 0 .. buf.filled - 1 :
            Place(i)' = Place(i) /\ TimeAt(Place(i))' = TimeAt(Place(i))
       /\ \A i \in buf.filled .. buf.filled + FrameSize - 1 :
            Place(i)' = Place(i) /\ TimeAt(Place(i))' = t + (i - buf.filled)
       /\ Place(buf.filled) = buf.fill
  BY <1>2, <1>3, <1>4, <1>5, <1>7, FillingTimes
<1>11. ASSUME InLine, buf.resync => ~dec.need,
              ~dec.need /\ buf.filled > 0 => LastTime + 1 = t
       PROVE  InLine'
  <2>1. buf.resync => buf'.resync /\ buf'.resyncAt = buf.resyncAt
    BY <1>6, <1>11
  <2>2. buf.filled > 0 => LastTime + 1 = t \/ (buf'.resync /\ buf'.resyncAt = buf.fill)
    BY <1>6, <1>11
  <2> QED BY <1>2, <1>3, <1>4, <1>5, <1>7, <1>11, <2>1, <2>2, InLineFilling
<1> QED BY <1>3, <1>5, <1>6, <1>8, <1>9, <1>10, <1>11 DEF t

(* What a flush does. *)
LEMMA ParseDoes ==
  ASSUME Types, ParseMessage
  PROVE  /\ dec'.pc = (IF Head(ctl.queue) = "START" THEN "top" ELSE "wait")
         /\ Unlocked /\ UNCHANGED <<ring, sync, cb, crash>>
         /\ buf'.filled = 0 /\ buf'.resync = buf.resync /\ buf'.firstFilled = FALSE
         /\ flag'.paused = TRUE /\ flag'.running = flag.running /\ flag'.firstCall = flag.firstCall
         /\ ghost'.lost = buf.resync /\ ghost'.broken = FALSE /\ ghost'.start = None
         /\ ghost'.due = None /\ ghost'.clock = None
<1>1. /\ dec \in Decoder /\ buf \in Buffer /\ flag \in Flags
  BY DEF Types, TypeOK
<1>2. dec'.pc = IF Head(ctl.queue) = "START" THEN "top" ELSE "wait"
  BY <1>1 DEF ParseMessage, Decoder
<1>3. /\ buf'.filled = 0 /\ buf'.resync = buf.resync /\ buf'.firstFilled = FALSE
      /\ flag'.paused = TRUE /\ flag'.running = flag.running /\ flag'.firstCall = flag.firstCall
  BY <1>1 DEF ParseMessage, FlushDecodeBuffers, Buffer, Flags
<1>4. Unlocked /\ UNCHANGED <<ring, sync, cb, crash>>
  BY DEF ParseMessage, FlushDecodeBuffers
<1>5. /\ ghost'.lost = buf.resync /\ ghost'.broken = FALSE /\ ghost'.start = None
      /\ ghost'.due = None /\ ghost'.clock = None
  BY DEF ParseMessage, Silent, Types, GhostTypes
<1> QED BY <1>2, <1>3, <1>4, <1>5

(* What the beginning of a callback does. *)
LEMMA EnterDoes ==
  ASSUME Types, EnterCallback
  PROVE  \E drop \in 0 .. buf.filled :
         /\ cb.pc = "called" /\ cb'.pc = "copy" /\ buf.filled > 0
         /\ UNCHANGED <<ring, flag, dec, sync, ctl, crash>>
         /\ flag.firstCall => drop = 0 /\ cb'.len = OutSize
         /\ cb'.len <= OutSize
         /\ buf'.play \in 0 .. RingSize
         /\ buf'.play = buf.play + drop \/ buf'.play = buf.play + drop - RingSize
         /\ buf'.filled = buf.filled - drop /\ buf'.fill = buf.fill
         /\ buf'.resync = buf.resync /\ buf'.resyncAt = buf.resyncAt
         /\ buf'.resyncTs = buf.resyncTs /\ buf'.firstTs = buf.firstTs
         /\ buf'.firstFilled = buf.firstFilled /\ buf'.next = buf.next
         /\ ghost'.lost = (ghost.lost
              \/ (buf.resync /\ \E i \in 0 .. drop - 1 : Place(i) = buf.resyncAt))
         /\ ghost'.stale = (ghost.stale \/ ~flag.running)
         /\ ghost'.due = (IF ghost.due = None THEN None ELSE ghost.due + drop)
         /\ ghost'.early = ghost.early /\ ghost'.broken = ghost.broken
         /\ ghost'.start = ghost.start /\ ghost'.clock = ghost.clock
<1>1. buf \in Buffer /\ buf.filled \in Nat /\ buf.play \in 0 .. RingSize
  BY Members DEF Types, TypeOK
<1>2. PICK drop \in 0 .. buf.filled, add \in 0 .. 1 : Adjust(drop, add)
  BY <1>1 DEF EnterCallback
<1>3. /\ cb.pc = "called" /\ buf.filled > 0
      /\ UNCHANGED <<ring, flag, dec, sync, ctl, crash>>
  BY DEF EnterCallback
<1>4. cb'.pc = "copy" /\ cb'.len = OutSize - add
  BY <1>2 DEF Adjust
<1>5. drop + add > 0 => ~flag.firstCall
  BY <1>2 DEF Adjust
<1> DEFINE play == IF buf.play + drop > RingSize THEN buf.play + drop - RingSize
                   ELSE buf.play + drop
           filled == buf.filled - drop
           lost == ghost.lost
                     \/ (buf.resync /\ \E i \in 0 .. drop - 1 : Place(i) = buf.resyncAt)
           due == IF ghost.due = None THEN None ELSE ghost.due + drop
           adjusts == IF drop + add > 0 THEN ghost.adjusts + 1 ELSE ghost.adjusts
           stale == ghost.stale \/ ~flag.running
<1>6. buf' = [buf EXCEPT !.filled = filled, !.play = play]
  BY <1>2 DEF Adjust
<1>7. ghost' = [ghost EXCEPT !.adjusts = adjusts, !.stale = stale, !.due = due, !.lost = lost]
  BY <1>2 DEF Adjust
<1>8. play \in 0 .. RingSize /\ (play = buf.play + drop \/ play = buf.play + drop - RingSize)
  BY <1>1, Members, Zeros
<1>9. cb'.len <= OutSize /\ (flag.firstCall => drop = 0 /\ cb'.len = OutSize)
  BY <1>4, <1>5, Zeros
<1> HIDE DEF play, filled, lost, due, adjusts, stale
<1>10. /\ buf'.play = play /\ buf'.filled = filled /\ buf'.fill = buf.fill
       /\ buf'.resync = buf.resync /\ buf'.resyncAt = buf.resyncAt
       /\ buf'.resyncTs = buf.resyncTs /\ buf'.firstTs = buf.firstTs
       /\ buf'.firstFilled = buf.firstFilled /\ buf'.next = buf.next
  BY <1>1, <1>6 DEF Buffer
<1>11. /\ ghost'.lost = lost /\ ghost'.stale = stale /\ ghost'.due = due
       /\ ghost'.early = ghost.early /\ ghost'.broken = ghost.broken
       /\ ghost'.start = ghost.start /\ ghost'.clock = ghost.clock
  BY <1>7 DEF Types, GhostTypes
<1>12. filled = buf.filled - drop
  BY DEF filled
<1>13. /\ lost = (ghost.lost
              \/ (buf.resync /\ \E i \in 0 .. drop - 1 : Place(i) = buf.resyncAt))
       /\ stale = (ghost.stale \/ ~flag.running)
       /\ due = (IF ghost.due = None THEN None ELSE ghost.due + drop)
  BY DEF lost, stale, due
<1> WITNESS drop \in 0 .. buf.filled
<1> QED BY <1>3, <1>4, <1>8, <1>9, <1>10, <1>11, <1>12, <1>13

(* What a turn of the copy loop does. *)
LEMMA CopyDoes ==
  ASSUME Types, CopyOut, ~(Chunk > buf.filled), NEW n, n = Chunk
  PROVE  /\ cb.pc = "copy" /\ UNCHANGED <<ring, flag, dec, sync, ctl, crash>>
         /\ n \in 0 .. buf.filled /\ n <= cb.len /\ n <= Decoded
         /\ cb'.len = cb.len - n /\ cb'.pc \in {"copy", "underrun"}
         /\ buf'.play \in 0 .. RingSize
         /\ buf'.play = buf.play + n \/ buf'.play = buf.play + n - RingSize
         /\ buf'.filled = buf.filled - n /\ buf'.fill = buf.fill
         /\ buf'.resync = buf.resync /\ buf'.resyncAt = buf.resyncAt
         /\ buf'.resyncTs = buf.resyncTs /\ buf'.firstTs = buf.firstTs
         /\ buf'.firstFilled = buf.firstFilled /\ buf'.next = buf.next
         /\ cb'.pc = "underrun" =>
              cb.len = n \/ buf.filled = n \/ (buf.resync /\ buf'.play = buf.resyncAt)
         /\ ghost'.lost = ghost.lost /\ ghost'.early = ghost.early
         /\ ghost'.stale = ghost.stale /\ ghost'.clock = ghost.clock
         /\ n = 0 => ghost' = ghost
         /\ n # 0 =>
              /\ ghost'.due = TimeAt(Place(n - 1)) + 1
              /\ ghost'.start = (IF ghost.start = None THEN TimeAt(Place(0)) ELSE ghost.start)
              /\ ghost'.broken =>
                   \/ ghost.broken
                   \/ \E i \in 1 .. n - 1 : TimeAt(Place(i)) # TimeAt(Place(0)) + i
                   \/ ghost.due # None /\ TimeAt(Place(0)) # ghost.due
<1>1. buf \in Buffer /\ cb \in Callback /\ buf.filled \in Nat /\ cb.len \in Nat
      /\ buf.play \in 0 .. RingSize
  <2>1. buf \in Buffer /\ cb \in Callback
    BY DEF Types, TypeOK
  <2>2. buf.filled \in Nat /\ cb.len \in Nat /\ buf.play \in 0 .. RingSize
    BY Members, Zeros
  <2> QED BY <2>1, <2>2
<1>2. cb.pc = "copy" /\ UNCHANGED <<ring, flag, dec, sync, ctl, crash>>
  BY DEF CopyOut
<1>3. /\ Decoded \in Nat /\ buf.play + Decoded <= RingSize /\ n \in Nat
      /\ n <= Decoded /\ buf.play + n <= RingSize
  BY DecodedRange
<1>4. n \in 0 .. buf.filled /\ n <= cb.len
  <2>1. n <= cb.len
    BY <1>1, <1>3 DEF Chunk
  <2> QED BY <1>1, <1>3, <2>1
<1> DEFINE play == IF buf.play + Chunk >= RingSize THEN 0 ELSE buf.play + Chunk
           filled == buf.filled - Chunk
           len == cb.len - Chunk
           done == \/ cb.len = Chunk \/ buf.filled = Chunk
                   \/ buf.resync /\ play = buf.resyncAt
           pc == IF done THEN "underrun" ELSE "copy"
<1>5. /\ buf' = [buf EXCEPT !.play = play, !.filled = filled]
      /\ cb' = [cb EXCEPT !.pc = pc, !.len = len]
  BY DEF CopyOut
<1>6. play \in 0 .. RingSize /\ (play = buf.play + n \/ play = buf.play + n - RingSize)
  BY <1>1, <1>3, Zeros
<1>7. filled = buf.filled - n /\ len = cb.len - n
  OBVIOUS
<1>8. pc \in {"copy", "underrun"} /\ (pc = "underrun" =>
         cb.len = n \/ buf.filled = n \/ (buf.resync /\ play = buf.resyncAt))
  OBVIOUS
<1> HIDE DEF play, filled, len, done, pc
<1>9. /\ buf'.play = play /\ buf'.filled = filled /\ buf'.fill = buf.fill
      /\ buf'.resync = buf.resync /\ buf'.resyncAt = buf.resyncAt
      /\ buf'.resyncTs = buf.resyncTs /\ buf'.firstTs = buf.firstTs
      /\ buf'.firstFilled = buf.firstFilled /\ buf'.next = buf.next
  BY <1>1, <1>5 DEF Buffer
<1>10. cb'.pc = pc /\ cb'.len = len
  BY <1>1, <1>5 DEF Callback
<1>11. CASE n = 0
  <2>1. ghost' = ghost
    BY <1>11 DEF CopyOut
  <2> QED BY <1>2, <1>3, <1>4, <1>6, <1>7, <1>8, <1>9, <1>10, <1>11, <2>1
<1>12. CASE n # 0
  <2> DEFINE heard == [i \in 0 .. Chunk - 1 |-> TimeAt(Place(i))]
             broken == ghost.broken \/ (\E i \in 1 .. Chunk - 1 : heard[i] # heard[0] + i)
                         \/ (ghost.due # None /\ heard[0] # ghost.due)
             due == heard[Chunk - 1] + 1
             start == IF ghost.start = None THEN heard[0] ELSE ghost.start
  <2>1. ghost' = [ghost EXCEPT !.broken = broken, !.due = due, !.start = start]
    BY <1>12, Zenon DEF CopyOut
  <2>2. \A i \in 0 .. n - 1 : heard[i] = TimeAt(Place(i))
    OBVIOUS
  <2>3. broken => \/ ghost.broken
                  \/ \E i \in 1 .. n - 1 : heard[i] # heard[0] + i
                  \/ ghost.due # None /\ heard[0] # ghost.due
    BY Zenon
  <2>4. due = heard[n - 1] + 1 /\ start = (IF ghost.start = None THEN heard[0] ELSE ghost.start)
    OBVIOUS
  <2> HIDE DEF heard, broken, due, start
  <2>5. 0 \in 0 .. n - 1 /\ n - 1 \in 0 .. n - 1 /\ \A i \in 1 .. n - 1 : i \in 0 .. n - 1
    BY <1>3, <1>12
  <2>6. /\ ghost'.lost = ghost.lost /\ ghost'.early = ghost.early
        /\ ghost'.stale = ghost.stale /\ ghost'.clock = ghost.clock
        /\ ghost'.due = due /\ ghost'.start = start /\ ghost'.broken = broken
    BY <2>1 DEF Types, GhostTypes
  <2>7. /\ ghost'.due = TimeAt(Place(n - 1)) + 1
        /\ ghost'.start = (IF ghost.start = None THEN TimeAt(Place(0)) ELSE ghost.start)
    BY <2>2, <2>4, <2>5, <2>6
  <2>8. ghost'.broken =>
          \/ ghost.broken
          \/ \E i \in 1 .. n - 1 : TimeAt(Place(i)) # TimeAt(Place(0)) + i
          \/ ghost.due # None /\ TimeAt(Place(0)) # ghost.due
    BY <2>2, <2>3, <2>5, <2>6
  <2> QED BY <1>2, <1>3, <1>4, <1>6, <1>7, <1>8, <1>9, <1>10, <1>12, <2>6, <2>7, <2>8
<1> QED BY <1>11, <1>12

(* What play_audio does. *)
LEMMA PlayAudioDoes ==
  ASSUME Types, NEW ts, PlayAudio(ts)
  PROVE  /\ buf'.play = buf.play /\ buf'.filled = buf.filled /\ buf'.fill = buf.fill
         /\ buf'.resync = FALSE /\ buf'.firstTs = ts
         /\ buf'.firstFilled = buf.firstFilled /\ buf'.next = buf.next
         /\ ghost'.lost = (ghost.lost \/ (buf.resync /\ buf.resyncAt # Place(0)))
         /\ ghost'.stale = (ghost.stale \/ cb.pc # "idle") /\ ghost'.early = ghost.early
         /\ ghost'.broken = FALSE /\ ghost'.start = None
         /\ ghost'.due = None /\ ghost'.clock = None
<1>1. buf \in Buffer /\ buf.play \in 0 .. RingSize /\ RingSize \in Nat
  BY Members, Zeros DEF Types, TypeOK
<1>2. /\ buf'.play = buf.play /\ buf'.filled = buf.filled /\ buf'.fill = buf.fill
      /\ buf'.resync = FALSE /\ buf'.firstTs = ts
      /\ buf'.firstFilled = buf.firstFilled /\ buf'.next = buf.next
  BY <1>1 DEF PlayAudio, Buffer
<1>3. Place(0) = Wrap(buf.play)
  <2>1. buf.play + 0 = buf.play
    BY <1>1
  <2> QED BY <2>1 DEF Place
<1>4. /\ ghost'.lost = (ghost.lost \/ (buf.resync /\ buf.resyncAt # Wrap(buf.play)))
      /\ ghost'.stale = (ghost.stale \/ cb.pc # "idle") /\ ghost'.early = ghost.early
      /\ ghost'.broken = FALSE /\ ghost'.start = None
      /\ ghost'.due = None /\ ghost'.clock = None
  <2> DEFINE lost == ghost.lost \/ (buf.resync /\ buf.resyncAt # Wrap(buf.play))
             stale == ghost.stale \/ cb.pc # "idle"
  <2>0. Silent.lost = ghost.lost /\ Silent.stale = ghost.stale
    BY DEF Silent, Types, GhostTypes
  <2>1. ghost' = [Silent EXCEPT !.lost = lost, !.stale = stale]
    BY <2>0 DEF PlayAudio
  <2> HIDE DEF lost, stale
  <2>2. /\ ghost'.lost = lost /\ ghost'.stale = stale /\ ghost'.early = ghost.early
        /\ ghost'.broken = FALSE /\ ghost'.start = None
        /\ ghost'.due = None /\ ghost'.clock = None
    BY <2>1 DEF Silent, Types, GhostTypes
  <2> QED BY <2>2 DEF lost, stale
<1> QED BY <1>2, <1>3, <1>4

(* The steps of the decode thread that only move it on. *)
LEMMA MovingOnDoes ==
  ASSUME Types, NextFrame \/ LoadFrame \/ AwaitResync \/ CheckForBytes \/ GiveUp \/ Announce \/ Awake
  PROVE  /\ UNCHANGED <<stream, ring, buf, cb, sync, ctl, crash>>
         /\ dec.pc # "frame" /\ dec'.pc # "frame" /\ ~NobodyFills
         /\ flag'.running = flag.running /\ flag'.paused = flag.paused
         /\ flag'.firstCall = flag.firstCall
         /\ ghost'.lost = ghost.lost /\ ghost'.early = ghost.early /\ ghost'.stale = ghost.stale
         /\ ghost'.broken = ghost.broken /\ ghost'.start = ghost.start
         /\ ghost'.due = ghost.due /\ ghost'.clock = ghost.clock
<1>1. UNCHANGED <<stream, ring, buf, cb, sync, ctl, crash>> /\ ~NobodyFills
  BY DEF NextFrame, LoadFrame, AwaitResync, CheckForBytes, GiveUp, Announce, Awake, DStep, NobodyFills
<1>2. \/ flag' = flag \/ flag' = [flag EXCEPT !.eof = TRUE]
      \/ flag' = [flag EXCEPT !.waiting = TRUE] \/ flag' = [flag EXCEPT !.waiting = FALSE]
  BY DEF NextFrame, LoadFrame, AwaitResync, CheckForBytes, GiveUp, Announce, Awake
<1>3. \/ ghost' = ghost \/ ghost' = [ghost EXCEPT !.missed = FALSE]
      \/ ghost' = [ghost EXCEPT !.lateEof = flag.dontFill]
  BY DEF NextFrame, LoadFrame, AwaitResync, CheckForBytes, GiveUp, Announce, Awake
<1>4. /\ flag'.running = flag.running /\ flag'.paused = flag.paused
      /\ flag'.firstCall = flag.firstCall
  BY <1>2 DEF Types, TypeOK, Flags
<1>5. /\ ghost'.lost = ghost.lost /\ ghost'.early = ghost.early /\ ghost'.stale = ghost.stale
      /\ ghost'.broken = ghost.broken /\ ghost'.start = ghost.start
      /\ ghost'.due = ghost.due /\ ghost'.clock = ghost.clock
  BY <1>3 DEF Types, GhostTypes
<1>6. dec.pc # "frame" /\ dec'.pc # "frame"
  <2>1. dec \in Decoder  BY DEF Types, TypeOK
  <2>2. CASE NextFrame \/ AwaitResync \/ Announce \/ Awake
    BY <2>1, <2>2 DEF NextFrame, AwaitResync, Announce, Awake, DStep, Decoder
  <2>3. CASE LoadFrame
    <3> DEFINE need == buf.firstFilled /\ Gap \notin 0 .. SilenceLimit
               pc == IF need THEN "pending" ELSE "room"
               silence == IF buf.firstFilled /\ ~need THEN Gap ELSE 0
    <3>1. \/ dec' = FrameDone
          \/ dec' = [dec EXCEPT !.pc = pc, !.need = need, !.silence = silence]
      BY <2>3 DEF LoadFrame
    <3>2. pc # "frame"
      OBVIOUS
    <3> HIDE DEF need, pc, silence
    <3> QED BY <2>1, <2>3, <3>1, <3>2 DEF LoadFrame, FrameDone, Decoder
  <2>4. CASE CheckForBytes
    BY <2>1, <2>4 DEF CheckForBytes, Decoder
  <2>5. CASE GiveUp
    BY <2>1, <2>5 DEF GiveUp, FrameDone, Decoder
  <2> QED BY <2>2, <2>3, <2>4, <2>5
<1> QED BY <1>1, <1>4, <1>5, <1>6

(* Steps that leave the sound alone. *)
LEMMA TimeStays ==
  ASSUME RingInv, TimeInv, FrameFollows', ring' = ring, ghost'.lost = ghost.lost,
         buf'.play = buf.play, buf'.filled = buf.filled,
         buf'.resync = buf.resync, buf'.resyncAt = buf.resyncAt, buf'.resyncTs = buf.resyncTs,
         buf'.firstTs = buf.firstTs \/ buf'.firstTs = buf.resyncTs,
         buf.filled > 0 => buf'.firstFilled = buf.firstFilled
  PROVE  TimeInv'
<1> SUFFICES ASSUME ~ghost.lost PROVE InLine' /\ ResyncTimed'
  BY DEF TimeInv
<1>1. InLine /\ ResyncTimed /\ ResyncWaits
  BY DEF TimeInv, RingInv
<1>2. InLine'
  <2>1. \A d : Place(d)' = Place(d) /\ TimeAt(Place(d))' = TimeAt(Place(d))
               /\ (AtResync(d)' <=> AtResync(d))
    BY DEF AtResync, TimeAt, Place, Wrap
  <2> QED BY <1>1, <2>1 DEF InLine
<1>3. ResyncTimed'
  <2> SUFFICES ASSUME buf.resync
               PROVE  /\ buf'.firstTs = buf'.resyncTs
                      /\ TimeAt(buf.resyncAt)' = buf'.resyncTs /\ buf'.firstFilled
    BY DEF ResyncTimed
  <2>1. buf.firstTs = buf.resyncTs /\ TimeAt(buf.resyncAt) = buf.resyncTs /\ buf.firstFilled
    BY <1>1 DEF ResyncTimed
  <2>2. buf.filled > 0
    <3>1. buf.filled \in Nat
      BY Members, Zeros DEF RingInv
    <3>2. PICK d \in 0 .. buf.filled - 1 : Place(d) = buf.resyncAt
      BY <1>1 DEF ResyncWaits
    <3> QED BY <3>1, <3>2
  <2>3. TimeAt(buf.resyncAt)' = TimeAt(buf.resyncAt)
    BY DEF TimeAt
  <2> QED BY <2>1, <2>2, <2>3
<1> QED BY <1>2, <1>3

LEMMA FollowsStays ==
  ASSUME FrameFollows, dec'.pc = dec.pc, dec'.need = dec.need, dec'.frame = dec.frame,
         dec'.silence = dec.silence, buf'.next = buf.next, buf'.firstFilled => buf.firstFilled
  PROVE  FrameFollows'
BY DEF FrameFollows, Loading

LEMMA ParseTime ==
  ASSUME RingInv, TimeInv, ParseMessage
  PROVE  TimeInv'
<1>1. Types
  BY DEF RingInv
<1>2. /\ dec'.pc \in {"top", "wait"} /\ buf'.filled = 0 /\ buf'.resync = buf.resync
      /\ ghost'.lost = buf.resync
  BY <1>1, ParseDoes
<1>3. FrameFollows'
  BY <1>2 DEF FrameFollows, Loading
<1>4. InLine'
  BY <1>2 DEF InLine
<1>5. ghost'.lost \/ ResyncTimed'
  BY <1>2 DEF ResyncTimed
<1> QED BY <1>3, <1>4, <1>5 DEF TimeInv

LEMMA MovingOnTime ==
  ASSUME RingInv, TimeInv,
         NextFrame \/ LoadFrame \/ AwaitResync \/ CheckForBytes \/ GiveUp \/ Announce \/ Awake
  PROVE  TimeInv'
<1>1. Types
  BY DEF RingInv
<1>2. UNCHANGED <<ring, buf>> /\ ghost'.lost = ghost.lost
  BY <1>1, MovingOnDoes
<1>3. dec \in Decoder
  BY <1>1 DEF Types, TypeOK
<1>4. FrameFollows'
  <2>1. CASE NextFrame
    <3>1. dec'.pc \in {"read", "wait", "load"}
      <4>1. \/ dec' = [dec EXCEPT !.pc = "read"] \/ dec' = [dec EXCEPT !.pc = "wait"]
            \/ dec' = [dec EXCEPT !.pc = "load", !.frame = stream[dec.pos], !.pos = @ + 1]
        BY <2>1 DEF NextFrame, DStep
      <4> QED BY <1>3, <4>1 DEF Decoder
    <3> QED BY <3>1 DEF FrameFollows, Loading
  <2>2. CASE LoadFrame
    <3>1. CASE flag.dontFill
      BY <1>3, <2>2, <3>1 DEF LoadFrame, FrameDone, Decoder, FrameFollows, Loading
    <3>2. CASE ~flag.dontFill
      <4> DEFINE need == buf.firstFilled /\ Gap \notin 0 .. SilenceLimit
                 pc == IF need THEN "pending" ELSE "room"
                 silence == IF buf.firstFilled /\ ~need THEN Gap ELSE 0
      <4>1. dec' = [dec EXCEPT !.pc = pc, !.need = need, !.silence = silence]
        BY <2>2, <3>2 DEF LoadFrame
      <4>2. ~need /\ buf.firstFilled => silence = dec.frame - buf.next
        BY DEF Gap
      <4> HIDE DEF need, pc, silence
      <4>3. dec'.need = need /\ dec'.silence = silence /\ dec'.frame = dec.frame
        BY <1>3, <4>1 DEF Decoder
      <4>4. ~need /\ buf.firstFilled => dec.frame = buf.next + silence
        <5>1. buf.next \in Nat /\ dec.frame \in Nat
          BY <1>1, Members
        <5> QED BY <4>2, <5>1
      <4> QED BY <1>2, <4>3, <4>4 DEF FrameFollows
    <3> QED BY <3>1, <3>2
  <2>3. CASE AwaitResync \/ CheckForBytes \/ Announce \/ Awake
    <3>1. /\ dec'.need = dec.need /\ dec'.frame = dec.frame /\ dec'.silence = dec.silence
          /\ dec.pc \in {"pending", "room", "announce", "asleep"}
      BY <1>3, <2>3 DEF AwaitResync, CheckForBytes, Announce, Awake, DStep, Decoder
    <3> QED BY <1>2, <3>1 DEF TimeInv, FrameFollows, Loading
  <2>4. CASE GiveUp
    BY <1>3, <2>4 DEF GiveUp, FrameDone, Decoder, FrameFollows, Loading
  <2> QED BY <2>1, <2>2, <2>3, <2>4
<1> QED BY <1>2, <1>4, TimeStays

LEMMA FillTime ==
  ASSUME RingInv, TimeInv, FillSilence \/ FillFrame
  PROVE  TimeInv'
<1>1. Types /\ OffsetsAgree
  BY DEF RingInv
<1>2. /\ buf.filled \in Nat /\ FrameSize \in Nat \ {0} /\ buf.resync \in BOOLEAN
      /\ dec.need \in BOOLEAN
  BY <1>1, Members, SizesAssumption
<1>3. ~ghost.lost => InLine /\ ResyncTimed /\ ResyncWaits
  BY DEF TimeInv, RingInv
<1>4. CASE FillSilence
  <2>1. /\ dec.pc = "silence" /\ dec'.pc = "frame" /\ ghost'.lost = ghost.lost
        /\ buf'.resync = buf.resync /\ buf'.resyncAt = buf.resyncAt
        /\ buf'.resyncTs = buf.resyncTs /\ buf'.firstTs = buf.firstTs
        /\ buf'.firstFilled = buf.firstFilled
    BY <1>1, <1>4, FillSilenceDoes
  <2>2. \A i \in 0 .. buf.filled - 1 : TimeAt(Place(i))' = TimeAt(Place(i)) /\ Place(i)' = Place(i)
    BY <1>1, <1>4, FillSilenceDoes
  <2>3. FrameFollows'
    BY <2>1 DEF FrameFollows, Loading
  <2>4. ASSUME ~ghost.lost PROVE InLine'
    <3>1. buf.filled > 0 => LastTime + 1 = buf.next
      BY <2>1 DEF RingInv, NextFollows
    <3> QED BY <1>1, <1>3, <1>4, <2>4, <3>1, FillSilenceDoes
  <2>5. ASSUME ~ghost.lost PROVE ResyncTimed'
    <3> SUFFICES ASSUME buf.resync
                 PROVE  /\ buf'.firstTs = buf'.resyncTs
                        /\ TimeAt(buf.resyncAt)' = buf'.resyncTs /\ buf'.firstFilled
      BY <2>1 DEF ResyncTimed
    <3>1. PICK d \in 0 .. buf.filled - 1 : Place(d) = buf.resyncAt
      BY <1>3, <2>5 DEF ResyncWaits
    <3>2. TimeAt(Place(d))' = TimeAt(buf.resyncAt) /\ Place(d)' = buf.resyncAt
      BY <2>2, <3>1
    <3>3. TimeAt(buf.resyncAt)' = TimeAt(buf.resyncAt)
      BY <2>1, <3>2 DEF TimeAt
    <3> QED BY <1>3, <2>1, <2>5, <3>3 DEF ResyncTimed
  <2> QED BY <2>1, <2>3, <2>4, <2>5 DEF TimeInv
<1>5. CASE FillFrame
  <2>1. /\ dec.pc = "frame" /\ dec'.pc = "top"
        /\ buf'.resync = (buf.resync \/ dec.need)
        /\ buf'.resyncAt = (IF dec.need THEN buf.fill ELSE buf.resyncAt)
        /\ buf'.resyncTs = (IF dec.need THEN dec.frame ELSE buf.resyncTs)
        /\ buf'.firstTs = (IF dec.need \/ ~buf.firstFilled THEN dec.frame ELSE buf.firstTs)
        /\ buf'.firstFilled = TRUE
        /\ ghost'.lost = (ghost.lost \/ (dec.need /\ buf.resync))
    BY <1>1, <1>5, FillFrameDoes
  <2>2. /\ \A i \in 0 .. buf.filled - 1 :
             TimeAt(Place(i))' = TimeAt(Place(i)) /\ Place(i)' = Place(i)
        /\ \A i \in buf.filled .. buf.filled + FrameSize - 1 :
             Place(i)' = Place(i) /\ TimeAt(Place(i))' = dec.frame + (i - buf.filled)
        /\ Place(buf.filled) = buf.fill
    BY <1>1, <1>5, FillFrameDoes
  <2>3. FrameFollows'
    BY <2>1 DEF FrameFollows, Loading
  <2>4. ASSUME ~ghost'.lost PROVE InLine'
    <3>1. ~dec.need /\ buf.filled > 0 => LastTime + 1 = dec.frame
      BY <2>1 DEF RingInv, NextFollows
    <3>2. InLine /\ (buf.resync => ~dec.need)
      BY <1>3, <2>1, <2>4
    <3> QED BY <1>1, <1>5, <3>1, <3>2, FillFrameDoes
  <2>5. ASSUME ~ghost'.lost PROVE ResyncTimed'
    <3>0. InLine /\ ResyncTimed /\ ResyncWaits /\ ~(dec.need /\ buf.resync)
      BY <1>3, <2>1, <2>5
    <3>1. CASE dec.need
      <4>1. PICK p \in Int : p = buf.filled
        BY <1>2
      <4>2. p \in buf.filled .. buf.filled + FrameSize - 1 /\ p - buf.filled = 0
        BY <1>2, <4>1
      <4>3. Place(p)' = buf.fill /\ TimeAt(Place(p))' = dec.frame
        <5>1. Place(p) = buf.fill
          BY <2>2, <4>1
        <5>2. Place(p)' = Place(p) /\ TimeAt(Place(p))' = dec.frame + 0
          BY <2>2, <4>2
        <5>3. dec.frame \in Nat
          BY <1>1, Members
        <5> QED BY <5>1, <5>2, <5>3
      <4>4. TimeAt(buf.resyncAt)' = dec.frame
        BY <2>1, <3>1, <4>3 DEF TimeAt
      <4> QED BY <2>1, <3>1, <4>4 DEF ResyncTimed
    <3>2. CASE ~dec.need
      <4> SUFFICES ASSUME buf.resync
                   PROVE  /\ buf'.firstTs = buf'.resyncTs
                          /\ TimeAt(buf.resyncAt)' = buf'.resyncTs /\ buf'.firstFilled
        BY <2>1, <3>2 DEF ResyncTimed
      <4>1. PICK d \in 0 .. buf.filled - 1 : Place(d) = buf.resyncAt
        BY <3>0 DEF ResyncWaits
      <4>2. TimeAt(Place(d))' = TimeAt(buf.resyncAt) /\ Place(d)' = buf.resyncAt
        BY <2>2, <4>1
      <4>3. buf'.resyncAt = buf.resyncAt /\ buf'.resyncTs = buf.resyncTs
        BY <2>1, <3>2
      <4>4. TimeAt(buf.resyncAt)' = TimeAt(buf.resyncAt)
        BY <4>2, <4>3 DEF TimeAt
      <4>5. buf.firstTs = buf.resyncTs /\ TimeAt(buf.resyncAt) = buf.resyncTs /\ buf.firstFilled
        BY <3>0 DEF ResyncTimed
      <4> QED BY <2>1, <3>2, <4>3, <4>4, <4>5
    <3> QED BY <3>1, <3>2
  <2> QED BY <2>1, <2>3, <2>4, <2>5 DEF TimeInv
<1> QED BY <1>4, <1>5

(* The steps of a callback that take no sound. *)
LEMMA QuietDoes ==
  ASSUME Types, CallBack \/ CallEmpty \/ Underrun \/ StopForResync \/ ReportReady \/ CallbackDone
                  \/ CallbackPost
  PROVE  /\ UNCHANGED <<ring, dec, sync, ctl, crash>>
         /\ buf'.play = buf.play /\ buf'.filled = buf.filled /\ buf'.fill = buf.fill
         /\ buf'.resync = buf.resync /\ buf'.resyncAt = buf.resyncAt
         /\ buf'.resyncTs = buf.resyncTs /\ buf'.firstTs = buf.firstTs /\ buf'.next = buf.next
         /\ buf'.firstFilled => buf.firstFilled
         /\ buf.filled > 0 => buf'.firstFilled = buf.firstFilled
         /\ ghost'.lost = ghost.lost /\ ghost'.early = ghost.early /\ ghost'.stale = ghost.stale
         /\ ghost'.broken = ghost.broken /\ ghost'.start = ghost.start
         /\ ghost'.due = ghost.due
         /\ ghost'.clock = (IF cb.pc = "report" /\ flag.firstCall THEN buf.firstTs ELSE ghost.clock)
<1>1. UNCHANGED <<ring, dec, sync, ctl, crash>>
  BY DEF CallBack, CallEmpty, Underrun, StopForResync, ReportReady, CallbackDone, CallbackPost
<1>2. buf' = buf \/ (buf.filled = 0 /\ buf' = [buf EXCEPT !.firstFilled = FALSE])
  BY DEF CallBack, CallEmpty, Underrun, StopForResync, ReportReady, CallbackDone, CallbackPost
<1>3. /\ buf'.play = buf.play /\ buf'.filled = buf.filled /\ buf'.fill = buf.fill
      /\ buf'.resync = buf.resync /\ buf'.resyncAt = buf.resyncAt
      /\ buf'.resyncTs = buf.resyncTs /\ buf'.firstTs = buf.firstTs /\ buf'.next = buf.next
      /\ buf'.firstFilled => buf.firstFilled
      /\ buf.filled > 0 => buf'.firstFilled = buf.firstFilled
  BY <1>2 DEF Types, TypeOK, Buffer
<1>4. \/ ghost' = ghost /\ ~(cb.pc = "report" /\ flag.firstCall)
      \/ ghost' = [ghost EXCEPT !.missed = ghost.missed \/ NotYetWaiting]
           /\ ~(cb.pc = "report" /\ flag.firstCall)
      \/ ghost' = [ghost EXCEPT !.clock = buf.firstTs] /\ cb.pc = "report" /\ flag.firstCall
  BY DEF CallBack, CallEmpty, Underrun, StopForResync, ReportReady, CallbackDone, CallbackPost,
     CbStep
<1>5. /\ ghost'.lost = ghost.lost /\ ghost'.early = ghost.early /\ ghost'.stale = ghost.stale
      /\ ghost'.broken = ghost.broken /\ ghost'.start = ghost.start
      /\ ghost'.due = ghost.due
      /\ ghost'.clock = IF cb.pc = "report" /\ flag.firstCall THEN buf.firstTs ELSE ghost.clock
  BY <1>4 DEF Types, GhostTypes
<1> QED BY <1>1, <1>3, <1>5

(* Sound is taken. *)
LEMMA TakingTime ==
  ASSUME RingInv, TimeInv, NEW n \in 0 .. buf.filled, UNCHANGED <<ring, dec>>,
         buf'.play \in 0 .. RingSize,
         buf'.play = buf.play + n \/ buf'.play = buf.play + n - RingSize,
         buf'.filled = buf.filled - n, buf'.fill = buf.fill,
         buf'.resync = buf.resync, buf'.resyncAt = buf.resyncAt,
         buf'.resyncTs = buf.resyncTs, buf'.firstTs = buf.firstTs,
         buf'.firstFilled = buf.firstFilled, buf'.next = buf.next,
         ghost.lost => ghost'.lost
  PROVE  TimeInv'
<1>1. FrameFollows'
  BY FollowsStays DEF TimeInv
<1>2. ASSUME ~ghost'.lost PROVE InLine' /\ ResyncTimed'
  <2>1. Types /\ OffsetsAgree /\ InLine /\ ResyncTimed
    BY <1>2 DEF RingInv, TimeInv
  <2>2. InLine'
    BY <2>1, InLineTaking
  <2>3. ResyncTimed'
    BY <2>1 DEF ResyncTimed, TimeAt
  <2> QED BY <2>2, <2>3
<1> QED BY <1>1, <1>2 DEF TimeInv

LEMMA CallbackTime ==
  ASSUME RingInv, TimeInv, AudioCallback
  PROVE  TimeInv'
<1>1. Types
  BY DEF RingInv
<1>2. CASE CallBack \/ CallEmpty \/ Underrun \/ StopForResync \/ ReportReady \/ CallbackDone
             \/ CallbackPost
  <2>1. /\ UNCHANGED <<ring, dec>> /\ ghost'.lost = ghost.lost
        /\ buf'.play = buf.play /\ buf'.filled = buf.filled
        /\ buf'.resync = buf.resync /\ buf'.resyncAt = buf.resyncAt
        /\ buf'.resyncTs = buf.resyncTs /\ buf'.firstTs = buf.firstTs /\ buf'.next = buf.next
        /\ buf'.firstFilled => buf.firstFilled
        /\ buf.filled > 0 => buf'.firstFilled = buf.firstFilled
    BY <1>1, <1>2, QuietDoes
  <2>2. FrameFollows'
    BY <2>1, FollowsStays DEF TimeInv
  <2> QED BY <2>1, <2>2, TimeStays
<1>3. CASE EnterCallback
  <2>1. PICK drop \in 0 .. buf.filled :
         /\ UNCHANGED <<ring, dec>>
         /\ buf'.play \in 0 .. RingSize
         /\ buf'.play = buf.play + drop \/ buf'.play = buf.play + drop - RingSize
         /\ buf'.filled = buf.filled - drop /\ buf'.fill = buf.fill
         /\ buf'.resync = buf.resync /\ buf'.resyncAt = buf.resyncAt
         /\ buf'.resyncTs = buf.resyncTs /\ buf'.firstTs = buf.firstTs
         /\ buf'.firstFilled = buf.firstFilled /\ buf'.next = buf.next
         /\ ghost.lost => ghost'.lost
    BY <1>1, <1>3, EnterDoes
  <2> QED BY <2>1, TakingTime
<1>4. CASE CopyOut
  <2>1. CASE Chunk > buf.filled
    <3>1. UNCHANGED <<buf, ghost, ring, dec>>
      BY <1>4, <2>1 DEF CopyOut
    <3>2. FrameFollows'
      BY <3>1, FollowsStays DEF TimeInv
    <3> QED BY <3>1, <3>2, TimeStays
  <2>2. CASE ~(Chunk > buf.filled)
    <3>0. PICK n : n = Chunk
      OBVIOUS
    <3>1. /\ UNCHANGED <<ring, dec>> /\ n \in 0 .. buf.filled
          /\ buf'.play \in 0 .. RingSize
          /\ buf'.play = buf.play + n \/ buf'.play = buf.play + n - RingSize
          /\ buf'.filled = buf.filled - n /\ buf'.fill = buf.fill
          /\ buf'.resync = buf.resync /\ buf'.resyncAt = buf.resyncAt
          /\ buf'.resyncTs = buf.resyncTs /\ buf'.firstTs = buf.firstTs
          /\ buf'.firstFilled = buf.firstFilled /\ buf'.next = buf.next
          /\ ghost'.lost = ghost.lost
      BY <1>1, <1>4, <2>2, <3>0, CopyDoes
    <3> QED BY <3>1, TakingTime
  <2> QED BY <2>1, <2>2
<1> QED BY <1>2, <1>3, <1>4 DEF AudioCallback

(* The steps of the sync thread that do not start the sound. *)
LEMMA SyncDoes ==
  ASSUME Types, SyncThread, ~WaitSync, ~ResyncNow
  PROVE  /\ UNCHANGED <<ring, dec, cb, ctl, crash>>
         /\ buf'.play = buf.play /\ buf'.filled = buf.filled /\ buf'.fill = buf.fill
         /\ buf'.resync = buf.resync /\ buf'.resyncAt = buf.resyncAt
         /\ buf'.resyncTs = buf.resyncTs /\ buf'.firstFilled = buf.firstFilled
         /\ buf'.next = buf.next
         /\ \/ buf'.firstTs = buf.firstTs
            \/ (ResyncLater \/ ResyncAnew) /\ buf.resync /\ buf'.firstTs = buf.resyncTs
         /\ ghost'.lost = ghost.lost /\ ghost'.early = ghost.early /\ ghost'.stale = ghost.stale
         /\ ghost'.broken = ghost.broken /\ ghost'.start = ghost.start
         /\ ghost'.due = ghost.due /\ ghost'.clock = ghost.clock
<1>1. UNCHANGED <<ring, dec, cb, ctl, crash>>
  BY DEF SyncThread, ProcessMessages, SyncPost, PauseDone, StartHardware, WaitAudio,
     AudioEnds, ResyncLater, ResyncAnew, RestartFromStopped
<1>2. \/ buf' = buf
      \/ (ResyncLater \/ ResyncAnew) /\ buf.resync /\ buf' = [buf EXCEPT !.firstTs = buf.resyncTs]
  BY DEF SyncThread, ProcessMessages, SyncPost, PauseDone, StartHardware, WaitAudio,
     AudioEnds, ResyncLater, ResyncAnew, RestartFromStopped, ResyncDue
<1>3. ghost' = ghost \/ ghost' = [ghost EXCEPT !.missed = ghost.missed \/ NotYetWaiting]
  BY DEF SyncThread, ProcessMessages, SyncPost, PauseDone, StartHardware, WaitAudio,
     AudioEnds, ResyncLater, ResyncAnew, RestartFromStopped
<1>4. /\ buf'.play = buf.play /\ buf'.filled = buf.filled /\ buf'.fill = buf.fill
      /\ buf'.resync = buf.resync /\ buf'.resyncAt = buf.resyncAt
      /\ buf'.resyncTs = buf.resyncTs /\ buf'.firstFilled = buf.firstFilled
      /\ buf'.next = buf.next
      /\ \/ buf'.firstTs = buf.firstTs
         \/ (ResyncLater \/ ResyncAnew) /\ buf.resync /\ buf'.firstTs = buf.resyncTs
  BY <1>2 DEF Types, TypeOK, Buffer
<1>5. /\ ghost'.lost = ghost.lost /\ ghost'.early = ghost.early /\ ghost'.stale = ghost.stale
      /\ ghost'.broken = ghost.broken /\ ghost'.start = ghost.start
      /\ ghost'.due = ghost.due /\ ghost'.clock = ghost.clock
  BY <1>3 DEF Types, GhostTypes
<1> QED BY <1>1, <1>4, <1>5

LEMMA SyncTime ==
  ASSUME RingInv, TimeInv, SyncThread
  PROVE  TimeInv'
<1>1. Types
  BY DEF RingInv
<1>2. CASE ~WaitSync /\ ~ResyncNow
  <2>1. /\ UNCHANGED <<ring, dec>> /\ ghost'.lost = ghost.lost
        /\ buf'.play = buf.play /\ buf'.filled = buf.filled
        /\ buf'.resync = buf.resync /\ buf'.resyncAt = buf.resyncAt
        /\ buf'.resyncTs = buf.resyncTs /\ buf'.firstFilled = buf.firstFilled
        /\ buf'.next = buf.next
        /\ buf'.firstTs = buf.firstTs \/ buf'.firstTs = buf.resyncTs
    BY <1>1, <1>2, SyncDoes
  <2>2. FrameFollows'
    BY <2>1, FollowsStays DEF TimeInv
  <2> QED BY <2>1, <2>2, TimeStays
<1>3. ASSUME NEW ts, PlayAudio(ts), UNCHANGED <<ring, dec>> PROVE TimeInv'
  <2>1. /\ buf'.play = buf.play /\ buf'.filled = buf.filled /\ buf'.resync = FALSE
        /\ buf'.firstFilled = buf.firstFilled /\ buf'.next = buf.next
        /\ ghost'.lost = (ghost.lost \/ (buf.resync /\ buf.resyncAt # Place(0)))
    BY <1>1, <1>3, PlayAudioDoes
  <2>2. FrameFollows'
    BY <1>3, <2>1, FollowsStays DEF TimeInv
  <2>3. ResyncTimed'
    BY <2>1 DEF ResyncTimed
  <2>4. ASSUME ~ghost'.lost PROVE InLine'
    <3>1. InLine /\ (buf.resync => buf.resyncAt = Place(0))
      BY <2>1, <2>4 DEF TimeInv
    <3>2. \A d : Place(d)' = Place(d) /\ TimeAt(Place(d))' = TimeAt(Place(d))
      BY <1>3, <2>1 DEF TimeAt, Place, Wrap
    <3>3. buf.filled \in Nat
      BY <1>1, Members
    <3> SUFFICES ASSUME NEW j \in 0 .. buf.filled - 1, NEW i \in 0 .. j
                 PROVE  TimeAt(Place(j)) = TimeAt(Place(i)) + (j - i)
      BY <2>1, <3>2 DEF InLine
    <3>4. ASSUME NEW k \in i + 1 .. j, AtResync(k) PROVE FALSE
      <4>1. k \in 0 .. buf.filled - 1 /\ 0 \in 0 .. buf.filled - 1 /\ k # 0
        BY <3>3
      <4>2. Place(k) = Place(0)
        BY <3>1, <3>4 DEF AtResync
      <4> QED BY <1>1, <4>1, <4>2, PlacesDiffer
    <3> QED BY <3>1, <3>4 DEF InLine
  <2> QED BY <2>2, <2>3, <2>4 DEF TimeInv
<1>4. CASE WaitSync
  BY <1>3, <1>4 DEF WaitSync
<1>5. CASE ResyncNow
  BY <1>3, <1>5 DEF ResyncNow
<1> QED BY <1>2, <1>4, <1>5

LEMMA InitTime == Init => TimeInv
<1> SUFFICES ASSUME Init PROVE TimeInv
  OBVIOUS
<1>1. buf.filled = 0 /\ ~buf.resync /\ dec.pc = "top"
  BY DEF Init
<1> QED BY <1>1 DEF TimeInv, InLine, ResyncTimed, FrameFollows, Loading

LEMMA NextTime == RingInv /\ TimeInv /\ [Next]_vars => TimeInv'
<1> SUFFICES ASSUME RingInv, TimeInv, [Next]_vars PROVE TimeInv'
  OBVIOUS
<1>1. CASE ParseMessage  BY <1>1, ParseTime
<1>2. CASE NextFrame \/ LoadFrame \/ AwaitResync \/ CheckForBytes \/ GiveUp \/ Announce \/ Awake
  BY <1>2, MovingOnTime
<1>3. CASE FillSilence \/ FillFrame  BY <1>3, FillTime
<1>4. CASE AudioCallback  BY <1>4, CallbackTime
<1>5. CASE SyncThread  BY <1>5, SyncTime
<1>6. CASE Controller \/ UNCHANGED vars
  <2>1. /\ UNCHANGED <<ring, buf, ghost>> /\ dec'.pc = dec.pc /\ dec'.need = dec.need
        /\ dec'.frame = dec.frame /\ dec'.silence = dec.silence
    <3>1. UNCHANGED <<ring, buf, ghost>>
      BY <1>6 DEF Controller, vars
    <3>2. dec' = dec \/ \E pos \in 1 .. Len(stream) : dec' = [dec EXCEPT !.pos = pos]
      BY <1>6 DEF Controller, Pause, PauseSync, WaitDone, PlaySync, Move, StartDecoding, vars
    <3> QED BY <3>1, <3>2 DEF RingInv, Types, TypeOK, Decoder
  <2>2. FrameFollows'
    BY <2>1, FollowsStays DEF TimeInv
  <2> QED BY <2>1, <2>2, TimeStays
<1> QED BY <1>1, <1>2, <1>3, <1>4, <1>5, <1>6 DEF Next, DecodeThread

-----------------------------------------------------------------------------
(* The clock of the session. *)

(* After a flush for a pause all rests; before a restart it does, too.       *)
LEMMA ParseClock ==
  ASSUME Types, Protocol, ParseMessage
  PROVE  ClockInv'
<1>1. /\ dec'.pc = (IF Head(ctl.queue) = "START" THEN "top" ELSE "wait")
      /\ Unlocked /\ UNCHANGED <<ring, sync, cb, crash>>
      /\ buf'.filled = 0 /\ buf'.resync = buf.resync /\ buf'.firstFilled = FALSE
      /\ flag'.paused = TRUE /\ flag'.running = flag.running /\ flag'.firstCall = flag.firstCall
      /\ ghost'.lost = buf.resync /\ ghost'.broken = FALSE /\ ghost'.start = None
      /\ ghost'.due = None /\ ghost'.clock = None
  BY ParseDoes
<1>2. cb'.pc \in {"idle", "called"}
  BY <1>1 DEF Unlocked
<1>3. CASE buf.resync
  BY <1>1, <1>3 DEF ClockInv
<1>4. CASE ~buf.resync /\ Head(ctl.queue) # "START"
  <2>1. Drained'
    BY <1>1, <1>2, <1>4 DEF Drained, NobodyFills
  <2> QED BY <1>1, <2>1 DEF ClockInv
<1>5. CASE ~buf.resync /\ Head(ctl.queue) = "START"
  <2>1. StartQueued
    <3>1. ctl.queue \in Seq({"START", "PAUSE"}) /\ ctl.queue # << >>
      BY DEF ParseMessage, Types, TypeOK, Control
    <3>2. Head(ctl.queue) = ctl.queue[1] /\ 1 \in DOMAIN ctl.queue
      BY <3>1, TailEnds
    <3> QED BY <1>5, <3>2 DEF StartQueued
  <2>2. sync.state \in {"PAUSED", "WAIT_SYNC"} /\ sync.pc # "start" /\ ~flag.running
    BY <2>1 DEF Protocol, RingRests, RestartPending
  <2>3. SilentWhilePaused'
    BY <1>1, <2>2 DEF SilentWhilePaused
  <2>4. Starting'
    BY <1>1, <2>2 DEF Starting
  <2>5. GoesOn'
    BY <1>1 DEF GoesOn
  <2>6. ClockSet'
    BY <1>1, <1>2, <1>5 DEF ClockSet, FirstIsNext, InCallback
  <2> QED BY <1>1, <2>3, <2>4, <2>5, <2>6 DEF ClockInv, Live
<1> QED BY <1>3, <1>4, <1>5

(* Until then all rests. *)
LEMMA DrainedStays ==
  ASSUME Types, Drained, Next, ~ParseMessage
  PROVE  Drained' /\ ghost'.broken = ghost.broken
<1>1. /\ buf.filled = 0 /\ ~buf.resync /\ NobodyFills
      /\ ghost.due = None /\ ghost.start = None /\ ghost.clock = None
      /\ cb.pc \notin {"copy", "underrun", "resync", "report"}
  BY DEF Drained
<1>2. CASE DecodeThread
  <2>1. ~(NextFrame \/ LoadFrame \/ AwaitResync \/ CheckForBytes \/ GiveUp \/ Announce \/ Awake)
    BY <1>1, MovingOnDoes
  <2>2. ~(FillSilence \/ FillFrame)
    BY <1>1 DEF FillSilence, FillFrame, DStep, NobodyFills
  <2> QED BY <1>2, <2>1, <2>2 DEF DecodeThread
<1>3. CASE AudioCallback
  <2>1. ~(EnterCallback \/ CopyOut \/ Underrun \/ StopForResync \/ ReportReady)
    BY <1>1 DEF EnterCallback, CopyOut, Underrun, StopForResync, ReportReady, CbStep
  <2>2. CallBack \/ CallEmpty \/ CallbackDone \/ CallbackPost
    BY <1>3, <2>1 DEF AudioCallback
  <2>3. /\ UNCHANGED <<dec, ctl>> /\ buf'.filled = buf.filled /\ buf'.resync = buf.resync
        /\ ghost'.broken = ghost.broken /\ ghost'.start = ghost.start /\ ghost'.due = ghost.due
        /\ ghost'.clock = (IF cb.pc = "report" /\ flag.firstCall THEN buf.firstTs ELSE ghost.clock)
    BY <2>2, QuietDoes
  <2>4. cb'.pc \in {"idle", "called", "post"}
    BY <2>2 DEF CallBack, CallEmpty, CallbackDone, CallbackPost, CbStep, Types, TypeOK, Callback
  <2> QED BY <1>1, <2>3, <2>4 DEF Drained, NobodyFills
<1>4. CASE SyncThread
  <2>1. ~WaitSync
    <3>1. ~(0 >= 2 * OutSize)
      BY SizesAssumption
    <3>2. WaitSync => buf.filled >= 2 * OutSize
      BY DEF WaitSync
    <3> QED BY <1>1, <3>1, <3>2
  <2>2. ~ResyncNow
    BY <1>1 DEF ResyncNow, ResyncDue
  <2>3. /\ UNCHANGED <<dec, cb, ctl>> /\ buf'.filled = buf.filled /\ buf'.resync = buf.resync
        /\ ghost'.broken = ghost.broken /\ ghost'.start = ghost.start
        /\ ghost'.due = ghost.due /\ ghost'.clock = ghost.clock
    BY <1>4, <2>1, <2>2, SyncDoes
  <2> QED BY <1>1, <2>3 DEF Drained, NobodyFills
<1>5. CASE Controller
  <2>1. UNCHANGED <<buf, cb, ghost>>
    BY <1>5 DEF Controller
  <2>2. dec'.pc = dec.pc
    <3>1. dec' = dec \/ \E pos \in 1 .. Len(stream) : dec' = [dec EXCEPT !.pos = pos]
      BY <1>5 DEF Controller, Pause, PauseSync, WaitDone, PlaySync, Move, StartDecoding
    <3> QED BY <3>1 DEF Types, TypeOK, Decoder
  <2>3. ctl.queue # << >> => ctl'.queue # << >>
    <3>1. ctl \in Control /\ ctl.queue \in Seq({"START", "PAUSE"})
      BY DEF Types, TypeOK, Control
    <3> DEFINE pausing == Append(ctl.queue, "PAUSE")
               starting == Append(ctl.queue, "START")
    <3>2. ctl'.queue = ctl.queue \/ ctl'.queue = pausing \/ ctl'.queue = starting
      <4>1. CASE Pause
        BY <4>1 DEF Pause
      <4>2. CASE StartDecoding
        <5>1. ctl' = [ctl EXCEPT !.pc = "playing", !.queue = starting]
          BY <4>2 DEF StartDecoding
        <5> HIDE DEF starting
        <5> QED BY <3>1, <5>1 DEF Control
      <4>3. CASE PauseSync \/ WaitDone \/ PlaySync \/ Move
        BY <3>1, <4>3 DEF PauseSync, WaitDone, PlaySync, Move, CStep, Control
      <4> QED BY <1>5, <4>1, <4>2, <4>3 DEF Controller
    <3>3. pausing # << >> /\ starting # << >>
      BY <3>1, AppendEnds
    <3> HIDE DEF pausing, starting
    <3> QED BY <3>2, <3>3
  <2> QED BY <1>1, <2>1, <2>2, <2>3 DEF Drained, NobodyFills
<1> QED BY <1>2, <1>3, <1>4, <1>5 DEF Next

(* Steps that do not touch what the clock is set by. *)
LEMMA ClockSetStays ==
  ASSUME ClockSet, ring' = ring, cb'.len = cb.len, cb'.pc = cb.pc,
         ghost'.early = ghost.early, ghost'.stale = ghost.stale,
         ghost'.start = ghost.start, ghost'.clock = ghost.clock,
         flag'.firstCall = flag.firstCall, flag'.paused = flag.paused,
         buf'.resync = buf.resync, buf'.filled = buf.filled, buf'.play = buf.play,
         buf'.firstTs = buf.firstTs, buf'.firstFilled = buf.firstFilled
  PROVE  ClockSet'
<1>1. Place(0)' = Place(0) /\ TimeAt(Place(0))' = TimeAt(Place(0))
  BY DEF Place, Wrap, TimeAt
<1>2. FirstIsNext' <=> FirstIsNext
  BY <1>1 DEF FirstIsNext
<1> QED BY <1>2 DEF ClockSet, Sure, Unheard, InCallback

LEMMA StartingStays ==
  ASSUME Starting, sync'.pc = sync.pc, cb' = cb, flag'.running = flag.running,
         flag'.paused = flag.paused, flag'.firstCall = flag.firstCall,
         buf'.filled = buf.filled, buf'.play = buf.play, buf'.resync = buf.resync,
         buf'.resyncAt = buf.resyncAt
  PROVE  Starting'
<1>1. Margin' = Margin /\ \A d : Place(d)' = Place(d)
  BY DEF Margin, Place, Wrap
<1> QED BY <1>1 DEF Starting

LEMMA ContinuesStays ==
  ASSUME Continues, ring' = ring, buf'.filled = buf.filled, buf'.play = buf.play,
         buf'.resync = buf.resync, buf'.resyncAt = buf.resyncAt, buf'.next = buf.next,
         buf'.firstFilled = buf.firstFilled, ghost'.due = ghost.due,
         dec'.pc = "frame" <=> dec.pc = "frame",
         dec.pc = "frame" => dec'.need = dec.need /\ dec'.frame = dec.frame
  PROVE  Continues'
<1>1. Place(0)' = Place(0) /\ TimeAt(Place(0))' = TimeAt(Place(0))
  BY DEF Place, Wrap, TimeAt
<1>2. AtResync(0)' <=> AtResync(0)
  BY <1>1 DEF AtResync
<1> QED BY <1>1, <1>2 DEF Continues

(* The steps of the decode thread that only move it on, and the controller.  *)
LEMMA MovingOnLive ==
  ASSUME Types, Live,
         \/ NextFrame \/ LoadFrame \/ AwaitResync \/ CheckForBytes \/ GiveUp \/ Announce \/ Awake
         \/ Controller \/ UNCHANGED vars
  PROVE  Live' /\ ghost'.broken = ghost.broken
<1>1. /\ UNCHANGED <<ring, buf, cb>> /\ sync'.pc = sync.pc /\ sync'.state = sync.state
      /\ dec'.pc = "frame" <=> dec.pc = "frame"
      /\ dec.pc = "frame" => dec'.need = dec.need /\ dec'.frame = dec.frame
      /\ flag'.running = flag.running /\ flag'.paused = flag.paused
      /\ flag'.firstCall = flag.firstCall
      /\ ghost'.early = ghost.early /\ ghost'.stale = ghost.stale
      /\ ghost'.broken = ghost.broken /\ ghost'.start = ghost.start
      /\ ghost'.due = ghost.due /\ ghost'.clock = ghost.clock
  <2>1. CASE Controller \/ UNCHANGED vars
    <3>1. UNCHANGED <<ring, buf, cb, flag, ghost>>
      BY <2>1 DEF Controller, vars
    <3>2. dec' = dec \/ \E pos \in 1 .. Len(stream) : dec' = [dec EXCEPT !.pos = pos]
      BY <2>1 DEF Controller, Pause, PauseSync, WaitDone, PlaySync, Move, StartDecoding, vars
    <3>3. dec'.pc = dec.pc /\ dec'.need = dec.need /\ dec'.frame = dec.frame
      BY <3>2 DEF Types, TypeOK, Decoder
    <3> DEFINE pausing == Append(sync.queue, "PAUSE")
               starting == Append(sync.queue, "START")
    <3>4. \/ sync' = sync \/ sync' = [sync EXCEPT !.queue = pausing, !.done = FALSE]
          \/ sync' = [sync EXCEPT !.queue = starting]
      BY <2>1 DEF Controller, Pause, PauseSync, WaitDone, PlaySync, Move, StartDecoding, vars
    <3> HIDE DEF pausing, starting
    <3>5. sync'.pc = sync.pc /\ sync'.state = sync.state
      BY <3>4 DEF Types, TypeOK, Sync
    <3> QED BY <3>1, <3>3, <3>5
  <2>2. CASE ~(Controller \/ UNCHANGED vars)
    BY <2>2, MovingOnDoes
  <2> QED BY <2>1, <2>2
<1>2. SilentWhilePaused'
  BY <1>1 DEF Live, SilentWhilePaused
<1>3. Starting'
  BY <1>1, StartingStays DEF Live
<1>4. GoesOn'
  <2>1. Halted' <=> Halted
    BY <1>1 DEF Halted
  <2>2. Continues => Continues'
    BY <1>1, ContinuesStays
  <2> QED BY <1>1, <2>1, <2>2 DEF Live, GoesOn
<1>5. ClockSet'
  BY <1>1, ClockSetStays DEF Live
<1> QED BY <1>1, <1>2, <1>3, <1>4, <1>5 DEF Live

(* Filling: before it the callback is not within its section. *)
LEMMA FillingStarting ==
  ASSUME Types, Starting, Unlocked, UNCHANGED <<flag, sync, cb>>,
         buf'.filled >= buf.filled, buf'.filled \in Nat,
         \A i \in 0 .. buf.filled - 1 : Place(i)' = Place(i),
         \/ ~buf'.resync
         \/ buf.resync /\ buf'.resyncAt = buf.resyncAt
         \/ \E d \in buf.filled .. buf'.filled - 1 : Place(d)' = buf'.resyncAt
  PROVE  Starting'
<1>1. buf.filled \in Nat /\ OutSize \in Nat /\ cb.len \in Nat
  BY Members, Zeros
<1>2. Margin' = Margin /\ Margin \in Nat
  BY <1>1 DEF Margin
<1> SUFFICES ASSUME sync.pc = "start"
             PROVE  /\ ~flag.running /\ ~flag.paused
                    /\ cb.pc = "called" => flag.firstCall
                    /\ buf'.filled >= Margin
                    /\ cb.pc = "called" /\ buf'.resync =>
                         \E d \in Margin .. buf'.filled - 1 : Place(d)' = buf'.resyncAt
                    /\ cb.pc # "resync"
  BY <1>2 DEF Starting, Unlocked
<1>3. /\ ~flag.running /\ ~flag.paused
      /\ cb.pc = "called" => flag.firstCall
      /\ buf.filled >= Margin /\ cb.pc # "resync"
  BY DEF Starting, Unlocked
<1>4. buf'.filled >= Margin
  BY <1>1, <1>2, <1>3
<1>5. ASSUME cb.pc = "called", buf'.resync
      PROVE  \E d \in Margin .. buf'.filled - 1 : Place(d)' = buf'.resyncAt
  <2>1. CASE buf.resync /\ buf'.resyncAt = buf.resyncAt
    <3>1. PICK d \in Margin .. buf.filled - 1 : Place(d) = buf.resyncAt
      BY <1>5, <2>1 DEF Starting
    <3>2. d \in 0 .. buf.filled - 1 /\ d \in Margin .. buf'.filled - 1
      BY <1>1, <1>2
    <3> QED BY <2>1, <3>1, <3>2
  <2>2. CASE \E d \in buf.filled .. buf'.filled - 1 : Place(d)' = buf'.resyncAt
    <3>1. PICK d \in buf.filled .. buf'.filled - 1 : Place(d)' = buf'.resyncAt
      BY <2>2
    <3>2. d \in Margin .. buf'.filled - 1
      BY <1>1, <1>2, <1>3
    <3> QED BY <3>1, <3>2
  <2> QED BY <1>5, <2>1, <2>2
<1> QED BY <1>3, <1>4, <1>5

LEMMA FillSilenceLive ==
  ASSUME RingInv, TimeInv, Live, ~ghost.lost, FillSilence
  PROVE  Live' /\ ghost'.broken = ghost.broken
<1>1. Types /\ OffsetsAgree /\ FrameFollows
  BY DEF RingInv, TimeInv
<1>2. /\ dec.pc = "silence" /\ dec'.pc = "frame" /\ dec'.need = dec.need
      /\ dec'.frame = dec.frame /\ dec.silence \in Nat
      /\ Unlocked /\ UNCHANGED <<flag, sync, cb>>
      /\ buf'.filled = buf.filled + dec.silence
      /\ buf'.resync = buf.resync /\ buf'.resyncAt = buf.resyncAt
      /\ buf'.firstTs = buf.firstTs
      /\ buf'.firstFilled = buf.firstFilled /\ buf'.next = buf.next
      /\ ghost'.early = (ghost.early \/ (dec.silence > 0 /\ ~buf.firstFilled))
      /\ ghost'.stale = ghost.stale
      /\ ghost'.broken = ghost.broken /\ ghost'.start = ghost.start
      /\ ghost'.due = ghost.due /\ ghost'.clock = ghost.clock
      /\ \A i \in 0 .. buf.filled - 1 :
           Place(i)' = Place(i) /\ TimeAt(Place(i))' = TimeAt(Place(i))
      /\ \A i \in buf.filled .. buf.filled + dec.silence - 1 :
           Place(i)' = Place(i) /\ TimeAt(Place(i))' = buf.next + (i - buf.filled)
  BY <1>1, FillSilenceDoes
<1>3. buf.filled \in Nat /\ buf.next \in Nat /\ dec.frame \in Nat
  BY <1>1, Members, Zeros
<1>4. SilentWhilePaused'
  BY <1>2 DEF Live, SilentWhilePaused
<1>5. Starting'
  <2>1. buf'.filled >= buf.filled /\ buf'.filled \in Nat
    BY <1>2, <1>3
  <2> QED BY <1>1, <1>2, <2>1, FillingStarting DEF Live
<1>6. CASE buf.filled > 0
  <2>1. buf'.filled > 0 /\ 0 \in 0 .. buf.filled - 1
    BY <1>2, <1>3, <1>6
  <2>2. Place(0)' = Place(0) /\ TimeAt(Place(0))' = TimeAt(Place(0))
    BY <1>2, <2>1
  <2>3. Continues => Continues'
    BY <1>2, <1>6, <2>1, <2>2 DEF Continues, AtResync
  <2>4. GoesOn'
    BY <1>2, <2>3 DEF Live, GoesOn, Halted
  <2>5. FirstIsNext => FirstIsNext'
    BY <1>2, <1>6, <2>1, <2>2 DEF FirstIsNext
  <2>6. ClockSet'
    BY <1>2, <1>6, <2>1, <2>5 DEF Live, ClockSet, Sure, Unheard, InCallback, Unlocked
  <2> QED BY <1>2, <1>4, <1>5, <2>4, <2>6 DEF Live
<1>7. CASE buf.filled = 0 /\ dec.silence > 0
  <2>1. buf'.filled > 0 /\ 0 \in buf.filled .. buf.filled + dec.silence - 1 /\ 0 - buf.filled = 0
    BY <1>2, <1>3, <1>7
  <2>2. TimeAt(Place(0))' = buf.next
    <3>1. TimeAt(Place(0))' = buf.next + (0 - buf.filled)
      BY <1>2, <2>1
    <3> QED BY <1>3, <2>1, <3>1
  <2>3. Continues => Continues'
    BY <1>2, <1>7, <2>1, <2>2 DEF Continues
  <2>4. GoesOn'
    BY <1>2, <2>3 DEF Live, GoesOn, Halted
  <2>5. Sure' => Sure /\ buf.firstFilled
    BY <1>2, <1>7 DEF Sure
  <2>6. FirstIsNext => ~buf.firstFilled
    BY <1>7 DEF FirstIsNext
  <2>7. ClockSet'
    BY <1>2, <2>5, <2>6 DEF Live, ClockSet, Unheard, InCallback, Unlocked
  <2> QED BY <1>2, <1>4, <1>5, <2>4, <2>7 DEF Live
<1>8. CASE buf.filled = 0 /\ dec.silence = 0
  <2>1. buf'.filled = 0
    BY <1>2, <1>8
  <2>2. Continues => Continues'
    <3>1. ASSUME buf.firstFilled, ~dec.need PROVE dec.frame = buf.next
      <4>1. dec.frame = buf.next + dec.silence
        BY <1>1, <1>2, <3>1 DEF FrameFollows, Loading
      <4> QED BY <1>3, <1>8, <4>1
    <3> QED BY <1>2, <1>8, <2>1, <3>1 DEF Continues
  <2>3. GoesOn'
    BY <1>2, <2>2 DEF Live, GoesOn, Halted
  <2>4. FirstIsNext => FirstIsNext'
    BY <1>2, <1>8, <2>1 DEF FirstIsNext
  <2>5. ClockSet'
    BY <1>2, <1>8, <2>1, <2>4 DEF Live, ClockSet, Sure, Unheard, InCallback, Unlocked
  <2> QED BY <1>2, <1>4, <1>5, <2>3, <2>5 DEF Live
<1> QED BY <1>2, <1>3, <1>6, <1>7, <1>8

LEMMA FillFrameLive ==
  ASSUME RingInv, TimeInv, Live, ~ghost'.lost, FillFrame
  PROVE  Live' /\ ghost'.broken = ghost.broken
<1>1. Types /\ OffsetsAgree
  BY DEF RingInv
<1>2. /\ dec.pc = "frame" /\ dec'.pc = "top"
      /\ Unlocked /\ UNCHANGED <<flag, sync, cb>>
      /\ buf'.filled = buf.filled + FrameSize
      /\ buf'.resync = (buf.resync \/ dec.need)
      /\ buf'.resyncAt = (IF dec.need THEN buf.fill ELSE buf.resyncAt)
      /\ buf'.firstTs = (IF dec.need \/ ~buf.firstFilled THEN dec.frame ELSE buf.firstTs)
      /\ buf'.firstFilled = TRUE
      /\ ghost'.early = (ghost.early \/ (dec.need /\ flag.firstCall))
      /\ ghost'.lost = (ghost.lost \/ (dec.need /\ buf.resync))
      /\ ghost'.stale = ghost.stale
      /\ ghost'.broken = ghost.broken /\ ghost'.start = ghost.start
      /\ ghost'.due = ghost.due /\ ghost'.clock = ghost.clock
      /\ \A i \in 0 .. buf.filled - 1 :
           Place(i)' = Place(i) /\ TimeAt(Place(i))' = TimeAt(Place(i))
      /\ \A i \in buf.filled .. buf.filled + FrameSize - 1 :
           Place(i)' = Place(i) /\ TimeAt(Place(i))' = dec.frame + (i - buf.filled)
      /\ Place(buf.filled) = buf.fill
  BY <1>1, FillFrameDoes
<1>3. buf.filled \in Nat /\ dec.frame \in Nat /\ FrameSize \in Nat \ {0}
  BY <1>1, Members, Zeros, SizesAssumption
<1>4. buf'.filled > 0 /\ buf'.filled >= buf.filled /\ buf'.filled \in Nat
  BY <1>2, <1>3
<1>5. ~(dec.need /\ buf.resync)
  BY <1>2
<1>6. SilentWhilePaused'
  BY <1>2 DEF Live, SilentWhilePaused
<1>7. PICK p \in Int : p = buf.filled
  BY <1>3
<1>8. p \in buf.filled .. buf.filled + FrameSize - 1 /\ p - buf.filled = 0
  BY <1>3, <1>7
<1>9. Place(p)' = buf.fill /\ TimeAt(Place(p))' = dec.frame
  <2>1. Place(p) = buf.fill
    BY <1>2, <1>7
  <2>2. Place(p)' = Place(p) /\ TimeAt(Place(p))' = dec.frame + (p - buf.filled)
    BY <1>2, <1>8
  <2> QED BY <1>3, <1>8, <2>1, <2>2
<1>10. Starting'
  <2>1. \/ ~buf'.resync
        \/ buf.resync /\ buf'.resyncAt = buf.resyncAt
        \/ \E d \in buf.filled .. buf'.filled - 1 : Place(d)' = buf'.resyncAt
    <3>1. CASE dec.need
      <4>1. p \in buf.filled .. buf'.filled - 1
        BY <1>2, <1>3, <1>7
      <4> QED BY <1>2, <1>9, <3>1, <4>1
    <3>2. CASE ~dec.need
      BY <1>2, <3>2
    <3> QED BY <3>1, <3>2
  <2> QED BY <1>1, <1>2, <1>4, <2>1, FillingStarting DEF Live
<1>11. CASE buf.filled > 0
  <2>1. 0 \in 0 .. buf.filled - 1
    BY <1>3, <1>11
  <2>2. Place(0)' = Place(0) /\ TimeAt(Place(0))' = TimeAt(Place(0))
    BY <1>2, <2>1
  <2>3. AtResync(0) => AtResync(0)'
    BY <1>2, <1>5, <2>2 DEF AtResync
  <2>4. Continues => Continues'
    BY <1>2, <1>4, <1>11, <2>2, <2>3 DEF Continues
  <2>5. GoesOn'
    BY <1>2, <2>4 DEF Live, GoesOn, Halted
  <2>6. FirstIsNext /\ buf.firstFilled => FirstIsNext'
    BY <1>2, <1>4, <1>11, <2>2 DEF FirstIsNext
  <2>7. ClockSet'
    BY <1>2, <1>4, <1>11, <2>6 DEF Live, ClockSet, Sure, Unheard, InCallback, Unlocked
  <2> QED BY <1>2, <1>6, <1>10, <2>5, <2>7 DEF Live
<1>12. CASE buf.filled = 0
  <2>1. p = 0 /\ Place(0)' = buf.fill /\ TimeAt(Place(0))' = dec.frame
    <3>1. p = 0
      BY <1>7, <1>12
    <3> QED BY <1>9, <3>1
  <2>2. dec.need => AtResync(0)'
    BY <1>2, <2>1 DEF AtResync
  <2>3. Continues => Continues'
    BY <1>2, <1>4, <1>12, <2>1, <2>2 DEF Continues
  <2>4. GoesOn'
    BY <1>2, <2>3 DEF Live, GoesOn, Halted
  <2>5. FirstIsNext => FirstIsNext'
    BY <1>2, <1>4, <1>12, <2>1 DEF FirstIsNext
  <2>6. ClockSet'
    BY <1>2, <1>4, <2>5 DEF Live, ClockSet, Sure, Unheard, InCallback, Unlocked
  <2> QED BY <1>2, <1>6, <1>10, <2>4, <2>6 DEF Live
<1> QED BY <1>3, <1>11, <1>12

(* The sound runs only while the sync thread lets it. *)
LEMMA RunningNotPaused ==
  ASSUME Types, Protocol, Live, flag.running
  PROVE  ~flag.paused /\ sync.pc = "top"
<1>1. sync.pc \in {"top", "start", "post", "done"}
  BY DEF Types, TypeOK, Sync, SyncPC
<1>2. sync.state # "PAUSED"
  BY DEF Protocol, SyncPhases
<1>3. sync.pc \notin {"post", "done"}
  BY <1>2 DEF Protocol, SyncPhases, Closing
<1>4. sync.pc # "start"
  BY DEF Live, Starting
<1>5. sync.pc = "top"
  BY <1>1, <1>3, <1>4
<1> QED BY <1>5 DEF Live, SilentWhilePaused

LEMMA CallBackLive ==
  ASSUME Types, Protocol, Live, CallBack
  PROVE  Live' /\ ghost'.broken = ghost.broken
<1>1. /\ UNCHANGED <<ring, buf, flag, dec, sync, ghost>> /\ flag.running
      /\ cb.pc = "idle" /\ cb'.pc = "called"
  BY DEF CallBack, CbStep, Types, TypeOK, Callback
<1>2. ~flag.paused /\ sync.pc = "top"
  BY <1>1, RunningNotPaused
<1>3. SilentWhilePaused'
  BY <1>1, <1>2 DEF Live, SilentWhilePaused
<1>4. Starting'
  BY <1>1, <1>2 DEF Starting
<1>5. GoesOn'
  <2>1. ghost.due = None \/ Continues
    BY <1>1 DEF Live, GoesOn, Halted
  <2>2. Continues => Continues'
    BY <1>1, ContinuesStays
  <2> QED BY <1>1, <2>1, <2>2 DEF GoesOn
<1>6. ClockSet'
  <2>1. FirstIsNext' <=> FirstIsNext
    BY <1>1 DEF FirstIsNext, Place, Wrap, TimeAt
  <2> QED BY <1>1, <2>1 DEF Live, ClockSet, Sure, Unheard, InCallback
<1> QED BY <1>1, <1>3, <1>4, <1>5, <1>6 DEF Live

(* The callback stops the hardware: nothing is left to play. *)
LEMMA StopLive ==
  ASSUME Types, Live, buf.filled = 0, cb.pc \in {"called", "underrun"},
         cb'.pc = (IF cb.pc = "called" THEN "idle" ELSE "resync"),
         flag' = Stopped, buf' = [buf EXCEPT !.firstFilled = FALSE],
         UNCHANGED <<ring, dec, sync, ghost>>
  PROVE  Live' /\ ghost'.broken = ghost.broken
<1>1. /\ buf'.filled = 0 /\ ~buf'.firstFilled /\ buf'.resync = buf.resync
      /\ buf'.firstTs = buf.firstTs
      /\ flag'.paused /\ ~flag'.running /\ flag'.firstCall = flag.firstCall
  BY DEF Stopped, Types, TypeOK, Buffer, Flags
<1>2. sync.pc # "start"
  <2>1. ~(0 >= 2 * OutSize) /\ ~(0 >= OutSize)
    BY SizesAssumption
  <2> QED BY <2>1 DEF Live, Starting, Margin
<1>3. SilentWhilePaused'
  BY <1>1 DEF SilentWhilePaused
<1>4. Starting'
  BY <1>2 DEF Starting
<1>5. GoesOn'
  BY <1>1, <1>2 DEF GoesOn, Halted
<1>6. FirstIsNext'
  BY <1>1 DEF FirstIsNext
<1>7. ClockSet'
  BY <1>1, <1>6 DEF Live, ClockSet, Sure, Unheard, InCallback
<1> QED BY <1>3, <1>4, <1>5, <1>7 DEF Live

LEMMA CallEmptyLive ==
  ASSUME Types, Live, CallEmpty
  PROVE  Live' /\ ghost'.broken = ghost.broken
<1>1. /\ buf.filled = 0 /\ cb.pc = "called" /\ cb'.pc = "idle"
      /\ flag' = Stopped /\ buf' = [buf EXCEPT !.firstFilled = FALSE]
      /\ UNCHANGED <<ring, dec, sync, ghost>>
  BY DEF CallEmpty, CbStep, Types, TypeOK, Callback
<1> QED BY <1>1, StopLive

(* The callback goes on, out of its section or within it. *)
LEMMA CallbackMovesLive ==
  ASSUME Types, Live, UNCHANGED <<ring, buf, dec, sync>>,
         cb.pc \in {"underrun", "resync", "done", "post"},
         cb'.pc = (IF cb.pc = "underrun" THEN "resync" ELSE IF cb.pc = "resync" THEN "report"
                   ELSE IF cb.pc = "done" THEN cb'.pc ELSE "idle"),
         cb.pc = "done" => cb'.pc \in {"post", "idle"},
         flag'.running = flag.running, flag'.paused = flag.paused,
         flag'.firstCall = flag.firstCall,
         ghost'.early = ghost.early, ghost'.stale = ghost.stale,
         ghost'.start = ghost.start, ghost'.due = ghost.due, ghost'.clock = ghost.clock
  PROVE  Live'
<1>1. cb'.pc \in {"resync", "report", "post", "idle"}
  OBVIOUS
<1>2. buf.filled \in Nat /\ buf.play \in 0 .. RingSize /\ RingSize \in Nat /\ OutSize \in Nat \ {0}
      /\ buf.resyncAt \in 0 .. RingSize - 1
  BY Members, Zeros, SizesAssumption
<1>3. SilentWhilePaused'
  BY <1>1 DEF Live, SilentWhilePaused
<1>4. Starting'
  <2> SUFFICES ASSUME sync.pc = "start"
               PROVE  /\ ~flag.running /\ ~flag.paused /\ buf.filled >= 0
                      /\ cb'.pc = "resync" => ~(buf.resync /\ buf.play = buf.resyncAt)
    BY <1>1 DEF Starting, Margin
  <2>1. ~flag.running /\ ~flag.paused /\ buf.filled >= 0
    BY <1>2 DEF Live, Starting
  <2>2. ASSUME cb'.pc = "resync", buf.resync, buf.play = buf.resyncAt PROVE FALSE
    <3>1. cb.pc = "underrun"
      BY <2>2
    <3>2. PICK d \in OutSize .. buf.filled - 1 : Place(d) = buf.resyncAt
      BY <2>2, <3>1 DEF Live, Starting, Margin
    <3>3. d \in 0 .. buf.filled - 1 /\ 0 \in 0 .. buf.filled - 1 /\ d # 0
          /\ 0 \in 0 .. RingSize - 1 /\ buf.play + 0 = buf.play /\ buf.play < RingSize
      BY <1>2, <2>2
    <3>4. Place(0) = buf.play
      BY <3>3, PlaceIs
    <3> QED BY <2>2, <3>2, <3>3, <3>4, PlacesDiffer
  <2> QED BY <2>1, <2>2
<1>5. GoesOn'
  <2>1. Halted => Halted'
    BY <1>1 DEF Halted
  <2>2. Continues => Continues'
    BY ContinuesStays
  <2> QED BY <2>1, <2>2 DEF Live, GoesOn
<1>6. ClockSet'
  <2>1. FirstIsNext' <=> FirstIsNext
    BY DEF FirstIsNext, Place, Wrap, TimeAt
  <2>2. InCallback' => InCallback
    BY DEF InCallback
  <2>3. cb.pc \in {"underrun", "resync"} => InCallback /\ InCallback'
    BY DEF InCallback
  <2>4. cb.pc \in {"done", "post"} => ~InCallback
    BY DEF InCallback
  <2> QED BY <1>1, <2>1, <2>2, <2>3, <2>4 DEF Live, ClockSet, Sure, Unheard
<1> QED BY <1>3, <1>4, <1>5, <1>6 DEF Live

LEMMA UnderrunLive ==
  ASSUME Types, Live, Underrun
  PROVE  Live' /\ ghost'.broken = ghost.broken
<1>1. /\ cb.pc = "underrun" /\ cb'.pc = "resync" /\ UNCHANGED <<ring, dec, sync, ghost>>
  BY DEF Underrun, CbStep, Types, TypeOK, Callback
<1>2. CASE buf.filled = 0 /\ flag' = Stopped /\ buf' = [buf EXCEPT !.firstFilled = FALSE]
  BY <1>1, <1>2, StopLive
<1>3. CASE UNCHANGED <<flag, buf>>
  BY <1>1, <1>3, CallbackMovesLive
<1> QED BY <1>2, <1>3 DEF Underrun

LEMMA StopForResyncLive ==
  ASSUME RingInv, Live, ~ghost.lost, StopForResync
  PROVE  Live' /\ ghost'.broken = ghost.broken
<1>0. Types
  BY DEF RingInv
<1>1. /\ cb.pc = "resync" /\ cb'.pc = "report" /\ UNCHANGED <<ring, buf, dec, sync, ghost>>
  BY <1>0 DEF StopForResync, CbStep, Types, TypeOK, Callback
<1>2. CASE buf.resync /\ buf.play = buf.resyncAt
  <2>1. flag'.paused /\ ~flag'.running /\ flag'.firstCall = flag.firstCall
    <3>1. flag' = Stopped
      BY <1>2 DEF StopForResync
    <3> QED BY <1>0, <3>1 DEF Stopped, Types, TypeOK, Flags
  <2>2. sync.pc # "start"
    BY <1>1, <1>2 DEF Live, Starting
  <2>3. SilentWhilePaused'
    BY <1>1, <2>1 DEF SilentWhilePaused
  <2>4. Starting'
    BY <1>1, <2>2 DEF Starting
  <2>5. GoesOn'
    BY <1>1, <2>1, <2>2 DEF GoesOn, Halted
  <2>6. FirstIsNext'
    <3>1. PICK d \in 0 .. buf.filled - 1 : Place(d) = buf.resyncAt
      BY <1>2 DEF RingInv, ResyncWaits
    <3>2. buf.filled > 0
      BY <1>0, <3>1, Members, Zeros
    <3> QED BY <1>1, <1>2, <3>2 DEF FirstIsNext
  <2>7. ClockSet'
    BY <1>1, <2>1, <2>6 DEF Live, ClockSet, Sure, Unheard, InCallback
  <2> QED BY <1>1, <2>3, <2>4, <2>5, <2>7 DEF Live
<1>3. CASE ~(buf.resync /\ buf.play = buf.resyncAt)
  <2>1. UNCHANGED flag
    BY <1>3 DEF StopForResync
  <2> QED BY <1>0, <1>1, <2>1, CallbackMovesLive
<1> QED BY <1>2, <1>3

(* The session is told the time of the first sound. *)
LEMMA ReportReadyLive ==
  ASSUME Types, Live, ReportReady
  PROVE  Live' /\ ghost'.broken = ghost.broken
<1>1. /\ UNCHANGED <<ring, dec, sync>> /\ buf' = buf
      /\ ghost'.early = ghost.early /\ ghost'.stale = ghost.stale
      /\ ghost'.broken = ghost.broken /\ ghost'.start = ghost.start
      /\ ghost'.due = ghost.due
      /\ ghost'.clock = (IF cb.pc = "report" /\ flag.firstCall THEN buf.firstTs ELSE ghost.clock)
  <2>1. buf' = buf
    BY DEF ReportReady
  <2> QED BY <2>1, QuietDoes
<1>2. cb.pc = "report" /\ cb'.pc = "done"
  BY DEF ReportReady, CbStep, Types, TypeOK, Callback
<1>3. ~flag'.firstCall /\ flag'.paused = flag.paused /\ flag'.running = flag.running
  BY DEF ReportReady, Types, TypeOK, Flags
<1>4. SilentWhilePaused'
  BY <1>1, <1>2, <1>3 DEF Live, SilentWhilePaused
<1>5. Starting'
  <2>1. buf.filled \in Nat
    BY Members, Zeros
  <2> QED BY <1>1, <1>2, <1>3, <2>1 DEF Live, Starting, Margin
<1>6. GoesOn'
  <2>1. Halted => Halted'
    BY <1>1, <1>2, <1>3 DEF Halted
  <2>2. Continues => Continues'
    BY <1>1, ContinuesStays
  <2> QED BY <1>1, <2>1, <2>2 DEF Live, GoesOn
<1>7. ClockSet'
  <2>1. FirstIsNext' <=> FirstIsNext
    BY <1>1 DEF FirstIsNext, Place, Wrap, TimeAt
  <2>2. InCallback
    BY <1>2 DEF InCallback
  <2> QED BY <1>1, <1>2, <1>3, <2>1, <2>2 DEF Live, ClockSet, Sure, Unheard
<1> QED BY <1>1, <1>4, <1>5, <1>6, <1>7 DEF Live

LEMMA CallbackEndsLive ==
  ASSUME Types, Live, CallbackDone \/ CallbackPost
  PROVE  Live' /\ ghost'.broken = ghost.broken
<1>1. /\ UNCHANGED <<ring, buf, dec, sync>>
      /\ \/ cb.pc = "done" /\ cb'.pc \in {"post", "idle"}
         \/ cb.pc = "post" /\ cb'.pc = "idle"
  <2>1. cb \in Callback  BY DEF Types, TypeOK
  <2> QED BY <2>1 DEF CallbackDone, CallbackPost, CbStep, Callback
<1>2. /\ flag'.running = flag.running /\ flag'.paused = flag.paused
      /\ flag'.firstCall = flag.firstCall
  BY DEF CallbackDone, CallbackPost, Types, TypeOK, Flags
<1>3. /\ ghost'.early = ghost.early /\ ghost'.stale = ghost.stale
      /\ ghost'.broken = ghost.broken /\ ghost'.start = ghost.start
      /\ ghost'.due = ghost.due
      /\ ghost'.clock = (IF cb.pc = "report" /\ flag.firstCall THEN buf.firstTs ELSE ghost.clock)
  BY QuietDoes
<1> QED BY <1>1, <1>2, <1>3, CallbackMovesLive

(* A callback begins, and may drop sound. *)
LEMMA EnterLive ==
  ASSUME RingInv, Protocol, TimeInv, Live, ~ghost'.lost, EnterCallback
  PROVE  Live' /\ ghost'.broken = ghost.broken
<1>1. Types /\ OffsetsAgree /\ NextFollows
  BY DEF RingInv
<1>2. PICK drop \in 0 .. buf.filled :
         /\ cb.pc = "called" /\ cb'.pc = "copy" /\ buf.filled > 0
         /\ UNCHANGED <<ring, flag, dec, sync, ctl, crash>>
         /\ flag.firstCall => drop = 0 /\ cb'.len = OutSize
         /\ cb'.len <= OutSize
         /\ buf'.play \in 0 .. RingSize
         /\ buf'.play = buf.play + drop \/ buf'.play = buf.play + drop - RingSize
         /\ buf'.filled = buf.filled - drop /\ buf'.fill = buf.fill
         /\ buf'.resync = buf.resync /\ buf'.resyncAt = buf.resyncAt
         /\ buf'.resyncTs = buf.resyncTs /\ buf'.firstTs = buf.firstTs
         /\ buf'.firstFilled = buf.firstFilled /\ buf'.next = buf.next
         /\ ghost'.lost = (ghost.lost
              \/ (buf.resync /\ \E i \in 0 .. drop - 1 : Place(i) = buf.resyncAt))
         /\ ghost'.stale = (ghost.stale \/ ~flag.running)
         /\ ghost'.due = (IF ghost.due = None THEN None ELSE ghost.due + drop)
         /\ ghost'.early = ghost.early /\ ghost'.broken = ghost.broken
         /\ ghost'.start = ghost.start /\ ghost'.clock = ghost.clock
  BY <1>1, EnterDoes
<1>3. buf.filled \in Nat /\ RingSize \in Nat /\ buf.filled <= RingSize /\ OutSize \in Nat \ {0}
      /\ buf.next \in Nat /\ dec.frame \in Nat
  BY <1>1, Members, Zeros, SizesAssumption
<1>4. \A i \in 0 .. buf.filled - drop - 1 :
        Place(i)' = Place(i + drop) /\ TimeAt(Place(i))' = TimeAt(Place(i + drop))
  <2>1. \A i \in 0 .. buf.filled - drop - 1 : Place(i)' = Place(i + drop)
    BY <1>1, <1>2, Taking
  <2> QED BY <1>2, <2>1 DEF TimeAt
<1>5. \A i \in 0 .. drop - 1 : ~AtResync(i)
  BY <1>2 DEF AtResync
<1>6. InLine
  BY <1>2 DEF TimeInv
<1>7. SilentWhilePaused'
  BY <1>2 DEF Live, SilentWhilePaused
<1>8. Starting'
  <2> SUFFICES ASSUME sync.pc = "start" PROVE Starting'
    BY <1>2 DEF Starting
  <2>1. /\ ~flag.running /\ ~flag.paused /\ flag.firstCall /\ buf.filled >= 2 * OutSize
    BY <1>2 DEF Live, Starting, Margin
  <2>2. drop = 0 /\ cb'.len = OutSize /\ OutSize + OutSize = 2 * OutSize
    BY <1>2, <1>3, <2>1
  <2>3. Margin' = 2 * OutSize /\ buf'.filled = buf.filled
    BY <1>2, <1>3, <2>2 DEF Margin
  <2>4. ASSUME buf.resync
        PROVE  \E d \in 2 * OutSize .. buf.filled - 1 : Place(d)' = buf.resyncAt
    <3>1. PICK d \in 2 * OutSize .. buf.filled - 1 : Place(d) = buf.resyncAt
      BY <1>2, <2>4 DEF Live, Starting, Margin
    <3>2. d \in 0 .. buf.filled - drop - 1 /\ d + drop = d
      BY <1>3, <2>2
    <3>3. Place(d)' = Place(d)
      BY <1>4, <3>2
    <3> QED BY <3>1, <3>3
  <2> QED BY <1>2, <2>1, <2>3, <2>4 DEF Starting
<1>9. GoesOn'
  <2> SUFFICES ASSUME ghost'.due # None PROVE Continues'
    BY DEF GoesOn
  <2>1. ghost.due # None /\ ghost'.due = ghost.due + drop /\ ghost.due \in Int
    BY <1>1, <1>2, GhostMembers
  <2>2. TimeAt(Place(0)) = ghost.due \/ AtResync(0)
    BY <1>2, <2>1 DEF Live, GoesOn, Halted, Continues
  <2>3. CASE drop = 0
    <3>1. 0 \in 0 .. buf.filled - drop - 1 /\ 0 + drop = 0 /\ buf'.filled = buf.filled
          /\ ghost'.due = ghost.due
      BY <1>2, <1>3, <2>1, <2>3
    <3>2. Place(0)' = Place(0) /\ TimeAt(Place(0))' = TimeAt(Place(0))
      BY <1>4, <3>1
    <3> QED BY <1>2, <2>2, <3>1, <3>2 DEF Continues, AtResync
  <2>4. CASE drop > 0 /\ drop < buf.filled
    <3>1. 0 \in 0 .. drop - 1 /\ drop \in 0 .. buf.filled - 1 /\ 0 \in 0 .. drop
          /\ 0 \in 0 .. buf.filled - drop - 1 /\ 0 + drop = drop /\ buf'.filled > 0
          /\ drop - 0 = drop /\ 0 + 1 = 1
      BY <1>2, <1>3, <2>4
    <3>2. TimeAt(Place(0)) = ghost.due
      BY <1>5, <2>2, <3>1
    <3>3. TimeAt(Place(drop)) = TimeAt(Place(0)) + drop \/ \E k \in 1 .. drop : AtResync(k)
      BY <1>6, <3>1 DEF InLine
    <3>4. Place(0)' = Place(drop) /\ TimeAt(Place(0))' = TimeAt(Place(drop))
      BY <1>4, <3>1
    <3>5. ASSUME NEW k \in 1 .. drop, AtResync(k) PROVE AtResync(0)'
      <4>1. k \in 0 .. drop - 1 \/ k = drop
        BY <2>4
      <4>2. k = drop
        BY <1>5, <3>5, <4>1
      <4> QED BY <1>2, <3>4, <3>5, <4>2 DEF AtResync
    <3> QED BY <2>1, <3>1, <3>2, <3>3, <3>4, <3>5 DEF Continues
  <2>5. CASE drop = buf.filled
    <3>0. PICK last \in Int : last = buf.filled - 1
      BY <1>3
    <3>1. 0 \in 0 .. drop - 1 /\ last \in 0 .. buf.filled - 1 /\ 0 \in 0 .. last
          /\ last - 0 = last /\ 0 + 1 = 1 /\ buf'.filled = 0
      BY <1>2, <1>3, <2>5, <3>0
    <3>2. TimeAt(Place(0)) = ghost.due
      BY <1>5, <2>2, <3>1
    <3>3. TimeAt(Place(last)) = TimeAt(Place(0)) + last \/ \E k \in 1 .. last : AtResync(k)
      BY <1>6, <3>1 DEF InLine
    <3>4. \A k \in 1 .. last : k \in 0 .. drop - 1
      BY <1>3, <2>5, <3>0
    <3>5. LastTime = ghost.due + last
      BY <1>5, <3>0, <3>2, <3>3, <3>4 DEF LastTime
    <3>6. LastTime + 1 = ghost'.due
      BY <1>3, <2>1, <2>5, <3>0, <3>5
    <3> QED BY <1>1, <1>2, <3>1, <3>6 DEF NextFollows, Continues
  <2> QED BY <1>3, <2>3, <2>4, <2>5
<1>10. ClockSet'
  <2> SUFFICES ASSUME Sure' PROVE ClockSet'
    BY DEF ClockSet
  <2>1. Sure /\ flag.running
    BY <1>2 DEF Sure
  <2>2. ~flag.paused
    BY <1>1, <2>1, RunningNotPaused
  <2>3. ~(flag.firstCall /\ ghost.start # None)
    BY <1>2, <2>1 DEF Live, ClockSet, InCallback
  <2>4. flag.firstCall => ~buf.resync
    BY <2>1 DEF Live, ClockSet
  <2>5. ASSUME Unheard
        PROVE  FirstIsNext' /\ buf'.filled > 0 /\ cb'.len > 0
    <3>1. drop = 0 /\ cb'.len = OutSize /\ ~buf.resync
      BY <1>2, <2>4, <2>5 DEF Unheard
    <3>2. 0 \in 0 .. buf.filled - drop - 1 /\ 0 + drop = 0 /\ buf'.filled = buf.filled
      BY <1>2, <1>3, <3>1
    <3>3. TimeAt(Place(0))' = TimeAt(Place(0))
      BY <1>4, <3>2
    <3>4. buf.firstTs = TimeAt(Place(0))
      BY <1>2, <2>1, <2>5, <3>1 DEF Live, ClockSet, FirstIsNext
    <3> QED BY <1>2, <1>3, <3>1, <3>2, <3>3, <3>4 DEF FirstIsNext
  <2>6. Unheard' <=> Unheard
    BY <1>2 DEF Unheard
  <2>7. buf.firstFilled /\ (ghost.clock # None => ghost.clock = ghost.start)
    BY <1>2, <2>1 DEF Live, ClockSet
  <2> QED BY <1>2, <2>2, <2>3, <2>4, <2>5, <2>6, <2>7 DEF ClockSet
<1> QED BY <1>2, <1>7, <1>8, <1>9, <1>10 DEF Live

(* A turn of the copy loop hears what comes next. *)
LEMMA CopyLive ==
  ASSUME RingInv, RingInv', TimeInv, Live, ~ghost'.lost, ~ghost.broken, CopyOut
  PROVE  Live' /\ ~ghost'.broken
<1>1. Types /\ OffsetsAgree /\ NextFollows
  BY DEF RingInv
<1>2. ~(Chunk > buf.filled)
  <2>1. ~crash'
    BY DEF RingInv
  <2> QED BY <2>1 DEF CopyOut
<1>3. PICK n : n = Chunk
  OBVIOUS
<1>4. /\ cb.pc = "copy" /\ UNCHANGED <<ring, flag, dec, sync, ctl, crash>>
      /\ n \in 0 .. buf.filled /\ n <= cb.len /\ n <= Decoded
      /\ cb'.len = cb.len - n /\ cb'.pc \in {"copy", "underrun"}
      /\ buf'.play \in 0 .. RingSize
      /\ buf'.play = buf.play + n \/ buf'.play = buf.play + n - RingSize
      /\ buf'.filled = buf.filled - n /\ buf'.fill = buf.fill
      /\ buf'.resync = buf.resync /\ buf'.resyncAt = buf.resyncAt
      /\ buf'.resyncTs = buf.resyncTs /\ buf'.firstTs = buf.firstTs
      /\ buf'.firstFilled = buf.firstFilled /\ buf'.next = buf.next
      /\ cb'.pc = "underrun" =>
           cb.len = n \/ buf.filled = n \/ (buf.resync /\ buf'.play = buf.resyncAt)
      /\ ghost'.lost = ghost.lost /\ ghost'.early = ghost.early
      /\ ghost'.stale = ghost.stale /\ ghost'.clock = ghost.clock
      /\ n = 0 => ghost' = ghost
      /\ n # 0 =>
           /\ ghost'.due = TimeAt(Place(n - 1)) + 1
           /\ ghost'.start = (IF ghost.start = None THEN TimeAt(Place(0)) ELSE ghost.start)
           /\ ghost'.broken =>
                \/ ghost.broken
                \/ \E i \in 1 .. n - 1 : TimeAt(Place(i)) # TimeAt(Place(0)) + i
                \/ ghost.due # None /\ TimeAt(Place(0)) # ghost.due
  BY <1>1, <1>2, <1>3, CopyDoes
<1>5. buf.filled \in Nat /\ RingSize \in Nat /\ buf.filled <= RingSize /\ OutSize \in Nat \ {0}
      /\ cb.len \in 0 .. OutSize /\ Decoded \in Nat
  BY <1>1, Members, Zeros, SizesAssumption, DecodedRange
<1>6. \A i \in 0 .. buf.filled - n - 1 :
        Place(i)' = Place(i + n) /\ TimeAt(Place(i))' = TimeAt(Place(i + n))
  <2>1. \A i \in 0 .. buf.filled - n - 1 : Place(i)' = Place(i + n)
    BY <1>1, <1>4, Taking
  <2> QED BY <1>4, <2>1 DEF TimeAt
<1>7. \A i \in 0 .. n - 1 : ~AtResync(i)
  <2> SUFFICES ASSUME NEW i \in 0 .. n - 1, AtResync(i) PROVE FALSE
    OBVIOUS
  <2>1. buf.resync /\ Place(i) = buf.resyncAt
    BY DEF AtResync
  <2>2. ResyncWaits
    BY <1>4 DEF RingInv
  <2>3. i \in 0 .. Decoded - 1
    BY <1>4, <1>5
  <2> QED BY <1>1, <2>1, <2>2, <2>3, ResyncAhead
<1>8. InLine
  BY <1>4 DEF TimeInv
<1>9. ghost.due = None \/ Continues
  BY <1>4 DEF Live, GoesOn, Halted
<1>10. ~ghost'.broken
  <2>1. CASE n = 0
    BY <1>4, <2>1
  <2>2. CASE n # 0
    <3>1. buf.filled > 0 /\ 0 \in 0 .. n - 1
      BY <1>4, <1>5, <2>2
    <3>2. ghost.due = None \/ TimeAt(Place(0)) = ghost.due
      BY <1>7, <1>9, <3>1 DEF Continues
    <3>3. ASSUME NEW i \in 1 .. n - 1 PROVE TimeAt(Place(i)) = TimeAt(Place(0)) + i
      <4>1. i \in 0 .. buf.filled - 1 /\ 0 \in 0 .. i /\ i - 0 = i /\ 0 + 1 = 1
            /\ \A k \in 1 .. i : k \in 0 .. n - 1
        BY <1>4, <1>5
      <4>2. TimeAt(Place(i)) = TimeAt(Place(0)) + i \/ \E k \in 1 .. i : AtResync(k)
        BY <1>8, <4>1 DEF InLine
      <4> QED BY <1>7, <4>1, <4>2
    <3> QED BY <1>4, <2>2, <3>2, <3>3
  <2> QED BY <2>1, <2>2
<1>11. SilentWhilePaused'
  BY <1>4 DEF Live, SilentWhilePaused
<1>12. Starting'
  <2> SUFFICES ASSUME sync.pc = "start" PROVE Starting'
    BY <1>4 DEF Starting
  <2>1. Margin = OutSize + cb.len /\ Margin' = (IF cb'.pc = "copy" THEN OutSize + cb'.len ELSE OutSize)
    BY <1>4 DEF Margin
  <2>2. Margin' \in Nat /\ Margin \in Nat /\ Margin' <= Margin - n
    BY <1>4, <1>5, <2>1
  <2>3. /\ ~flag.running /\ ~flag.paused /\ buf.filled >= Margin
    BY DEF Live, Starting
  <2>4. buf'.filled >= Margin'
    BY <1>4, <1>5, <2>2, <2>3
  <2>5. ASSUME buf.resync
        PROVE  \E d \in Margin' .. buf'.filled - 1 : Place(d)' = buf.resyncAt
    <3>1. PICK d \in Margin .. buf.filled - 1 : Place(d) = buf.resyncAt
      BY <1>4, <2>5 DEF Live, Starting
    <3>2. PICK e \in Int : e = d - n
      BY <1>4, <2>2
    <3>3. e \in 0 .. buf.filled - n - 1 /\ e \in Margin' .. buf'.filled - 1 /\ e + n = d
      BY <1>4, <1>5, <2>2, <3>2
    <3>4. Place(e)' = Place(d)
      BY <1>6, <3>3
    <3> QED BY <3>1, <3>3, <3>4
  <2> QED BY <1>4, <2>3, <2>4, <2>5 DEF Starting
<1>13. GoesOn'
  <2>1. CASE n = 0
    <3>1. ghost' = ghost /\ buf'.filled = buf.filled
      BY <1>4, <1>5, <2>1
    <3>2. CASE buf.filled > 0
      <4>1. 0 \in 0 .. buf.filled - n - 1 /\ 0 + n = 0
        BY <1>5, <2>1, <3>2
      <4>2. Place(0)' = Place(0) /\ TimeAt(Place(0))' = TimeAt(Place(0))
        BY <1>6, <4>1
      <4>3. Continues => Continues'
        BY <1>4, <3>1, <3>2, <4>2 DEF Continues, AtResync
      <4> QED BY <1>9, <3>1, <4>3 DEF GoesOn
    <3>3. CASE ~(buf.filled > 0)
      <4>1. Continues => Continues'
        BY <1>4, <3>1, <3>3 DEF Continues
      <4> QED BY <1>9, <3>1, <4>1 DEF GoesOn
    <3> QED BY <3>2, <3>3
  <2>2. CASE n # 0
    <3>0. PICK last \in Int : last = n - 1
      BY <1>4
    <3>1. ghost'.due = TimeAt(Place(last)) + 1
      BY <1>4, <2>2, <3>0
    <3>2. CASE n = buf.filled
      <4>1. buf'.filled = 0 /\ ghost'.due = LastTime + 1
        BY <1>4, <1>5, <3>0, <3>1, <3>2 DEF LastTime
      <4>2. buf.filled > 0
        BY <1>5, <2>2, <3>2
      <4> QED BY <1>1, <1>4, <4>1, <4>2 DEF NextFollows, GoesOn, Continues
    <3>3. CASE n # buf.filled
      <4>1. /\ n \in 0 .. buf.filled - 1 /\ last \in 0 .. n /\ n - last = 1 /\ last + 1 = n
            /\ 0 \in 0 .. buf.filled - n - 1 /\ 0 + n = n /\ buf'.filled > 0
        BY <1>4, <1>5, <2>2, <3>0, <3>3
      <4>2. TimeAt(Place(n)) = TimeAt(Place(last)) + 1 \/ \E k \in n .. n : AtResync(k)
        BY <1>8, <4>1 DEF InLine
      <4>3. Place(0)' = Place(n) /\ TimeAt(Place(0))' = TimeAt(Place(n))
        BY <1>6, <4>1
      <4>4. ASSUME NEW k \in n .. n, AtResync(k) PROVE AtResync(0)'
        <5>1. k = n
          BY <1>4
        <5> QED BY <1>4, <4>3, <4>4, <5>1 DEF AtResync
      <4> QED BY <3>1, <4>1, <4>2, <4>3, <4>4 DEF GoesOn, Continues
    <3> QED BY <3>2, <3>3
  <2> QED BY <2>1, <2>2
<1>14. ClockSet'
  <2> SUFFICES ASSUME Sure' PROVE ClockSet'
    BY DEF ClockSet
  <2>1. Sure
    BY <1>4 DEF Sure
  <2>2. /\ flag.firstCall => ~buf.resync
        /\ ~flag.paused
        /\ flag.firstCall /\ ghost.start # None => buf.firstTs = ghost.start
        /\ Unheard => FirstIsNext /\ buf.filled > 0 /\ cb.len > 0
        /\ ghost.clock # None => ghost.clock = ghost.start
        /\ buf.filled > 0 => buf.firstFilled
    BY <1>4, <2>1 DEF Live, ClockSet, InCallback
  <2>3. InCallback'
    BY <1>4 DEF InCallback
  <2>4. buf'.filled > 0 => buf.filled > 0
    BY <1>4, <1>5
  <2>5. CASE n = 0
    <3>1. ghost' = ghost /\ buf'.filled = buf.filled /\ cb'.len = cb.len
      BY <1>4, <1>5, <2>5
    <3>2. ASSUME Unheard PROVE FirstIsNext' /\ cb'.pc = "copy"
      <4>1. 0 \in 0 .. buf.filled - n - 1 /\ 0 + n = 0
        BY <1>5, <2>2, <2>5, <3>2
      <4>2. TimeAt(Place(0))' = TimeAt(Place(0))
        BY <1>6, <4>1
      <4>3. FirstIsNext'
        BY <1>4, <2>2, <3>1, <3>2, <4>2 DEF FirstIsNext
      <4>4. cb.len # n /\ buf.filled # n /\ ~buf.resync
        BY <1>5, <2>2, <2>5, <3>2 DEF Unheard
      <4>5. cb'.pc = "copy"
        BY <1>4, <4>4
      <4> QED BY <4>3, <4>5
    <3>3. Unheard' <=> Unheard
      BY <1>4, <3>1 DEF Unheard
    <3> QED BY <1>4, <2>2, <2>3, <2>4, <3>1, <3>2, <3>3 DEF ClockSet
  <2>6. CASE n # 0
    <3>1. buf.filled > 0 /\ 0 \in 0 .. RingSize - 1
      BY <1>4, <1>5, <2>6
    <3>2. TimeAt(Place(0)) # None
      <4>1. TimeAt(Place(0)) \in Nat
        BY <1>1, <3>1, TimesAreTimes
      <4> QED BY <4>1 DEF None
    <3>3. ghost'.start = (IF ghost.start = None THEN TimeAt(Place(0)) ELSE ghost.start)
      BY <1>4, <2>6
    <3>4. ghost'.start # None /\ (ghost.start # None => ghost'.start = ghost.start)
      BY <3>2, <3>3
    <3>5. flag.firstCall => buf.firstTs = ghost'.start
      <4>1. CASE ghost.start = None
        BY <2>2, <3>1, <3>3, <4>1 DEF Unheard, FirstIsNext
      <4>2. CASE ghost.start # None
        BY <2>2, <3>4, <4>2
      <4> QED BY <4>1, <4>2
    <3>6. ~Unheard'
      BY <3>4 DEF Unheard
    <3>7. ghost'.clock # None => ghost'.clock = ghost'.start
      BY <1>4, <2>2, <3>4
    <3> QED BY <1>4, <2>2, <2>3, <2>4, <3>4, <3>5, <3>6, <3>7 DEF ClockSet
  <2> QED BY <2>5, <2>6
<1> QED BY <1>10, <1>11, <1>12, <1>13, <1>14 DEF Live

(* The steps of the sync thread that do not start the sound. *)
LEMMA SyncStepsLive ==
  ASSUME Types, Protocol, TimeInv, Live, ~ghost.lost, SyncThread, ~WaitSync, ~ResyncNow
  PROVE  Live' /\ ghost'.broken = ghost.broken
<1>1. /\ UNCHANGED <<ring, dec, cb, ctl, crash>>
      /\ buf'.play = buf.play /\ buf'.filled = buf.filled /\ buf'.fill = buf.fill
      /\ buf'.resync = buf.resync /\ buf'.resyncAt = buf.resyncAt
      /\ buf'.resyncTs = buf.resyncTs /\ buf'.firstFilled = buf.firstFilled
      /\ buf'.next = buf.next
      /\ \/ buf'.firstTs = buf.firstTs
         \/ (ResyncLater \/ ResyncAnew) /\ buf.resync /\ buf'.firstTs = buf.resyncTs
      /\ ghost'.lost = ghost.lost /\ ghost'.early = ghost.early /\ ghost'.stale = ghost.stale
      /\ ghost'.broken = ghost.broken /\ ghost'.start = ghost.start
      /\ ghost'.due = ghost.due /\ ghost'.clock = ghost.clock
  BY SyncDoes
<1>2. buf'.firstTs = buf.firstTs
  <2>1. buf.resync => buf.firstTs = buf.resyncTs
    BY DEF TimeInv, ResyncTimed
  <2> QED BY <1>1, <2>1
<1>3. sync \in Sync /\ flag \in Flags
  BY DEF Types, TypeOK
<1>4. CASE UNCHANGED <<flag, sync>>
  <2>1. SilentWhilePaused'
    BY <1>1, <1>4 DEF Live, SilentWhilePaused
  <2>2. Starting'
    BY <1>1, <1>4, StartingStays DEF Live
  <2>3. GoesOn'
    <3>1. Halted => Halted'
      BY <1>1, <1>4 DEF Halted
    <3>2. Continues => Continues'
      BY <1>1, ContinuesStays
    <3> QED BY <1>1, <3>1, <3>2 DEF Live, GoesOn
  <2>4. ClockSet'
    BY <1>1, <1>2, <1>4, ClockSetStays DEF Live
  <2> QED BY <1>1, <2>1, <2>2, <2>3, <2>4 DEF Live
<1>5. ASSUME flag'.paused = flag.paused, flag'.firstCall = flag.firstCall,
             sync'.pc # "start", SilentWhilePaused',
             Halted => Halted'
      PROVE  Live'
  <2>1. Starting'
    BY <1>5 DEF Starting
  <2>2. Continues => Continues'
    BY <1>1, ContinuesStays
  <2>3. GoesOn'
    BY <1>1, <1>5, <2>2 DEF Live, GoesOn
  <2>4. ClockSet'
    BY <1>1, <1>2, <1>5, ClockSetStays DEF Live
  <2> QED BY <1>5, <2>1, <2>3, <2>4 DEF Live
<1>6. CASE ProcessMessages
  <2> DEFINE pc == IF flag.waiting THEN "post" ELSE "done"
             state == IF sync.queue[Len(sync.queue)] = "START" THEN "WAIT_SYNC" ELSE "PAUSED"
  <2>1. sync.pc = "top" /\ sync.queue # << >>
    BY <1>6 DEF ProcessMessages
  <2>2. state = "WAIT_SYNC" => ~flag.running
    BY <2>1 DEF Protocol, SyncPhases, StartSent, LastOf
  <2>3. state \in {"WAIT_SYNC", "PAUSED"} /\ pc \in {"post", "done"}
    OBVIOUS
  <2>4. \/ sync' = [sync EXCEPT !.state = state, !.queue = << >>] /\ flag' = flag
             /\ (state # "PAUSED" \/ sync.state = "PAUSED")
        \/ sync' = [sync EXCEPT !.state = state, !.queue = << >>, !.pc = pc]
             /\ flag' = [flag EXCEPT !.eof = FALSE, !.running = FALSE, !.dontFill = TRUE]
             /\ state = "PAUSED"
    BY <1>6 DEF ProcessMessages
  <2> HIDE DEF pc, state
  <2>5. \/ /\ sync'.pc = "top" /\ sync'.state = state /\ flag' = flag
           /\ state # "PAUSED" \/ sync.state = "PAUSED"
        \/ /\ sync'.pc = pc /\ sync'.state = "PAUSED" /\ ~flag'.running
           /\ flag'.paused = flag.paused /\ flag'.firstCall = flag.firstCall
    BY <1>3, <2>1, <2>4 DEF Sync, Flags
  <2>6. SilentWhilePaused'
    BY <1>1, <2>1, <2>2, <2>3, <2>5 DEF Live, SilentWhilePaused
  <2>7. sync'.pc # "start" /\ (Halted => Halted')
    BY <1>1, <2>3, <2>5 DEF Halted
  <2>8. flag'.paused = flag.paused /\ flag'.firstCall = flag.firstCall
    BY <2>5
  <2> QED BY <1>1, <1>5, <2>6, <2>7, <2>8
<1>7. CASE SyncPost \/ PauseDone
  <2>1. /\ sync.pc \in {"post", "done"} /\ sync.state = "PAUSED"
    BY <1>7 DEF SyncPost, PauseDone, Protocol, SyncPhases, Closing
  <2>2. ~flag.running
    BY <2>1 DEF Protocol, SyncPhases
  <2>3. /\ sync'.pc \in {"done", "top"} /\ sync'.state = "PAUSED"
        /\ flag'.running = flag.running /\ flag'.paused = flag.paused
        /\ flag'.firstCall = flag.firstCall
    BY <1>3, <1>7, <2>1 DEF SyncPost, PauseDone, Sync, Flags
  <2>4. SilentWhilePaused'
    BY <2>2, <2>3 DEF SilentWhilePaused
  <2>5. Halted => Halted'
    BY <1>1, <2>3 DEF Halted
  <2> QED BY <1>1, <1>5, <2>3, <2>4, <2>5
<1>8. CASE StartHardware
  <2>1. /\ sync.pc = "start" /\ sync'.pc = "top" /\ sync'.state = sync.state
        /\ flag'.paused = flag.paused /\ flag'.firstCall = flag.firstCall
    BY <1>3, <1>8 DEF StartHardware, Sync, Flags
  <2>2. ~flag.paused /\ sync.state \in {"WAIT_AUDIO", "PLAYING"}
    BY <2>1 DEF Live, Starting, Protocol, SyncPhases
  <2>3. SilentWhilePaused' /\ sync'.pc # "start"
    BY <2>1, <2>2 DEF SilentWhilePaused
  <2>4. ~Halted
    BY <2>1 DEF Halted
  <2> QED BY <1>1, <1>5, <2>1, <2>3, <2>4
<1>9. CASE WaitAudio \/ AudioEnds \/ ResyncAnew \/ RestartFromStopped
  <2>1. /\ sync.pc = "top" /\ sync.state \in {"WAIT_AUDIO", "PLAYING"} /\ flag' = flag
        /\ \/ sync' = [sync EXCEPT !.state = "PLAYING"]
           \/ sync' = [sync EXCEPT !.state = "DONE"]
           \/ sync' = [sync EXCEPT !.state = "WAIT_SYNC"] /\ flag.paused
    BY <1>9 DEF WaitAudio, AudioEnds, ResyncAnew, RestartFromStopped, ResyncDue, AtTop, SyncTo
  <2>2. /\ sync'.pc = "top" /\ sync'.state \in {"PLAYING", "DONE", "WAIT_SYNC"}
        /\ sync'.state = "WAIT_SYNC" => flag.paused
    BY <1>3, <2>1 DEF Sync
  <2>3. SilentWhilePaused' /\ sync'.pc # "start"
    BY <1>1, <2>1, <2>2 DEF Live, SilentWhilePaused
  <2>4. Halted => Halted'
    BY <1>1, <2>1, <2>2 DEF Halted
  <2> QED BY <1>1, <1>5, <2>1, <2>3, <2>4
<1>10. CASE ResyncLater
  <2>1. UNCHANGED <<flag, sync>>
    BY <1>10 DEF ResyncLater
  <2> QED BY <1>4, <2>1
<1> QED BY <1>6, <1>7, <1>8, <1>9, <1>10 DEF SyncThread

(* The sync thread starts the sound. *)
LEMMA StartLive ==
  ASSUME RingInv, Protocol, TimeInv, Live, ~ghost'.lost, WaitSync \/ ResyncNow
  PROVE  Live' /\ ~ghost'.broken
<1>1. Types
  BY DEF RingInv
<1>2. PICK ts : PlayAudio(ts) /\ ts = (IF WaitSync THEN buf.firstTs ELSE buf.resyncTs)
  BY DEF WaitSync, ResyncNow
<1>3. /\ buf'.play = buf.play /\ buf'.filled = buf.filled
      /\ buf'.resync = FALSE /\ buf'.firstTs = ts
      /\ buf'.firstFilled = buf.firstFilled
      /\ ghost'.lost = (ghost.lost \/ (buf.resync /\ buf.resyncAt # Place(0)))
      /\ ghost'.stale = (ghost.stale \/ cb.pc # "idle") /\ ghost'.early = ghost.early
      /\ ghost'.broken = FALSE /\ ghost'.start = None
      /\ ghost'.due = None /\ ghost'.clock = None
  BY <1>1, <1>2, PlayAudioDoes
<1>4. /\ UNCHANGED <<ring, cb>> /\ sync.pc = "top"
      /\ sync'.pc = "start" /\ sync'.state \in {"WAIT_AUDIO", "PLAYING"}
      /\ ~flag'.paused /\ flag'.firstCall /\ flag'.running = flag.running
  <2>1. sync \in Sync /\ flag \in Flags
    BY <1>1 DEF Types, TypeOK
  <2> QED BY <2>1 DEF WaitSync, ResyncNow, ResyncDue, AtTop, Sync, Flags
<1>5. buf.filled \in Nat /\ OutSize \in Nat \ {0} /\ cb.len \in 0 .. OutSize /\ RingSize \in Nat
  BY <1>1, Members, Zeros, SizesAssumption
<1>6. CASE WaitSync
  <2>1. /\ flag.paused /\ ~flag.running /\ buf.filled >= 2 * OutSize
        /\ sync.state = "WAIT_SYNC"
    BY <1>4, <1>6 DEF WaitSync, AtTop, Protocol, FlushedOrTold, Live, SilentWhilePaused
  <2>2. buf.filled >= Margin /\ buf.filled > 0
    BY <1>5, <2>1 DEF Margin
  <2> QED
    <3>1. Sure' => buf.firstTs = TimeAt(Place(0)) /\ buf.firstFilled
      <4> SUFFICES ASSUME Sure' PROVE buf.firstTs = TimeAt(Place(0)) /\ buf.firstFilled
        OBVIOUS
      <4>1. Sure
        BY <1>3 DEF Sure
      <4>2. (buf.resync \/ buf.firstTs = TimeAt(Place(0))) /\ buf.firstFilled
        BY <2>1, <2>2, <4>1 DEF Live, ClockSet, FirstIsNext
      <4>3. buf.resync => buf.firstTs = TimeAt(Place(0))
        BY <1>3 DEF TimeInv, ResyncTimed
      <4> QED BY <4>2, <4>3
    <3>2. SilentWhilePaused'
      BY <1>4 DEF SilentWhilePaused
    <3>3. Starting'
      <4>1. Margin' = Margin
        BY <1>4 DEF Margin
      <4> QED BY <1>3, <1>4, <2>1, <2>2, <4>1 DEF Starting
    <3>4. GoesOn'
      BY <1>3 DEF GoesOn
    <3>5. TimeAt(Place(0))' = TimeAt(Place(0))
      BY <1>3, <1>4 DEF TimeAt, Place, Wrap
    <3>6. ASSUME Sure' PROVE ClockSet'
      <4>1. cb.pc = "idle"
        BY <1>3, <3>6 DEF Sure
      <4>2. ts = TimeAt(Place(0)) /\ buf.firstFilled
        BY <1>2, <1>6, <3>1, <3>6
      <4>3. FirstIsNext'
        BY <1>3, <2>2, <3>5, <4>2 DEF FirstIsNext
      <4> QED BY <1>3, <1>4, <4>1, <4>2, <4>3 DEF ClockSet, InCallback
    <3>7. ClockSet'
      BY <3>6 DEF ClockSet
    <3> QED BY <1>3, <3>2, <3>3, <3>4, <3>7 DEF Live
<1>7. CASE ResyncNow /\ ~WaitSync
  <2>1. flag.paused /\ buf.resync /\ sync.state = "PLAYING"
    BY <1>7 DEF ResyncNow, ResyncDue, AtTop
  <2>2. ~flag.running /\ cb.pc \notin {"called", "copy", "underrun"}
    BY <1>4, <2>1 DEF Live, SilentWhilePaused
  <2>3. buf.resyncTs = TimeAt(Place(0)) /\ buf.firstFilled
    BY <1>3, <2>1 DEF TimeInv, ResyncTimed
  <2>4. SilentWhilePaused'
    BY <1>4 DEF SilentWhilePaused
  <2>5. Starting'
    <3>1. Margin' = 0
      BY <1>4, <2>2 DEF Margin
    <3> QED BY <1>3, <1>4, <1>5, <2>2, <3>1 DEF Starting
  <2>6. GoesOn'
    BY <1>3 DEF GoesOn
  <2>7. TimeAt(Place(0))' = TimeAt(Place(0))
    BY <1>3, <1>4 DEF TimeAt, Place, Wrap
  <2>8. buf.filled > 0
    <3>1. PICK d \in 0 .. buf.filled - 1 : Place(d) = buf.resyncAt
      BY <1>3, <2>1 DEF RingInv, ResyncWaits
    <3> QED BY <1>5, <3>1
  <2>9. ASSUME Sure' PROVE ClockSet'
    <3>1. cb.pc = "idle"
      BY <1>3, <2>9 DEF Sure
    <3>2. FirstIsNext'
      BY <1>2, <1>3, <1>7, <2>3, <2>7, <2>8 DEF FirstIsNext
    <3> QED BY <1>3, <1>4, <2>3, <3>1, <3>2 DEF ClockSet, InCallback
  <2>10. ClockSet'
    BY <2>9 DEF ClockSet
  <2> QED BY <1>3, <2>4, <2>5, <2>6, <2>10 DEF Live
<1> QED BY <1>6, <1>7

LEMMA InitClock == Init => ClockInv
<1> SUFFICES ASSUME Init PROVE ClockInv
  OBVIOUS
<1>1. /\ ~ghost.broken /\ ghost.due = None /\ ghost.start = None /\ ghost.clock = None
      /\ sync.pc = "top" /\ sync.state = "WAIT_SYNC" /\ ~flag.running /\ cb.pc = "idle"
      /\ buf.filled = 0 /\ ~buf.resync /\ ~buf.firstFilled
  BY DEF Init
<1>2. SilentWhilePaused /\ Starting /\ GoesOn
  BY <1>1 DEF SilentWhilePaused, Starting, GoesOn
<1>3. ClockSet
  BY <1>1 DEF ClockSet, FirstIsNext, InCallback
<1> QED BY <1>1, <1>2, <1>3 DEF ClockInv, Live

(* Only a flush forgets that a resync has been lost. *)
LEMMA LostStays ==
  ASSUME Types, [Next]_vars, ~ParseMessage, ghost.lost
  PROVE  ghost'.lost
<1>1. CASE NextFrame \/ LoadFrame \/ AwaitResync \/ CheckForBytes \/ GiveUp \/ Announce \/ Awake
  BY <1>1, MovingOnDoes
<1>2. CASE FillSilence
  <2>1. ghost' = [ghost EXCEPT !.early = ghost.early \/ (dec.silence > 0 /\ ~buf.firstFilled)]
    BY <1>2 DEF FillSilence
  <2> QED BY <2>1 DEF Types, GhostTypes
<1>3. CASE FillFrame
  <2>1. ghost' = [ghost EXCEPT !.lost = ghost.lost \/ (dec.need /\ buf.resync),
                               !.early = ghost.early \/ (dec.need /\ flag.firstCall)]
    BY <1>3 DEF FillFrame
  <2> QED BY <2>1 DEF Types, GhostTypes
<1>4. CASE CallBack \/ CallEmpty \/ Underrun \/ StopForResync \/ ReportReady \/ CallbackDone
             \/ CallbackPost
  BY <1>4, QuietDoes
<1>5. CASE EnterCallback
  BY <1>5, EnterDoes
<1>6. CASE CopyOut
  <2>1. CASE Chunk > buf.filled
    BY <1>6, <2>1 DEF CopyOut
  <2>2. CASE ~(Chunk > buf.filled)
    <3>1. PICK n : n = Chunk
      OBVIOUS
    <3> QED BY <1>6, <2>2, <3>1, CopyDoes
  <2> QED BY <2>1, <2>2
<1>7. CASE SyncThread /\ ~WaitSync /\ ~ResyncNow
  BY <1>7, SyncDoes
<1>8. CASE WaitSync \/ ResyncNow
  <2>1. PICK ts : PlayAudio(ts)
    BY <1>8 DEF WaitSync, ResyncNow
  <2> QED BY <2>1, PlayAudioDoes
<1>9. CASE Controller \/ UNCHANGED vars
  BY <1>9 DEF Controller, vars
<1> QED BY <1>1, <1>2, <1>3, <1>4, <1>5, <1>6, <1>7, <1>8, <1>9
        DEF Next, DecodeThread, AudioCallback

LEMMA NextClock ==
  RingInv /\ RingInv' /\ Protocol /\ TimeInv /\ ClockInv /\ [Next]_vars => ClockInv'
<1> SUFFICES ASSUME RingInv, RingInv', Protocol, TimeInv, ClockInv, [Next]_vars PROVE ClockInv'
  OBVIOUS
<1>1. Types
  BY DEF RingInv
<1>2. CASE ParseMessage
  BY <1>1, <1>2, ParseClock
<1>3. CASE ghost'.lost
  BY <1>3 DEF ClockInv
<1>4. CASE ~ParseMessage /\ ~ghost'.lost
  <2>1. ~ghost.lost
    BY <1>1, <1>4, LostStays
  <2>2. ~ghost.broken /\ (Drained \/ Live)
    BY <2>1 DEF ClockInv
  <2>3. CASE Drained
    <3>1. CASE Next
      <4>1. Drained' /\ ghost'.broken = ghost.broken
        BY <1>1, <1>4, <2>3, <3>1, DrainedStays
      <4> QED BY <2>2, <4>1 DEF ClockInv
    <3>2. CASE UNCHANGED vars
      <4>1. UNCHANGED <<buf, dec, cb, ctl, ghost>>
        BY <3>2 DEF vars
      <4>2. Drained'
        BY <2>3, <4>1 DEF Drained, NobodyFills
      <4> QED BY <2>2, <4>1, <4>2 DEF ClockInv
    <3> QED BY <3>1, <3>2
  <2>4. CASE Live
    <3>1. SUFFICES Live' /\ ~ghost'.broken
      BY DEF ClockInv
    <3>2. CASE NextFrame \/ LoadFrame \/ AwaitResync \/ CheckForBytes \/ GiveUp \/ Announce
                 \/ Awake \/ Controller \/ UNCHANGED vars
      BY <1>1, <2>2, <2>4, <3>2, MovingOnLive
    <3>3. CASE FillSilence
      BY <2>1, <2>2, <2>4, <3>3, FillSilenceLive
    <3>4. CASE FillFrame
      BY <1>4, <2>2, <2>4, <3>4, FillFrameLive
    <3>5. CASE CallBack
      BY <1>1, <2>2, <2>4, <3>5, CallBackLive
    <3>6. CASE CallEmpty
      BY <1>1, <2>2, <2>4, <3>6, CallEmptyLive
    <3>7. CASE EnterCallback
      BY <1>4, <2>2, <2>4, <3>7, EnterLive
    <3>8. CASE CopyOut
      BY <1>4, <2>2, <2>4, <3>8, CopyLive
    <3>9. CASE Underrun
      BY <1>1, <2>2, <2>4, <3>9, UnderrunLive
    <3>10. CASE StopForResync
      BY <2>1, <2>2, <2>4, <3>10, StopForResyncLive
    <3>11. CASE ReportReady
      BY <1>1, <2>2, <2>4, <3>11, ReportReadyLive
    <3>12. CASE CallbackDone \/ CallbackPost
      BY <1>1, <2>2, <2>4, <3>12, CallbackEndsLive
    <3>13. CASE SyncThread /\ ~WaitSync /\ ~ResyncNow
      BY <1>1, <2>1, <2>2, <2>4, <3>13, SyncStepsLive
    <3>14. CASE WaitSync \/ ResyncNow
      BY <1>4, <2>4, <3>14, StartLive
    <3> QED BY <1>4, <3>2, <3>3, <3>4, <3>5, <3>6, <3>7, <3>8, <3>9, <3>10, <3>11, <3>12, <3>13,
               <3>14
            DEF Next, DecodeThread, AudioCallback
  <2> QED BY <2>2, <2>3, <2>4
<1> QED BY <1>2, <1>3, <1>4

LEMMA ClockSoundly == Types /\ ClockInv => SoundMatchesClock
<1> SUFFICES ASSUME Types, ClockInv, ~ghost.lost,
                    ~ghost.early, ~ghost.stale, ghost.clock # None
             PROVE  ~ghost.broken /\ ghost.clock = ghost.start
  BY DEF SoundMatchesClock, ClockInv
<1>1. ~ghost.broken /\ (Drained \/ Live)
  BY DEF ClockInv
<1>2. Live
  BY <1>1 DEF Drained
<1> QED BY <1>1, <1>2 DEF Live, ClockSet, Sure

LEMMA ClockAlways == Spec => [](RingInv /\ Protocol /\ TimeInv /\ ClockInv)
<1>1. Init => RingInv /\ Protocol /\ TimeInv /\ ClockInv
  BY InitRing, InitProtocol, InitTime, InitClock
<1>2. RingInv /\ Protocol /\ TimeInv /\ ClockInv /\ [Next]_vars
        => (RingInv /\ Protocol /\ TimeInv /\ ClockInv)'
  BY NextRing, NextProtocol, NextTime, NextClock DEF RingInv
<1> QED BY <1>1, <1>2, PTL DEF Spec

(* Unless a resync was lost, the sound that is heard goes on without a jump, *)
(* and the time that audio_is_ready is told is that of the first sound, the  *)
(* cases that SoundMatchesClock names excepted.                              *)
THEOREM ClockMatchesSound == Spec => []SoundMatchesClock
<1>1. RingInv /\ ClockInv => SoundMatchesClock
  BY ClockSoundly DEF RingInv
<1> QED BY <1>1, ClockAlways, PTL

-----------------------------------------------------------------------------
(* Who wakes the decode thread, and when the session ends.                   *)

(* The thread that sleeps has said so, or has been woken already. *)
SleeperKnown ==
  IF dec.pc = "asleep" THEN flag.waiting \/ sem > 0 ELSE ~flag.waiting

(* Someone is on the way to waking it. *)
Waking ==
  cb.pc \in {"copy", "underrun", "resync", "report", "done", "post"} \/ sync.pc = "post"

(* If it waits for room there is enough sound to start with; if for a resync,*)
(* that one is still pending or the sound goes on past it.                   *)
WorthWaiting ==
  IF dec.tries > 0 THEN buf.filled >= 2 * OutSize
  ELSE (buf.resync \/ flag.running \/ sync.pc = "start") /\ buf.filled > 0
WillWake ==
  dec.pc \in {"announce", "asleep"} /\ ~ghost.missed /\ sem = 0 /\ ~ghost.lost =>
    /\ Waking \/ WorthWaiting
    /\ flag.dontFill => sync.pc = "post" \/ (dec.tries = 0 /\ buf.resync)

(* The callback that tells the session that the audio is ready will come. *)
ReadyComes ==
  sync.state = "WAIT_AUDIO" /\ flag.awaited /\ ctl.pc = "playing" =>
    /\ flag.firstCall
    /\ \/ InCallback
       \/ buf.filled > 0 /\ (sync.pc = "start" \/ flag.running \/ cb.pc = "called")

(* What a state of the sync thread tells of the others. *)
StatesTell ==
  /\ sync.state \in {"WAIT_AUDIO", "PLAYING"} /\ sync.pc = "top" /\ ~flag.paused => flag.running
  /\ flag.dontFill => sync.state \in {"PAUSED", "WAIT_SYNC"}
  /\ sync.state = "PAUSED" /\ sync.queue = << >> => ctl.pc \in {"waitDone", "paused"}

SleepInv == SleeperKnown /\ WillWake /\ ReadyComes /\ StatesTell

(* m_eof tells that the decode thread is at the end of the stream, and is    *)
(* cleared before it can be told to go on.                                   *)
EofTells ==
  /\ flag.eof /\ ~ghost.lateEof =>
       dec.pc = "wait" /\ dec.pos > Len(stream) /\ ~RestartPending
  /\ sync.state = "DONE" => flag.eof

(* The output buffer is small enough for two of them to be in the ring when  *)
(* there is no room for a frame: it is at most a quarter of the ring, a frame*)
(* with its silence at most five frames of the 32 of the ring.               *)
RoomToStart == FrameSize + SilenceLimit + 2 * OutSize <= RingSize + 1

-----------------------------------------------------------------------------
(* What the threads leave alone. *)

LEMMA DecodeKeeps ==
  ASSUME Types, DecodeThread, ~ParseMessage
  PROVE  /\ UNCHANGED <<stream, cb, sync, ctl>>
         /\ flag'.dontFill = flag.dontFill /\ flag'.running = flag.running
         /\ flag'.paused = flag.paused /\ flag'.firstCall = flag.firstCall
         /\ flag'.awaited = flag.awaited
         /\ buf'.filled >= buf.filled
<1>1. UNCHANGED <<stream, cb, sync, ctl>>
  BY DEF DecodeThread, NextFrame, LoadFrame, AwaitResync, CheckForBytes, GiveUp, Announce,
     Awake, FillSilence, FillFrame
<1>2. flag' = flag \/ flag' = [flag EXCEPT !.eof = TRUE] \/ flag' = [flag EXCEPT !.waiting = TRUE]
        \/ flag' = [flag EXCEPT !.waiting = FALSE]
  BY DEF DecodeThread, NextFrame, LoadFrame, AwaitResync, CheckForBytes, GiveUp, Announce,
     Awake, FillSilence, FillFrame
<1>3. /\ flag'.dontFill = flag.dontFill /\ flag'.running = flag.running
      /\ flag'.paused = flag.paused /\ flag'.firstCall = flag.firstCall
      /\ flag'.awaited = flag.awaited
  BY <1>2 DEF Types, TypeOK, Flags
<1>4. buf'.filled >= buf.filled
  <2>1. buf.filled \in Nat /\ dec.silence \in Nat /\ FrameSize \in Nat
    BY Members, Zeros
  <2>2. CASE FillSilence
    <3>1. buf' = [buf EXCEPT !.fill = Wrap(buf.fill + dec.silence), !.filled = buf.filled + dec.silence]
      BY <2>2 DEF FillSilence, Filled
    <3>2. buf'.filled = buf.filled + dec.silence
      BY <3>1 DEF Types, TypeOK, Buffer
    <3> QED BY <2>1, <3>2
  <2>3. CASE FillFrame
    <3>1. buf'.filled = Filled(FrameSize).filled
      BY <2>3 DEF FillFrame, Filled, Types, TypeOK, Buffer
    <3>2. Filled(FrameSize).filled = buf.filled + FrameSize
      BY DEF Filled, Types, TypeOK, Buffer
    <3> QED BY <2>1, <3>1, <3>2
  <2>4. CASE ~(FillSilence \/ FillFrame)
    <3>1. buf' = buf
      BY <2>4 DEF DecodeThread, NextFrame, LoadFrame, AwaitResync, CheckForBytes, GiveUp, Announce,
         Awake
    <3> QED BY <2>1, <3>1
  <2> QED BY <2>2, <2>3, <2>4
<1> QED BY <1>1, <1>3, <1>4

LEMMA CallbackKeeps ==
  ASSUME Types, AudioCallback
  PROVE  /\ UNCHANGED <<stream, dec, sync, ctl>>
         /\ flag'.dontFill = flag.dontFill /\ flag'.eof = flag.eof
         /\ buf'.resync = buf.resync
         /\ sem' = sem \/ sem' = sem + 1
         /\ ghost.lost => ghost'.lost
         /\ ghost.missed => ghost'.missed
         /\ ghost'.lateEof = ghost.lateEof
<1>1. UNCHANGED <<stream, dec, sync, ctl>>
  BY CallbackSteps
<1>2. flag'.dontFill = flag.dontFill /\ flag'.eof = flag.eof
  BY CallbackSteps DEF Stopped, Types, TypeOK, Flags
<1>3. sem' = sem \/ sem' = sem + 1
  BY DEF AudioCallback, CallBack, CallEmpty, EnterCallback, CopyOut, Underrun, StopForResync,
     ReportReady, CallbackDone, CallbackPost
<1>4. CASE EnterCallback
  <2>1. buf' = [buf EXCEPT !.filled = buf'.filled, !.play = buf'.play]
    BY <1>4 DEF EnterCallback, Adjust, Types, TypeOK, Buffer
  <2>2. buf'.resync = buf.resync
    BY <2>1 DEF Types, TypeOK, Buffer
  <2>3. PICK drop, add \in Int : Adjust(drop, add)
    BY <1>4, Members DEF EnterCallback
  <2>4. (ghost.lost => ghost'.lost) /\ ghost'.missed = ghost.missed /\ ghost'.lateEof = ghost.lateEof
    BY <2>3 DEF Adjust, Types, GhostTypes
  <2> QED BY <1>1, <1>2, <1>3, <2>2, <2>4
<1>5. CASE CopyOut
  <2>1. CASE Chunk > buf.filled
    BY <1>1, <1>2, <1>3, <1>5, <2>1 DEF CopyOut
  <2>2. CASE ~(Chunk > buf.filled)
    <3>1. buf'.resync = buf.resync /\ ghost'.lost = ghost.lost
      BY <1>5, <2>2, CopyDoes
    <3>2. ghost'.missed = ghost.missed /\ ghost'.lateEof = ghost.lateEof
      BY <1>5, <2>2 DEF CopyOut, Types, GhostTypes
    <3> QED BY <1>1, <1>2, <1>3, <3>1, <3>2
  <2> QED BY <2>1, <2>2
<1>6. CASE ~(EnterCallback \/ CopyOut)
  <2>1. buf'.resync = buf.resync /\ ghost'.lost = ghost.lost
    BY <1>6, QuietDoes DEF AudioCallback
  <2>2. \/ ghost' = ghost
        \/ ghost' = [ghost EXCEPT !.missed = ghost.missed \/ NotYetWaiting]
        \/ ghost' = [ghost EXCEPT !.clock = buf.firstTs]
    BY <1>6 DEF AudioCallback, CallBack, CallEmpty, Underrun, StopForResync, ReportReady,
       CallbackDone, CallbackPost
  <2>3. (ghost.missed => ghost'.missed) /\ ghost'.lateEof = ghost.lateEof
    BY <2>2 DEF Types, GhostTypes
  <2> QED BY <1>1, <1>2, <1>3, <2>1, <2>3
<1> QED BY <1>4, <1>5, <1>6

LEMMA SyncKeeps ==
  ASSUME Types, SyncThread
  PROVE  /\ UNCHANGED <<stream, dec, cb, ctl>>
         /\ buf'.filled = buf.filled
         /\ sem' = sem \/ sem' = sem + 1
         /\ ghost.lost => ghost'.lost
         /\ ghost.missed => ghost'.missed
         /\ ghost'.lateEof = ghost.lateEof
<1>1. UNCHANGED <<stream, dec, cb, ctl>> /\ (sem' = sem \/ sem' = sem + 1)
  BY DEF SyncThread, ProcessMessages, SyncPost, PauseDone, WaitSync, StartHardware, WaitAudio,
     AudioEnds, ResyncLater, ResyncNow, ResyncAnew, RestartFromStopped
<1>2. CASE WaitSync \/ ResyncNow
  <2>1. PICK ts : PlayAudio(ts)
    BY <1>2 DEF WaitSync, ResyncNow
  <2>2. buf'.filled = buf.filled /\ (ghost.lost => ghost'.lost)
    BY <2>1, PlayAudioDoes
  <2>3. Silent.missed = ghost.missed /\ Silent.lateEof = ghost.lateEof
          /\ DOMAIN Silent = DOMAIN ghost /\ Silent = [x \in DOMAIN Silent |-> Silent[x]]
          /\ "missed" \in DOMAIN ghost /\ "lateEof" \in DOMAIN ghost
    BY DEF Silent, Types, GhostTypes
  <2> HIDE DEF Silent
  <2>4. ghost'.missed = ghost.missed /\ ghost'.lateEof = ghost.lateEof
    BY <2>1, <2>3 DEF PlayAudio
  <2> QED BY <1>1, <2>2, <2>4
<1>3. CASE ~(WaitSync \/ ResyncNow)
  <2>1. buf'.filled = buf.filled /\ ghost'.lost = ghost.lost
    BY <1>3, SyncDoes
  <2>2. ghost' = ghost \/ ghost' = [ghost EXCEPT !.missed = ghost.missed \/ NotYetWaiting]
    BY <1>3 DEF SyncThread, ProcessMessages, SyncPost, PauseDone, StartHardware, WaitAudio,
       AudioEnds, ResyncLater, ResyncAnew, RestartFromStopped
  <2>3. (ghost.missed => ghost'.missed) /\ ghost'.lateEof = ghost.lateEof
    BY <2>2 DEF Types, GhostTypes
  <2> QED BY <1>1, <2>1, <2>3
<1> QED BY <1>2, <1>3

LEMMA ControllerKeeps ==
  ASSUME Types, Controller
  PROVE  /\ UNCHANGED <<stream, buf, flag, sem, cb, ghost>>
         /\ dec'.pc = dec.pc /\ dec'.tries = dec.tries
         /\ sync'.pc = sync.pc /\ sync'.state = sync.state
<1>1. dec \in Decoder /\ sync \in Sync
  BY DEF Types, TypeOK
<1>2. dec' = dec \/ \E pos \in 1 .. Len(stream) : dec' = [dec EXCEPT !.pos = pos]
  BY DEF Controller, Pause, PauseSync, WaitDone, PlaySync, Move, StartDecoding
<1>3. dec'.pc = dec.pc /\ dec'.tries = dec.tries
  BY <1>1, <1>2 DEF Decoder
<1>4. \/ sync' = sync
      \/ sync' = [sync EXCEPT !.queue = Append(sync.queue, "PAUSE"), !.done = FALSE]
      \/ sync' = [sync EXCEPT !.queue = Append(sync.queue, "START")]
  BY DEF Controller, Pause, PauseSync, WaitDone, PlaySync, Move, StartDecoding
<1>5. sync'.pc = sync.pc /\ sync'.state = sync.state
  BY <1>1, <1>4 DEF Sync
<1> QED BY <1>3, <1>5 DEF Controller

(* Where the decode thread may come to wait for a callback. *)
LEMMA WaitingStarts ==
  ASSUME Types, DecodeThread, dec'.pc \in {"announce", "asleep"}
  PROVE  \/ AwaitResync /\ dec.pc = "pending" /\ buf.resync /\ dec'.tries = dec.tries
         \/ CheckForBytes /\ ~flag.dontFill /\ dec'.tries = dec.tries + 1
              /\ RingSize - buf.filled < ToInsert
         \/ Announce /\ dec.pc = "announce" /\ dec'.tries = dec.tries
<1>1. dec \in Decoder
  BY DEF Types, TypeOK
<1>2. CASE ParseMessage
  BY <1>2, ParseDoes
<1>3. CASE NextFrame
  BY <1>1, <1>3 DEF NextFrame, DStep, Decoder
<1>4. CASE LoadFrame
  <2> DEFINE need == buf.firstFilled /\ Gap \notin 0 .. SilenceLimit
             pc == IF need THEN "pending" ELSE "room"
             silence == IF buf.firstFilled /\ ~need THEN Gap ELSE 0
  <2>1. \/ dec' = FrameDone
        \/ dec' = [dec EXCEPT !.pc = pc, !.need = need, !.silence = silence]
    BY <1>4 DEF LoadFrame
  <2>2. pc \in {"pending", "room"}
    OBVIOUS
  <2> HIDE DEF need, pc, silence
  <2> QED BY <1>1, <2>1, <2>2 DEF FrameDone, Decoder
<1>5. CASE AwaitResync
  BY <1>1, <1>5 DEF AwaitResync, DStep, Decoder
<1>6. CASE CheckForBytes
  <2>1. RingSize - buf.filled \in Int /\ ToInsert \in Int /\ dec.tries \in Int
    BY Members, Zeros DEF ToInsert
  <2>2. \/ dec' = [dec EXCEPT !.pc = "fail"] \/ dec' = [dec EXCEPT !.pc = "silence"]
        \/ /\ dec' = [dec EXCEPT !.pc = "announce", !.tries = dec.tries + 1]
           /\ ~flag.dontFill /\ ~(RingSize - buf.filled >= ToInsert)
    BY <1>6 DEF CheckForBytes
  <2>3. dec' # [dec EXCEPT !.pc = "fail"] /\ dec' # [dec EXCEPT !.pc = "silence"]
    BY <1>1 DEF Decoder
  <2>4. dec'.tries = dec.tries + 1
    BY <1>1, <2>2, <2>3 DEF Decoder
  <2>5. ~flag.dontFill /\ RingSize - buf.filled < ToInsert
    BY <2>1, <2>2, <2>3
  <2> QED BY <1>6, <2>4, <2>5
<1>7. CASE GiveUp
  BY <1>1, <1>7 DEF GiveUp, FrameDone, Decoder
<1>8. CASE Announce
  BY <1>1, <1>8 DEF Announce, DStep, Decoder
<1>9. CASE Awake
  BY <1>1, <1>9 DEF Awake, DStep, Decoder
<1>10. CASE FillSilence
  BY <1>1, <1>10 DEF FillSilence, DStep, Decoder
<1>11. CASE FillFrame
  BY <1>1, <1>11 DEF FillFrame, FrameDone, Decoder
<1> QED BY <1>2, <1>3, <1>4, <1>5, <1>6, <1>7, <1>8, <1>9, <1>10, <1>11 DEF DecodeThread

(* Flags and semaphore, while the decode thread neither falls asleep nor     *)
(* wakes up.                                                                 *)
LEMMA DecodeWaits ==
  ASSUME Types, DecodeThread, ~Announce, ~Awake
  PROVE  flag'.waiting = flag.waiting /\ sem' = sem /\ dec.pc # "asleep" /\ dec'.pc # "asleep"
<1>1. \/ flag' = flag \/ flag' = [flag EXCEPT !.eof = TRUE]
      \/ flag' = [flag EXCEPT !.dontFill = FALSE, !.paused = TRUE]
  BY DEF DecodeThread, ParseMessage, FlushDecodeBuffers, NextFrame, LoadFrame, AwaitResync,
     CheckForBytes, GiveUp, FillSilence, FillFrame
<1>2. sem' = sem /\ dec.pc # "asleep"
  BY DEF DecodeThread, ParseMessage, NextFrame, LoadFrame, AwaitResync,
     CheckForBytes, GiveUp, FillSilence, FillFrame, DStep
<1>3. flag'.waiting = flag.waiting
  BY <1>1 DEF Types, TypeOK, Flags
<1>4. dec'.pc # "asleep"
  <2> SUFFICES ASSUME dec'.pc = "asleep" PROVE FALSE
    OBVIOUS
  <2>1. dec'.pc \in {"announce", "asleep"}
    OBVIOUS
  <2>2. AwaitResync \/ CheckForBytes
    BY <2>1, WaitingStarts
  <2>3. dec \in Decoder
    BY DEF Types, TypeOK
  <2>4. dec'.pc \in {"announce", "room", "fail", "silence"}
    BY <2>2, <2>3 DEF AwaitResync, CheckForBytes, DStep, Decoder
  <2> QED BY <2>4
<1> QED BY <1>2, <1>3, <1>4

(* Who wakes the sleeper takes back its flag, too. *)
LEMMA OthersWake ==
  ASSUME Types, AudioCallback \/ SyncThread
  PROVE  \/ flag'.waiting = flag.waiting /\ sem' = sem
         \/ (CallbackPost \/ SyncPost) /\ ~flag'.waiting /\ sem' = sem + 1
<1>1. flag \in Flags
  BY DEF Types, TypeOK
<1>2. CASE CallbackPost \/ SyncPost
  BY <1>1, <1>2 DEF CallbackPost, SyncPost, Flags
<1>3. CASE AudioCallback /\ ~CallbackPost
  <2>1. \/ flag' = flag \/ flag' = Stopped
        \/ flag' = [flag EXCEPT !.firstCall = FALSE, !.awaited = FALSE]
    BY <1>3 DEF AudioCallback, CallBack, CallEmpty, EnterCallback, CopyOut, Underrun, StopForResync,
       ReportReady, CallbackDone
  <2>2. sem' = sem
    BY <1>3 DEF AudioCallback, CallBack, CallEmpty, EnterCallback, CopyOut, Underrun, StopForResync,
       ReportReady, CallbackDone
  <2> QED BY <1>1, <2>1, <2>2 DEF Stopped, Flags
<1>4. CASE SyncThread /\ ~SyncPost
  <2>1. \/ flag' = flag
        \/ flag' = [flag EXCEPT !.eof = FALSE, !.running = FALSE, !.dontFill = TRUE]
        \/ flag' = [flag EXCEPT !.awaited = TRUE, !.paused = FALSE, !.firstCall = TRUE]
        \/ flag' = [flag EXCEPT !.paused = FALSE, !.firstCall = TRUE]
        \/ flag' = [flag EXCEPT !.running = TRUE]
    BY <1>4 DEF SyncThread, ProcessMessages, PauseDone, WaitSync, StartHardware, WaitAudio,
       AudioEnds, ResyncLater, ResyncNow, ResyncAnew, RestartFromStopped
  <2>2. sem' = sem
    BY <1>4 DEF SyncThread, ProcessMessages, PauseDone, WaitSync, StartHardware, WaitAudio,
       AudioEnds, ResyncLater, ResyncNow, ResyncAnew, RestartFromStopped
  <2> QED BY <1>1, <2>1, <2>2 DEF Flags
<1> QED BY <1>2, <1>3, <1>4

LEMMA NextSleeper == Types /\ SleeperKnown /\ [Next]_vars => SleeperKnown'
<1> SUFFICES ASSUME Types, SleeperKnown, [Next]_vars PROVE SleeperKnown'
  OBVIOUS
<1>1. sem \in Nat /\ flag \in Flags /\ dec \in Decoder
  BY DEF Types, TypeOK
<1>2. CASE Announce
  <2>1. flag'.waiting = TRUE /\ dec'.pc = "asleep"
    BY <1>1, <1>2 DEF Announce, DStep, Flags, Decoder
  <2> QED BY <2>1 DEF SleeperKnown
<1>3. CASE Awake
  <2>1. flag'.waiting = FALSE /\ dec'.pc # "asleep"
    BY <1>1, <1>3 DEF Awake, DStep, Flags, Decoder
  <2> QED BY <2>1 DEF SleeperKnown
<1>4. CASE DecodeThread /\ ~Announce /\ ~Awake
  BY <1>4, DecodeWaits DEF SleeperKnown
<1>5. CASE AudioCallback \/ SyncThread
  <2>1. dec' = dec
    BY <1>5, CallbackKeeps, SyncKeeps
  <2>2. CASE flag'.waiting = flag.waiting /\ sem' = sem
    BY <2>1, <2>2 DEF SleeperKnown
  <2>3. CASE ~flag'.waiting /\ sem' = sem + 1
    BY <1>1, <2>1, <2>3 DEF SleeperKnown
  <2> QED BY <1>5, <2>2, <2>3, OthersWake
<1>6. CASE Controller
  BY <1>6, ControllerKeeps DEF SleeperKnown
<1>7. CASE UNCHANGED vars
  BY <1>7 DEF vars, SleeperKnown
<1> QED BY <1>2, <1>3, <1>4, <1>5, <1>6, <1>7 DEF Next

(* What the sync thread does with the messages. *)
LEMMA MessagesDo ==
  ASSUME Types, Protocol, ProcessMessages
  PROVE  /\ sync.pc = "top" /\ sync'.queue = << >> /\ sync'.done = sync.done
         /\ \/ sync'.pc = "top" /\ sync'.state = "WAIT_SYNC" /\ UNCHANGED <<flag, ghost>>
            \/ /\ sync'.pc = "top" /\ sync'.state = "PAUSED" /\ sync.state = "PAUSED"
               /\ ctl.pc = "waitDone" /\ UNCHANGED <<flag, ghost>>
            \/ /\ sync'.pc = (IF flag.waiting THEN "post" ELSE "done") /\ sync'.state = "PAUSED"
               /\ ctl.pc = "waitDone"
               /\ flag' = [flag EXCEPT !.eof = FALSE, !.running = FALSE, !.dontFill = TRUE]
               /\ ghost'.missed = (ghost.missed \/ NotYetWaiting)
         /\ UNCHANGED <<buf, sem>>
<1> DEFINE last == sync.queue[Len(sync.queue)]
           state == IF last = "START" THEN "WAIT_SYNC" ELSE "PAUSED"
           pc == IF flag.waiting THEN "post" ELSE "done"
<1>1. sync \in Sync /\ sync.queue \in Seq({"START", "PAUSE"}) /\ sync.queue # << >>
  BY DEF ProcessMessages, Types, TypeOK, Sync
<1>2. sync.pc = "top" /\ UNCHANGED <<buf, sem>>
  BY DEF ProcessMessages
<1>3. last \in {"START", "PAUSE"}
  <2>1. Len(sync.queue) \in DOMAIN sync.queue
    BY <1>1, EmptySeq
  <2> QED BY <1>1, <2>1
<1>4. last = "PAUSE" => ctl.pc = "waitDone"
  BY <1>1 DEF Protocol, SyncPhases, PauseSent, LastOf
<1>5. CASE state # "PAUSED" \/ sync.state = "PAUSED"
  <2>1. sync' = [sync EXCEPT !.state = state, !.queue = << >>] /\ UNCHANGED <<flag, ghost>>
    BY <1>5 DEF ProcessMessages
  <2>2. state \in {"WAIT_SYNC", "PAUSED"} /\ (state = "PAUSED" => last = "PAUSE")
    BY <1>3
  <2> HIDE DEF state, last
  <2>3. /\ sync'.state = state /\ sync'.queue = << >> /\ sync'.pc = sync.pc
        /\ sync'.done = sync.done
    BY <1>1, <2>1 DEF Sync
  <2> QED BY <1>2, <1>4, <1>5, <2>1, <2>2, <2>3
<1>6. CASE ~(state # "PAUSED" \/ sync.state = "PAUSED")
  <2>1. /\ sync' = [sync EXCEPT !.state = state, !.queue = << >>, !.pc = pc]
        /\ flag' = [flag EXCEPT !.eof = FALSE, !.running = FALSE, !.dontFill = TRUE]
        /\ ghost' = [ghost EXCEPT !.missed = ghost.missed \/ NotYetWaiting]
    BY <1>6 DEF ProcessMessages
  <2>2. state = "PAUSED" /\ last = "PAUSE"
    BY <1>3, <1>6
  <2> HIDE DEF state, last
  <2>3. ghost'.missed = (ghost.missed \/ NotYetWaiting)
    BY <2>1 DEF Types, GhostTypes
  <2>4. /\ sync'.state = state /\ sync'.queue = << >> /\ sync'.pc = pc
        /\ sync'.done = sync.done
    BY <1>1, <2>1 DEF Sync
  <2> QED BY <1>2, <1>4, <2>1, <2>2, <2>3, <2>4
<1> QED BY <1>5, <1>6

(* The other steps of the sync thread. *)
LEMMA StatesMove ==
  ASSUME Types, Protocol, SyncThread, ~ProcessMessages
  PROVE  /\ sync'.queue = sync.queue
         /\ \/ /\ SyncPost /\ sync.pc = "post" /\ sync'.pc = "done" /\ sync'.state = "PAUSED"
               /\ flag' = [flag EXCEPT !.waiting = FALSE] /\ sem' = sem + 1 /\ buf' = buf
            \/ /\ PauseDone /\ sync.pc = "done" /\ sync'.pc = "top" /\ sync'.state = "PAUSED"
               /\ sync.state = "PAUSED" /\ UNCHANGED <<flag, buf, sem>>
            \/ /\ WaitSync /\ sync.pc = "top" /\ sync'.pc = "start" /\ sync'.state = "WAIT_AUDIO"
               /\ flag' = [flag EXCEPT !.awaited = TRUE, !.paused = FALSE, !.firstCall = TRUE]
               /\ ~flag.dontFill /\ buf.filled >= 2 * OutSize
            \/ /\ ResyncNow /\ sync.pc = "top" /\ sync'.pc = "start"
               /\ sync.state = "PLAYING" /\ sync'.state = "PLAYING"
               /\ flag' = [flag EXCEPT !.paused = FALSE, !.firstCall = TRUE]
            \/ /\ StartHardware /\ sync.pc = "start" /\ sync'.pc = "top"
               /\ sync'.state = sync.state
               /\ flag' = [flag EXCEPT !.running = TRUE] /\ UNCHANGED <<buf, sem>>
            \/ /\ sync.pc = "top" /\ sync'.pc = "top" /\ sync.state \in {"WAIT_AUDIO", "PLAYING"}
               /\ sync'.state \in {"WAIT_SYNC", "PLAYING", "DONE"}
               /\ sync'.state = "DONE" => flag.eof
               /\ buf'.resync = buf.resync /\ UNCHANGED <<flag, sem>>
<1>1. sync \in Sync /\ flag \in Flags
  BY DEF Types, TypeOK
<1>2. CASE SyncPost \/ PauseDone
  <2>1. sync.state = "PAUSED"
    BY <1>2 DEF SyncPost, PauseDone, Protocol, SyncPhases, Closing
  <2> QED BY <1>1, <1>2, <2>1 DEF SyncPost, PauseDone, Sync
<1>3. CASE WaitSync
  BY <1>1, <1>3 DEF WaitSync, AtTop, Sync
<1>4. CASE ResyncNow
  BY <1>1, <1>4 DEF ResyncNow, ResyncDue, AtTop, Sync
<1>5. CASE StartHardware
  BY <1>1, <1>5 DEF StartHardware, Sync
<1>6. CASE WaitAudio \/ AudioEnds \/ ResyncLater \/ ResyncAnew \/ RestartFromStopped
  <2>1. buf'.resync = buf.resync
    BY <1>6, SyncDoes
        DEF SyncThread, WaitAudio, AudioEnds, ResyncLater, ResyncAnew, RestartFromStopped, ResyncDue,
            AtTop, WaitSync, ResyncNow, Types, TypeOK, Buffer
  <2>2. /\ sync.pc = "top" /\ sync.state \in {"WAIT_AUDIO", "PLAYING"} /\ UNCHANGED <<flag, sem>>
        /\ \/ sync' = sync /\ sync.state = "PLAYING"
           \/ sync' = [sync EXCEPT !.state = "PLAYING"]
           \/ sync' = [sync EXCEPT !.state = "WAIT_SYNC"]
           \/ sync' = [sync EXCEPT !.state = "DONE"] /\ flag.eof
    BY <1>6 DEF WaitAudio, AudioEnds, ResyncLater, ResyncAnew, RestartFromStopped, ResyncDue,
       AtTop, SyncTo
  <2> QED BY <1>1, <2>1, <2>2 DEF Sync
<1> QED BY <1>2, <1>3, <1>4, <1>5, <1>6 DEF SyncThread

(* What the controller sends and what it waits for. *)
LEMMA ControllerDoes ==
  ASSUME Types, Protocol, Controller
  PROVE  /\ \/ /\ ctl.pc = "playing" /\ ctl'.pc = "pauseSync" /\ UNCHANGED <<sync, dec>>
            \/ /\ ctl.pc = "pauseSync" /\ ctl'.pc = "waitDone"
               /\ sync'.queue # << >> /\ UNCHANGED dec
            \/ /\ ctl.pc = "waitDone" /\ ctl'.pc = "paused" /\ UNCHANGED <<sync, dec>>
            \/ /\ ctl.pc = "paused" /\ ctl'.pc = "move" /\ sync'.queue # << >> /\ UNCHANGED dec
            \/ /\ ctl.pc = "move" /\ ctl'.pc = "startDecoding" /\ UNCHANGED sync
            \/ /\ ctl.pc = "startDecoding" /\ ctl'.pc = "playing" /\ UNCHANGED <<sync, dec>>
         /\ RestartPending' => RestartPending
<1>1. /\ ctl \in Control /\ sync \in Sync
      /\ ctl.queue \in Seq({"START", "PAUSE"}) /\ sync.queue \in Seq({"START", "PAUSE"})
  BY DEF Types, TypeOK, Control, Sync
<1>2. CASE Pause
  <2>1. /\ ctl.pc = "playing" /\ ctl'.pc = "pauseSync" /\ UNCHANGED <<sync, dec>>
        /\ ctl'.queue = Append(ctl.queue, "PAUSE")
    BY <1>2 DEF Pause
  <2>2. StartQueued' => StartQueued
    <3>1. \A i \in DOMAIN ctl'.queue :
             (i \in DOMAIN ctl.queue /\ ctl'.queue[i] = ctl.queue[i]) \/ ctl'.queue[i] = "PAUSE"
      BY <1>1, <2>1, AppendEnds
    <3> QED BY <3>1 DEF StartQueued
  <2> QED BY <2>1, <2>2 DEF RestartPending
<1>3. CASE PauseSync
  <2>1. /\ ctl.pc = "pauseSync" /\ ctl' = [ctl EXCEPT !.pc = "waitDone"] /\ UNCHANGED dec
        /\ sync' = [sync EXCEPT !.queue = Append(sync.queue, "PAUSE"), !.done = FALSE]
    BY <1>3 DEF PauseSync, CStep
  <2>2. /\ ctl'.pc = "waitDone" /\ ctl'.queue = ctl.queue
        /\ sync'.queue = Append(sync.queue, "PAUSE") /\ sync'.done = FALSE /\ sync'.pc = sync.pc
    BY <1>1, <2>1 DEF Control, Sync
  <2>3. sync'.queue # << >>
    BY <1>1, <2>2, AppendEnds
  <2>4. ~Closing'
    BY <2>1, <2>2 DEF Protocol, SyncPhases, Closing
  <2>5. StartQueued' => StartQueued
    BY <2>2 DEF StartQueued
  <2> QED BY <2>1, <2>2, <2>3, <2>4, <2>5 DEF RestartPending
<1>4. CASE WaitDone
  <2>1. ctl.pc = "waitDone" /\ sync.done /\ ctl'.pc = "paused" /\ UNCHANGED <<sync, dec>>
    BY <1>1, <1>4 DEF WaitDone, CStep, Control
  <2> QED BY <2>1 DEF RestartPending
<1>5. CASE PlaySync
  <2>1. /\ ctl.pc = "paused" /\ ctl'.pc = "move" /\ UNCHANGED dec
        /\ sync'.queue = Append(sync.queue, "START")
    BY <1>1, <1>5 DEF PlaySync, CStep, Control, Sync
  <2>2. sync'.queue # << >>
    BY <1>1, <2>1, AppendEnds
  <2> QED BY <2>1, <2>2 DEF RestartPending
<1>6. CASE Move
  <2>1. ctl.pc = "move" /\ ctl'.pc = "startDecoding" /\ UNCHANGED sync
    BY <1>1, <1>6 DEF Move, CStep, Control
  <2> QED BY <2>1 DEF RestartPending
<1>7. CASE StartDecoding
  <2>1. ctl.pc = "startDecoding" /\ ctl'.pc = "playing" /\ UNCHANGED <<sync, dec>>
    BY <1>1, <1>7 DEF StartDecoding, Control
  <2> QED BY <2>1 DEF RestartPending
<1> QED BY <1>2, <1>3, <1>4, <1>5, <1>6, <1>7 DEF Controller

LEMMA NextStates == Types /\ Protocol /\ StatesTell /\ [Next]_vars => StatesTell'
<1> SUFFICES ASSUME Types, Protocol, StatesTell, [Next]_vars PROVE StatesTell'
  OBVIOUS
<1>1. flag \in Flags
  BY DEF Types, TypeOK
<1>2. CASE ParseMessage
  <2>1. flag'.paused = TRUE /\ flag'.dontFill = FALSE /\ UNCHANGED sync /\ ctl'.pc = ctl.pc
    BY <1>1, <1>2 DEF ParseMessage, FlushDecodeBuffers, Flags, Types, TypeOK, Control
  <2> QED BY <2>1 DEF StatesTell
<1>3. CASE DecodeThread /\ ~ParseMessage
  BY <1>3, DecodeKeeps DEF StatesTell
<1>4. CASE AudioCallback
  <2>1. UNCHANGED <<sync, ctl>>
    BY <1>4, CallbackSteps
  <2>2. flag'.dontFill = flag.dontFill /\ (flag'.paused \/ flag'.running = flag.running)
          /\ (flag.paused => flag'.paused)
    BY <1>1, <1>4, CallbackSteps DEF Stopped, Flags
  <2> QED BY <2>1, <2>2 DEF StatesTell
<1>5. CASE ProcessMessages
  <2>1. sync'.queue = << >> /\ ctl' = ctl
    BY <1>5 DEF ProcessMessages, Types, TypeOK, Sync
  <2>2. CASE sync'.state = "WAIT_SYNC"
    BY <2>2 DEF StatesTell
  <2>3. CASE sync'.state = "PAUSED" /\ ctl.pc = "waitDone"
    BY <2>1, <2>3 DEF StatesTell
  <2> QED BY <1>5, <2>2, <2>3, MessagesDo
<1>6. CASE SyncThread /\ ~ProcessMessages
  <2>1. ctl' = ctl
    BY <1>6, SyncKeeps
  <2>2. CASE sync'.state = "PAUSED"
    <3>1. sync.state = "PAUSED" /\ sync'.queue = sync.queue
      BY <1>6, <2>2, StatesMove DEF SyncPost, Protocol, SyncPhases, Closing
    <3> QED BY <2>1, <2>2, <3>1 DEF StatesTell
  <2>3. CASE sync'.state # "PAUSED" /\ sync'.pc = "start"
    <3>1. ~flag'.dontFill
      BY <1>1, <1>6, <2>3, StatesMove DEF StatesTell, Flags
    <3> QED BY <2>3, <3>1 DEF StatesTell
  <2>4. CASE StartHardware
    <3>1. flag'.running /\ flag'.dontFill = flag.dontFill /\ sync'.state = sync.state
            /\ sync.state # "PAUSED"
      BY <1>1, <2>4, <1>6 DEF StartHardware, Flags, Types, TypeOK, Sync, Protocol, SyncPhases
    <3> QED BY <3>1 DEF StatesTell
  <2>5. CASE sync'.state # "PAUSED" /\ sync'.pc # "start" /\ ~StartHardware
    <3>1. /\ sync.pc = "top" /\ sync.state \in {"WAIT_AUDIO", "PLAYING"} /\ flag' = flag
          /\ sync'.state # "PAUSED"
      BY <1>6, <2>5, StatesMove
    <3> QED BY <3>1 DEF StatesTell
  <2> QED BY <2>2, <2>3, <2>4, <2>5
<1>7. CASE Controller
  <2>1. UNCHANGED flag /\ sync'.pc = sync.pc /\ sync'.state = sync.state
    BY <1>7, ControllerKeeps
  <2>2. sync'.state = "PAUSED" /\ sync'.queue = << >> => ctl'.pc \in {"waitDone", "paused"}
    BY <1>7, <2>1, ControllerDoes DEF StatesTell
  <2> QED BY <2>1, <2>2 DEF StatesTell
<1>8. CASE UNCHANGED vars
  BY <1>8 DEF vars, StatesTell
<1> QED BY <1>2, <1>3, <1>4, <1>5, <1>6, <1>7, <1>8 DEF Next

(* Where a callback goes. *)
LEMMA CallbackGoes ==
  ASSUME Types, AudioCallback
  PROVE  \/ CallBack /\ cb.pc = "idle" /\ cb'.pc = "called" /\ UNCHANGED <<flag, ghost>>
              /\ buf'.filled = buf.filled
         \/ CallEmpty /\ cb.pc = "called" /\ cb'.pc = "idle" /\ buf.filled = 0
         \/ cb'.pc \in {"copy", "underrun", "resync", "report"}
              /\ flag'.firstCall = flag.firstCall /\ flag'.awaited = flag.awaited
         \/ ReportReady /\ cb.pc = "report" /\ cb'.pc = "done"
              /\ (flag.firstCall => ~flag'.awaited)
         \/ CallbackDone /\ cb.pc = "done" /\ UNCHANGED flag /\ buf'.filled = buf.filled
              /\ cb'.pc = (IF flag.waiting THEN "post" ELSE "idle")
              /\ ghost'.missed = (ghost.missed \/ NotYetWaiting)
         \/ CallbackPost /\ cb.pc = "post" /\ cb'.pc = "idle" /\ sem' = sem + 1
              /\ buf'.filled = buf.filled /\ flag' = [flag EXCEPT !.waiting = FALSE]
<1>1. cb \in Callback /\ flag \in Flags
  BY DEF Types, TypeOK
<1>2. CASE CallBack
  BY <1>1, <1>2 DEF CallBack, CbStep, Callback
<1>3. CASE CallEmpty
  BY <1>1, <1>3 DEF CallEmpty, CbStep, Callback
<1>4. CASE EnterCallback
  BY <1>4, EnterDoes
<1>5. CASE CopyOut
  <2>1. CASE Chunk > buf.filled
    BY <1>5, <2>1 DEF CopyOut
  <2>2. CASE ~(Chunk > buf.filled)
    BY <1>5, <2>2, CopyDoes
  <2> QED BY <2>1, <2>2
<1>6. CASE Underrun \/ StopForResync
  <2>1. flag' = flag \/ flag' = Stopped
    BY <1>6 DEF Underrun, StopForResync
  <2>2. cb'.pc \in {"resync", "report"}
    BY <1>1, <1>6 DEF Underrun, StopForResync, CbStep, Callback
  <2> QED BY <1>1, <2>1, <2>2 DEF Stopped, Flags
<1>7. CASE ReportReady
  BY <1>1, <1>7 DEF ReportReady, CbStep, Callback, Flags
<1>8. CASE CallbackDone
  BY <1>1, <1>8 DEF CallbackDone, CbStep, Callback, Types, GhostTypes
<1>9. CASE CallbackPost
  BY <1>1, <1>9 DEF CallbackPost, CbStep, Callback
<1> QED BY <1>2, <1>3, <1>4, <1>5, <1>6, <1>7, <1>8, <1>9 DEF AudioCallback

LEMMA NextReady == RingInv /\ Protocol /\ ReadyComes /\ [Next]_vars => ReadyComes'
<1> SUFFICES ASSUME RingInv, Protocol, ReadyComes, [Next]_vars,
                    sync'.state = "WAIT_AUDIO", flag'.awaited, ctl'.pc = "playing"
             PROVE  /\ flag'.firstCall
                    /\ \/ InCallback'
                       \/ /\ buf'.filled > 0
                          /\ sync'.pc = "start" \/ flag'.running \/ cb'.pc = "called"
  BY DEF ReadyComes
<1>0. Types
  BY DEF RingInv
<1>1. Types /\ flag \in Flags /\ buf.filled \in Nat /\ OutSize \in Nat \ {0}
  <2>1. buf.filled \in Nat
    BY <1>0, Members, Zeros
  <2> QED BY <1>0, <2>1, SizesAssumption DEF Types, TypeOK
<1>2. CASE ParseMessage
  <2>1. /\ ctl.queue \in Seq({"START", "PAUSE"}) /\ ctl.queue # << >>
        /\ ctl.pc = "playing" /\ sync.state = "WAIT_AUDIO"
    BY <1>1, <1>2 DEF ParseMessage, Types, TypeOK, Control
  <2>2. LastOf(ctl.queue) = "START"
    BY <2>1 DEF Protocol, QueueEnds, LastSent
  <2>3. Len(ctl.queue) \in DOMAIN ctl.queue
    BY <2>1, EmptySeq
  <2>4. RestartPending
    BY <2>2, <2>3 DEF RestartPending, StartQueued, LastOf
  <2> QED BY <2>1, <2>4 DEF Protocol, RingRests
<1>3. CASE DecodeThread /\ ~ParseMessage
  <2>1. /\ UNCHANGED <<cb, sync, ctl>> /\ flag'.running = flag.running
        /\ flag'.firstCall = flag.firstCall /\ flag'.awaited = flag.awaited
        /\ buf'.filled >= buf.filled
    BY <1>1, <1>3, DecodeKeeps
  <2>2. buf'.filled \in Nat
    BY <1>1, NextTypes DEF Types, TypeOK, Buffer
  <2> QED BY <1>1, <2>1, <2>2 DEF ReadyComes, InCallback
<1>4. CASE AudioCallback
  <2>1. UNCHANGED <<sync, ctl>>
    BY <1>1, <1>4, CallbackSteps
  <2>2. flag.awaited
    BY <1>1, <1>4, CallbackSteps DEF Stopped, Flags
  <2>3. /\ flag.firstCall
        /\ \/ InCallback
           \/ buf.filled > 0 /\ (sync.pc = "start" \/ flag.running \/ cb.pc = "called")
    BY <2>1, <2>2 DEF ReadyComes
  <2>4. CASE CallBack /\ cb.pc = "idle" /\ cb'.pc = "called" /\ UNCHANGED <<flag, ghost>>
               /\ buf'.filled = buf.filled
    BY <2>3, <2>4 DEF InCallback
  <2>5. CASE CallEmpty /\ cb.pc = "called" /\ cb'.pc = "idle" /\ buf.filled = 0
    BY <1>1, <2>3, <2>5 DEF InCallback
  <2>6. CASE cb'.pc \in {"copy", "underrun", "resync", "report"}
               /\ flag'.firstCall = flag.firstCall /\ flag'.awaited = flag.awaited
    BY <2>3, <2>6 DEF InCallback
  <2>7. CASE flag.firstCall => ~flag'.awaited
    BY <2>3, <2>7
  <2>8. CASE cb.pc \in {"done", "post"} /\ buf'.filled = buf.filled /\ flag'.running = flag.running
               /\ flag'.firstCall = flag.firstCall
    BY <2>1, <2>3, <2>8 DEF InCallback
  <2>9. CASE CallbackPost /\ cb.pc = "post" /\ cb'.pc = "idle" /\ sem' = sem + 1
              /\ buf'.filled = buf.filled /\ flag' = [flag EXCEPT !.waiting = FALSE]
    BY <1>1, <2>8, <2>9 DEF Flags
  <2> QED BY <1>1, <1>4, <2>4, <2>5, <2>6, <2>7, <2>8, <2>9, CallbackGoes
<1>5. CASE SyncThread
  <2>1. ~ProcessMessages
    BY <1>1, <1>5, MessagesDo
  <2>2. buf'.filled = buf.filled /\ UNCHANGED <<cb, ctl>>
    BY <1>1, <1>5, SyncKeeps
  <2>3. \/ /\ WaitSync /\ sync'.pc = "start"
           /\ flag' = [flag EXCEPT !.awaited = TRUE, !.paused = FALSE, !.firstCall = TRUE]
           /\ buf.filled >= 2 * OutSize
        \/ /\ sync'.state = sync.state /\ flag' = [flag EXCEPT !.running = TRUE]
    BY <1>1, <1>5, <2>1, StatesMove
  <2>4. CASE WaitSync /\ sync'.pc = "start" /\ buf.filled >= 2 * OutSize
                /\ flag' = [flag EXCEPT !.awaited = TRUE, !.paused = FALSE, !.firstCall = TRUE]
    <3>1. flag'.firstCall
      BY <1>1, <2>4 DEF Flags
    <3>2. buf'.filled > 0
      BY <1>1, <2>2, <2>4
    <3> QED BY <2>4, <3>1, <3>2
  <2>5. CASE sync'.state = sync.state /\ flag' = [flag EXCEPT !.running = TRUE]
    <3>1. flag'.running /\ flag'.firstCall = flag.firstCall /\ flag'.awaited = flag.awaited
      BY <1>1, <2>5 DEF Flags
    <3> QED BY <2>2, <2>5, <3>1 DEF ReadyComes, InCallback
  <2> QED BY <2>3, <2>4, <2>5
<1>6. CASE Controller
  <2>1. ctl.pc = "startDecoding" /\ sync.state = "WAIT_AUDIO"
    BY <1>1, <1>6, ControllerDoes, ControllerKeeps
  <2> QED BY <2>1 DEF Protocol, RingRests, RestartPending
<1>7. CASE UNCHANGED vars
  BY <1>7 DEF vars, ReadyComes, InCallback
<1> QED BY <1>2, <1>3, <1>4, <1>5, <1>6, <1>7 DEF Next

(* Whoever takes the reason to wait away wakes the one who waits, unless he  *)
(* came between its test and its announcement.                               *)
LEMMA NextWake ==
  ASSUME RoomToStart, RingInv, Protocol, SleeperKnown, StatesTell, WillWake, [Next]_vars
  PROVE  WillWake'
<1> SUFFICES ASSUME dec'.pc \in {"announce", "asleep"}, ~ghost'.missed, sem' = 0, ~ghost'.lost
             PROVE  /\ Waking' \/ WorthWaiting'
                    /\ flag'.dontFill => sync'.pc = "post" \/ (dec'.tries = 0 /\ buf'.resync)
  BY DEF WillWake
<1>0. Types
  BY DEF RingInv
<1>1. /\ Types /\ flag \in Flags /\ buf.filled \in Nat /\ OutSize \in Nat \ {0} /\ sem \in Nat
      /\ dec.tries \in Nat
  <2>1. buf.filled \in Nat /\ dec.tries \in Nat
    BY <1>0, Members, Zeros
  <2> QED BY <1>0, <2>1, SizesAssumption DEF Types, TypeOK
<1>2. CASE DecodeThread
  <2>1. CASE AwaitResync /\ dec.pc = "pending" /\ buf.resync /\ dec'.tries = dec.tries
    <3>1. dec.tries = 0 /\ UNCHANGED <<buf, ghost>>
      BY <1>1, <2>1 DEF AwaitResync, Types, RoomKept
    <3>2. PICK d \in 0 .. buf.filled - 1 : Place(d) = buf.resyncAt
      BY <2>1, <3>1 DEF RingInv, ResyncWaits
    <3>3. buf.filled > 0
      BY <1>1, <3>2
    <3> QED BY <2>1, <3>1, <3>3 DEF WorthWaiting
  <2>2. CASE CheckForBytes /\ ~flag.dontFill /\ dec'.tries = dec.tries + 1
               /\ RingSize - buf.filled < ToInsert
    <3>1. UNCHANGED <<buf, flag>>
      BY <2>2 DEF CheckForBytes
    <3>2. ToInsert <= FrameSize + SilenceLimit
      BY <1>1, Members, Zeros DEF ToInsert
    <3>3. buf.filled >= 2 * OutSize
      BY <1>1, <2>2, <3>2, Members, Zeros DEF RoomToStart, ToInsert
    <3> QED BY <1>1, <2>2, <3>1, <3>3 DEF WorthWaiting
  <2>3. CASE Announce /\ dec.pc = "announce" /\ dec'.tries = dec.tries
    <3>1. /\ UNCHANGED <<buf, sem, cb, sync, ghost>> /\ flag'.dontFill = flag.dontFill
          /\ flag'.running = flag.running
      BY <1>1, <2>3 DEF Announce, Flags
    <3> QED BY <2>3, <3>1 DEF WillWake, Waking, WorthWaiting
  <2> QED BY <1>1, <1>2, <2>1, <2>2, <2>3, WaitingStarts
<1>3. ASSUME ~DecodeThread, dec'.pc = dec.pc, dec'.tries = dec.tries, sem' = sem \/ sem' = sem + 1,
             ghost.lost => ghost'.lost, ghost.missed => ghost'.missed
      PROVE  /\ sem' = sem /\ sem = 0
             /\ Waking \/ WorthWaiting
             /\ flag.dontFill => sync.pc = "post" \/ (dec.tries = 0 /\ buf.resync)
             /\ ~flag.waiting => dec.pc = "announce"
  <2>1. sem' = sem /\ sem = 0
    BY <1>1, <1>3
  <2>2. dec.pc \in {"announce", "asleep"} /\ ~ghost.missed /\ ~ghost.lost
    BY <1>3
  <2> QED BY <2>1, <2>2 DEF WillWake, SleeperKnown
<1>4. CASE ~DecodeThread /\ AudioCallback
  <2>1. UNCHANGED <<dec, sync, ctl>> /\ flag'.dontFill = flag.dontFill /\ buf'.resync = buf.resync
    BY <1>1, <1>4, CallbackKeeps
  <2>2. /\ sem' = sem /\ sem = 0
        /\ Waking \/ WorthWaiting
        /\ flag.dontFill => sync.pc = "post" \/ (dec.tries = 0 /\ buf.resync)
        /\ ~flag.waiting => dec.pc = "announce"
    BY <1>1, <1>3, <1>4, <2>1, CallbackKeeps
  <2>3. flag'.dontFill => sync'.pc = "post" \/ (dec'.tries = 0 /\ buf'.resync)
    BY <2>1, <2>2
  <2>4. CASE CallBack /\ cb.pc = "idle" /\ cb'.pc = "called" /\ UNCHANGED <<flag, ghost>>
               /\ buf'.filled = buf.filled
    BY <2>1, <2>2, <2>3, <2>4 DEF Waking, WorthWaiting
  <2>5. CASE CallEmpty /\ cb.pc = "called" /\ buf.filled = 0
    <3>1. ~WorthWaiting
      BY <1>1, <2>5 DEF WorthWaiting
    <3> QED BY <2>1, <2>2, <2>3, <2>5, <3>1 DEF Waking
  <2>6. CASE cb'.pc \in {"copy", "underrun", "resync", "report", "done", "post"}
    BY <2>3, <2>6 DEF Waking
  <2>7. CASE /\ CallbackDone /\ cb.pc = "done"
             /\ cb'.pc = (IF flag.waiting THEN "post" ELSE "idle")
             /\ ghost'.missed = (ghost.missed \/ NotYetWaiting)
    <3>1. flag.waiting
      BY <2>2, <2>7 DEF NotYetWaiting
    <3> QED BY <2>6, <2>7, <3>1
  <2>8. CASE sem' = sem + 1
    BY <2>2, <2>8
  <2> QED BY <1>1, <1>4, <2>4, <2>5, <2>6, <2>7, <2>8, CallbackGoes
<1>5. CASE ~DecodeThread /\ SyncThread
  <2>1. UNCHANGED <<dec, cb, ctl>> /\ buf'.filled = buf.filled
    BY <1>1, <1>5, SyncKeeps
  <2>2. /\ sem' = sem /\ sem = 0
        /\ Waking \/ WorthWaiting
        /\ flag.dontFill => sync.pc = "post" \/ (dec.tries = 0 /\ buf.resync)
        /\ ~flag.waiting => dec.pc = "announce"
    BY <1>1, <1>3, <1>5, <2>1, SyncKeeps
  <2>3. CASE ProcessMessages
    <3>1. CASE sync'.pc = "top" /\ UNCHANGED <<flag, buf>> /\ sync.pc = "top"
      BY <2>1, <2>2, <3>1 DEF Waking, WorthWaiting
    <3>2. CASE sync'.pc = (IF flag.waiting THEN "post" ELSE "done")
                 /\ ghost'.missed = (ghost.missed \/ NotYetWaiting)
      <4>1. flag.waiting
        BY <2>2, <3>2 DEF NotYetWaiting
      <4> QED BY <3>2, <4>1 DEF Waking
    <3> QED BY <1>1, <2>3, <3>1, <3>2, MessagesDo
  <2>4. CASE ~ProcessMessages
    <3>1. CASE sem' = sem + 1
      BY <2>2, <3>1
    <3>2. CASE sync.pc = "done" /\ sync'.pc = "top" /\ UNCHANGED <<flag, buf, sem>>
      BY <2>1, <2>2, <3>2 DEF Waking, WorthWaiting
    <3>3. CASE /\ WaitSync /\ sync'.pc = "start" /\ buf.filled >= 2 * OutSize /\ ~flag.dontFill
               /\ flag' = [flag EXCEPT !.awaited = TRUE, !.paused = FALSE, !.firstCall = TRUE]
      <4>1. ~flag'.dontFill
        BY <1>1, <3>3 DEF Flags
      <4>2. buf'.filled > 0 /\ buf'.filled >= 2 * OutSize
        BY <1>1, <2>1, <3>3
      <4> QED BY <3>3, <4>1, <4>2 DEF WorthWaiting
    <3>4. CASE /\ ResyncNow /\ sync.pc = "top" /\ sync'.pc = "start" /\ sync.state = "PLAYING"
               /\ flag' = [flag EXCEPT !.paused = FALSE, !.firstCall = TRUE]
      <4>1. ~flag'.dontFill
        BY <1>1, <3>4 DEF StatesTell, Flags
      <4> QED BY <2>1, <2>2, <3>4, <4>1 DEF Waking, WorthWaiting
    <3>5. CASE /\ StartHardware /\ sync.pc = "start" /\ sync'.pc = "top"
               /\ flag' = [flag EXCEPT !.running = TRUE] /\ UNCHANGED <<buf, sem>>
      <4>1. flag'.running /\ flag'.dontFill = flag.dontFill
        BY <1>1, <3>5 DEF Flags
      <4> QED BY <2>1, <2>2, <3>5, <4>1 DEF Waking, WorthWaiting
    <3>6. CASE sync.pc = "top" /\ sync'.pc = "top" /\ buf'.resync = buf.resync /\ UNCHANGED <<flag, sem>>
      BY <2>1, <2>2, <3>6 DEF Waking, WorthWaiting
    <3> QED BY <1>1, <1>5, <2>4, <3>1, <3>2, <3>3, <3>4, <3>5, <3>6, StatesMove
  <2> QED BY <2>3, <2>4
<1>6. CASE Controller
  BY <1>1, <1>6, ControllerKeeps DEF WillWake, Waking, WorthWaiting
<1>7. CASE UNCHANGED vars
  BY <1>7 DEF vars, WillWake, Waking, WorthWaiting
<1> QED BY <1>2, <1>4, <1>5, <1>6, <1>7 DEF Next

LEMMA InitSleep == Init => SleepInv /\ EofTells
BY DEF Init, SleepInv, SleeperKnown, WillWake, ReadyComes, StatesTell, EofTells

LEMMA SleepSoundly == Types /\ Protocol /\ SleepInv => StuckOnlyIfMissed
<1> SUFFICES ASSUME Types, Protocol, SleepInv, Stuck, ~ghost.missed, ~ghost.lost
             PROVE  dec.tries = 0 /\ buf.resync
  BY DEF StuckOnlyIfMissed
<1>1. /\ dec.pc = "asleep" /\ sem = 0 /\ cb.pc = "idle" /\ ~flag.running /\ ctl.pc = "playing"
      /\ sync.pc = "top" /\ sync.queue = << >> /\ sync.state # "DONE"
  BY DEF Stuck, SyncRests
<1>2. ~Waking
  BY <1>1 DEF Waking
<1>3. WorthWaiting /\ (flag.dontFill => dec.tries = 0 /\ buf.resync)
  BY <1>1, <1>2 DEF SleepInv, WillWake
<1>4. dec.tries \in Nat /\ buf.filled \in Nat /\ OutSize \in Nat
  BY Members, Zeros
<1>5. CASE dec.tries > 0
  <2>1. buf.filled >= 2 * OutSize /\ ~flag.dontFill
    BY <1>3, <1>4, <1>5 DEF WorthWaiting
  <2>2. sync.state \in {"WAIT_AUDIO", "PLAYING", "PAUSED"}
    <3>1. sync.state # "WAIT_SYNC"
      BY <1>4, <2>1 DEF Stuck, SyncRests
    <3>2. sync.state \in SyncState
      BY DEF Types, TypeOK, Sync
    <3> QED BY <1>1, <3>1, <3>2 DEF SyncState
  <2>3. sync.state # "PAUSED"
    BY <1>1 DEF SleepInv, StatesTell
  <2>4. sync.state # "WAIT_AUDIO"
    <3> SUFFICES ASSUME sync.state = "WAIT_AUDIO" PROVE FALSE
      OBVIOUS
    <3>1. flag.awaited
      BY DEF Stuck, SyncRests
    <3> QED BY <1>1, <3>1 DEF SleepInv, ReadyComes, InCallback
  <2>5. flag.paused
    BY <1>1, <2>2, <2>3, <2>4 DEF SleepInv, StatesTell
  <2> QED BY <1>4, <2>1, <2>2, <2>3, <2>4, <2>5 DEF Stuck, SyncRests
<1>6. CASE ~(dec.tries > 0)
  BY <1>1, <1>3, <1>4, <1>6 DEF WorthWaiting
<1> QED BY <1>5, <1>6

(* wait_for_callback sleeps for ever in three cases only: the callback, or   *)
(* the flush of a pause, came between its test and m_audio_waiting_buffer; it*)
(* waits for a resync that is pending and the sound has not begun; a resync  *)
(* was lost.  The output buffer must be small enough for the sound to start  *)
(* before the ring is full.                                                  *)
THEOREM SleeperIsWoken ==
  ASSUME RoomToStart
  PROVE  Spec => []StuckOnlyIfMissed
<1>1. Init => RingInv /\ Protocol /\ SleepInv
  BY InitRing, InitProtocol, InitSleep
<1>2. RingInv /\ Protocol /\ SleepInv /\ [Next]_vars => (RingInv /\ Protocol /\ SleepInv)'
  BY NextRing, NextProtocol, NextSleeper, NextWake, NextReady, NextStates DEF RingInv, SleepInv
<1>3. RingInv /\ Protocol /\ SleepInv => StuckOnlyIfMissed
  BY SleepSoundly DEF RingInv
<1> QED BY <1>1, <1>2, <1>3, PTL DEF Spec

LEMMA NextEof == Types /\ Protocol /\ EofTells /\ [Next]_vars => EofTells'
<1> SUFFICES ASSUME Types, Protocol, EofTells, [Next]_vars PROVE EofTells'
  OBVIOUS
<1>1. flag \in Flags /\ dec \in Decoder
  BY DEF Types, TypeOK
<1>2. CASE ParseMessage
  <2>1. /\ flag'.eof = flag.eof /\ UNCHANGED <<stream, sync>> /\ ctl'.pc = ctl.pc
        /\ ctl'.queue = Tail(ctl.queue) /\ dec'.pos = dec.pos
        /\ ctl.queue \in Seq({"START", "PAUSE"}) /\ ctl.queue # << >>
    BY <1>1, <1>2 DEF ParseMessage, FlushDecodeBuffers, Flags, Decoder, Types, TypeOK, Control
  <2>2. ghost'.lateEof = ghost.lateEof
    <3>1. Silent.lateEof = ghost.lateEof /\ DOMAIN Silent = DOMAIN ghost
            /\ Silent = [x \in DOMAIN Silent |-> Silent[x]] /\ "lateEof" \in DOMAIN ghost
      BY DEF Silent, Types, GhostTypes
    <3> HIDE DEF Silent
    <3> QED BY <1>2, <3>1 DEF ParseMessage
  <2>3. StartQueued' => StartQueued
    <3> SUFFICES ASSUME NEW i \in DOMAIN ctl'.queue, ctl'.queue[i] = "START" PROVE StartQueued
      BY DEF StartQueued
    <3>1. i + 1 \in DOMAIN ctl.queue /\ ctl.queue[i + 1] = "START"
      BY <2>1, TailEnds
    <3> QED BY <3>1 DEF StartQueued
  <2>4. Head(ctl.queue) = "START" => StartQueued
    <3>1. 1 \in DOMAIN ctl.queue /\ ctl.queue[1] = Head(ctl.queue)
      BY <2>1, EmptySeq
    <3> QED BY <3>1 DEF StartQueued
  <2>5. dec'.pc = IF Head(ctl.queue) = "START" THEN "top" ELSE "wait"
    BY <1>2, ParseDoes
  <2> QED BY <2>1, <2>2, <2>3, <2>4, <2>5 DEF EofTells, RestartPending, Closing
<1>3. CASE NextFrame /\ dec.pc = "read" /\ dec.pos > Len(stream)
  <2>1. /\ dec' = [dec EXCEPT !.pc = "wait"] /\ flag' = [flag EXCEPT !.eof = TRUE]
        /\ ghost' = [ghost EXCEPT !.lateEof = flag.dontFill] /\ UNCHANGED <<stream, sync, ctl>>
    <3>1. Len(stream) \in Nat /\ dec.pos \in Nat
      BY <1>1, StreamsAssumption, Members DEF Types, TypeOK
    <3> QED BY <1>3, <3>1 DEF NextFrame, DStep
  <2>2. dec'.pc = "wait" /\ dec'.pos = dec.pos /\ flag'.eof /\ ghost'.lateEof = flag.dontFill
    BY <1>1, <2>1 DEF Decoder, Flags, Types, GhostTypes
  <2>3. RestartPending => flag.dontFill
    BY <1>3 DEF Protocol, RingRests, NobodyFills
  <2>4. RestartPending' <=> RestartPending
    BY <2>1 DEF RestartPending, StartQueued, Closing
  <2> QED BY <1>3, <2>1, <2>2, <2>3, <2>4 DEF EofTells
<1>4. CASE DecodeThread /\ ~ParseMessage /\ ~(NextFrame /\ dec.pc = "read" /\ dec.pos > Len(stream))
  <2>1. UNCHANGED <<stream, sync, ctl>> /\ dec.pc # "wait"
    BY <1>4, DecodeKeeps
       DEF DecodeThread, NextFrame, LoadFrame, AwaitResync, CheckForBytes, GiveUp,
           Announce, Awake, FillSilence, FillFrame, DStep
  <2>2. CASE FillSilence \/ FillFrame
    <3>1. flag' = flag
      BY <2>2 DEF FillSilence, FillFrame
    <3>2. ghost'.lateEof = ghost.lateEof
      BY <2>2 DEF FillSilence, FillFrame, Types, GhostTypes
    <3> QED BY <2>1, <3>1, <3>2 DEF EofTells
  <2>3. CASE ~(FillSilence \/ FillFrame)
    <3>1. flag' = flag \/ flag' = [flag EXCEPT !.waiting = TRUE] \/ flag' = [flag EXCEPT !.waiting = FALSE]
      BY <1>4, <2>3 DEF DecodeThread, NextFrame, DStep, LoadFrame, AwaitResync, CheckForBytes, GiveUp,
         Announce, Awake
    <3>2. ghost' = ghost \/ ghost' = [ghost EXCEPT !.missed = FALSE]
      BY <1>4, <2>3 DEF DecodeThread, NextFrame, DStep, LoadFrame, AwaitResync, CheckForBytes, GiveUp,
         Announce, Awake
    <3>3. flag'.eof = flag.eof /\ ghost'.lateEof = ghost.lateEof
      BY <1>1, <3>1, <3>2 DEF Flags, Types, GhostTypes
    <3> QED BY <2>1, <3>3 DEF EofTells
  <2> QED BY <2>2, <2>3
<1>5. CASE AudioCallback
  <2>1. /\ UNCHANGED <<stream, dec, sync, ctl>> /\ flag'.eof = flag.eof
        /\ ghost'.lateEof = ghost.lateEof
    BY <1>5, CallbackKeeps
  <2>2. RestartPending' <=> RestartPending
    BY <2>1 DEF RestartPending, StartQueued, Closing
  <2> QED BY <2>1, <2>2 DEF EofTells
<1>6. CASE SyncThread
  <2>1. UNCHANGED <<stream, dec, ctl>> /\ ghost'.lateEof = ghost.lateEof
    BY <1>6, SyncKeeps
  <2>2. CASE ProcessMessages
    <3>1. CASE flag' = [flag EXCEPT !.eof = FALSE, !.running = FALSE, !.dontFill = TRUE]
      <4>1. ~flag'.eof /\ sync'.state # "DONE"
        BY <1>1, <2>2, <3>1, MessagesDo DEF Flags
      <4> QED BY <4>1 DEF EofTells
    <3>2. CASE UNCHANGED flag /\ sync'.pc = "top"
      <4>1. sync'.done = sync.done /\ sync'.state # "DONE"
        BY <2>2, MessagesDo
      <4>2. RestartPending' => RestartPending
        BY <2>1, <3>2, <4>1 DEF RestartPending, StartQueued, Closing
      <4> QED BY <2>1, <3>2, <4>1, <4>2 DEF EofTells
    <3> QED BY <2>2, <3>1, <3>2, MessagesDo
  <2>3. CASE SyncPost \/ PauseDone
    <3>1. RestartPending /\ sync.state = "PAUSED"
      BY <2>3 DEF SyncPost, PauseDone, RestartPending, Closing, Protocol, SyncPhases
    <3>2. flag'.eof = flag.eof /\ sync'.state = sync.state
      BY <1>1, <2>3 DEF SyncPost, PauseDone, Flags, Types, TypeOK, Sync
    <3> QED BY <2>1, <3>1, <3>2 DEF EofTells
  <2>4. CASE ~ProcessMessages /\ ~SyncPost /\ ~PauseDone
    <3>1. flag'.eof = flag.eof /\ (sync'.state = "DONE" => flag.eof \/ sync.state = "DONE")
      BY <1>1, <1>6, <2>4, StatesMove DEF Flags
    <3>2. sync'.pc \in {"top", "start"} /\ sync'.done = sync.done
      <4>1. sync \in Sync
        BY DEF Types, TypeOK
      <4>2. \/ sync' = sync /\ sync.pc = "top"
            \/ sync' = [sync EXCEPT !.pc = "start"] \/ sync' = [sync EXCEPT !.pc = "top"]
            \/ sync' = [sync EXCEPT !.state = "WAIT_AUDIO", !.pc = "start"]
            \/ sync.pc = "top" /\ \E state \in SyncState : sync' = [sync EXCEPT !.state = state]
        BY <1>6, <2>4, SyncPCs
           DEF SyncThread, WaitSync, StartHardware, WaitAudio, AudioEnds, ResyncLater, ResyncNow,
               ResyncAnew, RestartFromStopped, ResyncDue, AtTop, SyncTo
      <4> QED BY <4>1, <4>2 DEF Sync
    <3>3. RestartPending' => RestartPending
      BY <2>1, <3>2 DEF RestartPending, StartQueued, Closing
    <3> QED BY <2>1, <3>1, <3>3 DEF EofTells
  <2> QED BY <2>2, <2>3, <2>4
<1>7. CASE Controller
  <2>1. UNCHANGED <<stream, flag, ghost>> /\ sync'.state = sync.state
    BY <1>7, ControllerKeeps
  <2>2. dec' = dec \/ RestartPending
    BY <1>7, ControllerDoes DEF RestartPending
  <2>3. RestartPending' => RestartPending
    BY <1>7, ControllerDoes
  <2> QED BY <2>1, <2>2, <2>3 DEF EofTells
<1>8. CASE UNCHANGED vars
  <2>1. UNCHANGED <<stream, flag, ghost, dec, sync, ctl>>
    BY <1>8 DEF vars
  <2>2. RestartPending' <=> RestartPending
    BY <2>1 DEF RestartPending, StartQueued, Closing
  <2> QED BY <2>1, <2>2 DEF EofTells
<1> QED BY <1>2, <1>3, <1>4, <1>5, <1>6, <1>7, <1>8 DEF Next

(* check_audio_sync ends the session only when the decode thread is at the   *)
(* end of the stream, unless set_eof came after the clear_eof of a pause.    *)
THEOREM EndIsTheEnd == Spec => []EndsAtEnd
<1>1. Init => Types /\ Protocol /\ EofTells
  BY InitTypes, InitProtocol, InitSleep
<1>2. Types /\ Protocol /\ EofTells /\ [Next]_vars => (Types /\ Protocol /\ EofTells)'
  BY NextTypes, NextProtocol, NextEof
<1>3. EofTells => EndsAtEnd
  BY DEF EofTells, EndsAtEnd
<1> QED BY <1>1, <1>2, <1>3, PTL DEF Spec

(* Stuck is what its name says: from there only a pause of the user leads on.*)
THEOREM StuckStays == Spec => [][Stuck => Stuck' \/ Pause]_vars
<1>1. ASSUME Types, [Next]_vars, Stuck PROVE Stuck' \/ Pause
  <2>1. /\ dec.pc = "asleep" /\ sem = 0 /\ cb.pc = "idle" /\ ~flag.running /\ ctl.pc = "playing"
        /\ sync.pc = "top" /\ sync.queue = << >> /\ SyncRests /\ sync.state # "DONE"
    BY <1>1 DEF Stuck, SyncRests
  <2>2. ~DecodeThread
    <3>1. ~Awake
      BY <2>1 DEF Awake
    <3> QED BY <2>1, <3>1 DEF DecodeThread, ParseMessage, NextFrame, LoadFrame, AwaitResync,
               CheckForBytes, GiveUp, Announce, FillSilence, FillFrame, DStep
  <2>3. ~AudioCallback
    BY <2>1 DEF AudioCallback, CallBack, CallEmpty, EnterCallback, CopyOut, Underrun, StopForResync,
       ReportReady, CallbackDone, CallbackPost, CbStep
  <2>4. ~SyncThread
    <3>1. buf.filled \in Nat /\ OutSize \in Nat
      BY <1>1, Members, Zeros
    <3> QED BY <2>1, <3>1
            DEF SyncRests, SyncThread, ProcessMessages, SyncPost, PauseDone, WaitSync, StartHardware,
                WaitAudio, AudioEnds, ResyncLater, ResyncNow, ResyncAnew, RestartFromStopped,
                ResyncDue, AtTop
  <2>5. CASE Controller
    BY <2>1, <2>5 DEF Controller, Pause, PauseSync, WaitDone, PlaySync, Move, StartDecoding, CStep
  <2>6. CASE UNCHANGED vars
    BY <1>1, <2>6 DEF vars, Stuck, SyncRests
  <2> QED BY <1>1, <2>2, <2>3, <2>4, <2>5, <2>6 DEF Next
<1>2. Init => Types
  BY InitTypes
<1>3. Types /\ [Next]_vars => Types'
  BY NextTypes
<1> QED BY <1>1, <1>2, <1>3, PTL DEF Spec
=============================================================================
