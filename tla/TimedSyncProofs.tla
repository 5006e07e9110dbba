-------------------------- MODULE TimedSyncProofs --------------------------
(***************************************************************************)
(* Proofs about the ring of CTimedSync, for every number of slots, stream  *)
(* length, lateness limit and number of stray semaphore posts.  The        *)
(* theorems about the order of frames are about a ring whose slots are     *)
(* flagged once (~PublishTwice, timed text): TLC shows that they fail for  *)
(* the SDL video ring, which flags a slot twice.                           *)
(***************************************************************************)
EXTENDS TimedSync, FiniteSetTheorems, TLAPS

(* The index arithmetic of the ring without the remainder. *)
LEMMA SuccIsNext ==
  ASSUME NEW i \in Slots
  PROVE  Succ(i) = IF i = MaxBuffers - 1 THEN 0 ELSE i + 1
BY ConstantsAssumption, SMTT(30) DEF Succ, Slots

LEMMA SuccInSlots == \A i \in Slots : Succ(i) \in Slots
BY SuccIsNext, ConstantsAssumption DEF Slots

-----------------------------------------------------------------------------
LEMMA InitTypeOK == Init => TypeOK
<1> SUFFICES ASSUME Init PROVE TypeOK
  OBVIOUS
<1> USE DEF Init
<1>1. 0 \in Slots
  BY ConstantsAssumption DEF Slots
<1>2. /\ filled \in [Slots -> BOOLEAN] /\ playThisAt \in [Slots -> Nat \cup {NoFrame}]
      /\ content \in [Slots -> Nat \cup {NoFrame}]
  OBVIOUS
<1>3. dpc \in DecodePC /\ spc \in SyncPC
  BY DEF DecodePC, SyncPC
<1>4. call \in [time: Nat, resync: BOOLEAN, index: Slots, used: BOOLEAN,
                eof: BOOLEAN]
  BY <1>1
<1> QED BY <1>1, <1>2, <1>3, <1>4 DEF TypeOK

(* A step of the decode thread keeps the types. *)
LEMMA FillStepTypeOK == TypeOK /\ (DecodeFrame \/ FillStep \/ SetEof) => TypeOK'
<1> SUFFICES ASSUME TypeOK, DecodeFrame \/ FillStep \/ SetEof
             PROVE  TypeOK'
  OBVIOUS
<1> USE SuccInSlots, ConstantsAssumption
    DEF TypeOK, DecodePC, SyncPC, NoFrame, ring, wakeup, history, DStep,
        SyncThreadUnchanged
<1>1. CASE DecodeFrame   BY <1>1 DEF DecodeFrame
<1>2. CASE CheckSlot     BY <1>2 DEF CheckSlot
<1>3. CASE SetWaiting    BY <1>3 DEF SetWaiting
<1>4. CASE Awake
  <2>1. decodeSem - 1 \in Nat  BY <1>4 DEF Awake
  <2> QED BY <1>4, <2>1 DEF Awake
<1>5. CASE RecheckSlot   BY <1>5 DEF RecheckSlot
<1>6. CASE WriteSlot     BY <1>6 DEF WriteSlot
<1>7. CASE RaiseFlag     BY <1>7 DEF RaiseFlag
<1>8. CASE SetEof        BY <1>8 DEF SetEof
<1> QED BY <1>1, <1>2, <1>3, <1>4, <1>5, <1>6, <1>7, <1>8 DEF FillStep

(* A step of the sync thread, or of another sender, keeps the types. *)
LEMMA PlayStepTypeOK == TypeOK /\ (PlayAt \/ PlayStep \/ OtherPost) => TypeOK'
<1> SUFFICES ASSUME TypeOK, PlayAt \/ PlayStep \/ OtherPost
             PROVE  TypeOK'
  OBVIOUS
<1> USE SuccInSlots, ConstantsAssumption
    DEF TypeOK, DecodePC, SyncPC, NoFrame, ring, wakeup, history, SStep,
        LoopExit, DecodeThreadUnchanged
<1>1. CASE PlayAt             BY <1>1 DEF PlayAt, CallPlayAt
<1>2. CASE TestSlot           BY <1>2 DEF TestSlot
<1>3. CASE TestEof            BY <1>3 DEF TestEof
<1>4. CASE FreeSlot
  <2>1. playThisAt[playIndex] \in Nat \cup {NoFrame}  OBVIOUS
  <2>2. call' \in [time: Nat, resync: BOOLEAN, index: Slots, used: BOOLEAN,
                   eof: BOOLEAN]
    BY <1>4 DEF FreeSlot
  <2>3. filled' \in [Slots -> BOOLEAN]  BY <1>4 DEF FreeSlot
  <2> QED BY <1>4, <2>1, <2>2, <2>3 DEF FreeSlot
<1>5. CASE AdvancePlayIndex   BY <1>5 DEF AdvancePlayIndex
<1>6. CASE PeekNextSlot       BY <1>6 DEF PeekNextSlot
<1>7. CASE Render
  <2>1. content[call.index] \in Nat \cup {NoFrame}  OBVIOUS
  <2> QED BY <1>7, <2>1 DEF Render
<1>8. CASE NotifyDecodeThread
  <2>1. /\ decodeWaiting' = FALSE /\ spc' \in {"post", "out"}
        /\ UNCHANGED <<ring, decodeSem, dontFill, eof, dpc, call, history, posts>>
    BY <1>8 DEF NotifyDecodeThread
  <2>2. spc' \in SyncPC /\ decodeWaiting' \in BOOLEAN
    BY <2>1
  <2> HIDE DEF SyncPC, DecodePC
  <2> QED BY <2>1, <2>2
<1>9. CASE PostDecodeSem      BY <1>9 DEF PostDecodeSem
<1>10. CASE OtherPost         BY <1>10 DEF OtherPost
<1>11. CASE ClearSlot         BY <1>11 DEF ClearSlot
<1> QED BY <1>1, <1>2, <1>3, <1>4, <1>5, <1>6, <1>7, <1>8, <1>9, <1>10, <1>11
        DEF PlayStep

(* Every variable keeps its type, whatever the two threads do. *)
THEOREM TypeCorrect == Spec => []TypeOK
<1>1. Init => TypeOK
  BY InitTypeOK
<1>2. TypeOK /\ [Next]_vars => TypeOK'
  <2> SUFFICES ASSUME TypeOK, [Next]_vars PROVE TypeOK'
    OBVIOUS
  <2>1. CASE DecodeFrame \/ FillStep \/ SetEof  BY <2>1, FillStepTypeOK
  <2>2. CASE PlayAt \/ PlayStep \/ OtherPost    BY <2>2, PlayStepTypeOK
  <2>3. CASE UNCHANGED vars
    BY <2>3 DEF vars, ring, wakeup, history, TypeOK
  <2> QED BY <2>1, <2>2, <2>3 DEF Next
<1> QED BY <1>1, <1>2, PTL DEF Spec

-----------------------------------------------------------------------------
(* The inductive invariant behind the order of frames.  RingAligned is not   *)
(* inductive by itself: it has to be known that a slot is free while it is   *)
(* written, and that the slot the sync thread is about to free is filled.    *)
FillerOwnsSlot ==
  /\ dpc # "publish"
  /\ dpc \in {"write", "increment"} => ~filled[fillIndex]
  /\ dpc = "increment" => playThisAt[fillIndex] = published

TakerOwnsSlot ==
  /\ spc = "free" => filled[playIndex]
  /\ spc = "advance" => call.index = playIndex
  /\ taken > 0 => lastTaken = taken - 1

RingInv == TypeOK /\ RingAligned /\ FillerOwnsSlot /\ TakerOwnsSlot

LEMMA InitRingInv == Init => RingInv
<1> SUFFICES ASSUME Init PROVE RingInv
  OBVIOUS
<1>1. TypeOK  BY InitTypeOK
<1>2. Head = 0 /\ published - taken = 0
  BY DEF Init, Head
<1>3. RingAligned
  BY <1>2, ConstantsAssumption DEF Init, RingAligned, Distance, Slots
<1>4. FillerOwnsSlot /\ TakerOwnsSlot
  BY DEF Init, FillerOwnsSlot, TakerOwnsSlot
<1> QED BY <1>1, <1>3, <1>4 DEF RingInv

(* The distance of a slot from Head is below MaxBuffers, and only Head is at *)
(* distance 0.                                                               *)
LEMMA DistanceRange ==
  ASSUME TypeOK
  PROVE  /\ Head \in Slots
         /\ \A i \in Slots : Distance(i) \in Slots
         /\ \A i \in Slots : Distance(i) = 0 <=> i = Head
         /\ \A i, j \in Slots : Distance(i) = Distance(j) => i = j
<1>1. Head \in Slots
  BY SuccInSlots DEF Head, TypeOK
<1> QED BY <1>1, ConstantsAssumption DEF Distance, Slots

(* A slot that the decode thread may store into is the one after the frames  *)
(* of the ring, and the ring is not full.                                    *)
LEMMA FreeFillSlot ==
  ASSUME TypeOK, RingAligned, ~filled[fillIndex]
  PROVE  /\ published - taken \in 0 .. MaxBuffers - 1
         /\ Distance(fillIndex) = published - taken
<1>1. ~(Distance(fillIndex) < published - taken)
  BY DEF RingAligned, TypeOK
<1> QED BY <1>1, DistanceRange, ConstantsAssumption DEF RingAligned, TypeOK, Slots

(* A step that changes neither the flags nor the times nor the indexes keeps *)
(* the ring aligned.                                                         *)
LEMMA QuietStep ==
  ASSUME RingAligned, Head' = Head,
         UNCHANGED <<filled, playThisAt, fillIndex, playIndex, published, taken>>
  PROVE  RingAligned'
<1>1. \A i : Distance(i)' = Distance(i)
  BY DEF Distance
<1> QED BY <1>1 DEF RingAligned

(* The decode thread moves neither Head nor the distances. *)
LEMMA DecodeThreadKeepsDistance ==
  ASSUME UNCHANGED <<playIndex, spc, call>>
  PROVE  Head' = Head /\ \A i : Distance(i)' = Distance(i)
BY DEF Head, Distance

LEMMA FillStepRingInv ==
  ASSUME ~PublishTwice, RingInv, DecodeFrame \/ FillStep \/ SetEof
  PROVE  RingInv'
<1> USE DEF RingInv
<1>0. TypeOK'
  BY FillStepTypeOK
<1>1. CASE \/ DecodeFrame \/ CheckSlot \/ SetWaiting \/ Awake \/ RecheckSlot
           \/ SetEof
  <2>1. UNCHANGED <<ring, history, spc, call>>
    BY <1>1 DEF DecodeFrame, CheckSlot, SetWaiting, Awake, RecheckSlot, SetEof
  <2>2. RingAligned'
    BY <2>1, QuietStep, DecodeThreadKeepsDistance DEF ring, history
  <2>3. FillerOwnsSlot'
    BY <1>1 DEF DecodeFrame, CheckSlot, SetWaiting, Awake, RecheckSlot, SetEof,
                DStep, FillerOwnsSlot, ring, history
  <2>4. TakerOwnsSlot'
    BY <2>1 DEF TakerOwnsSlot, ring, history
  <2> QED BY <1>0, <2>2, <2>3, <2>4
<1>2. CASE WriteSlot
  <2> USE <1>2 DEF WriteSlot, DStep, SyncThreadUnchanged
  <2>1. ~filled[fillIndex] /\ UNCHANGED <<filled, fillIndex, published, taken>>
    BY DEF FillerOwnsSlot
  <2>2. playThisAt' = [playThisAt EXCEPT ![fillIndex] = published]
    OBVIOUS
  <2>3. RingAligned'
    BY <2>1, <2>2, DecodeThreadKeepsDistance DEF RingAligned, TypeOK
  <2>4. FillerOwnsSlot'
    BY <2>1, <2>2 DEF FillerOwnsSlot, TypeOK
  <2>5. TakerOwnsSlot'
    BY <2>1 DEF TakerOwnsSlot
  <2> QED BY <1>0, <2>3, <2>4, <2>5
<1>3. CASE RaiseFlag
  <2>0. dpc = "increment"
    BY <1>3 DEF RaiseFlag, FillerOwnsSlot
  <2> USE <1>3, <2>0 DEF RaiseFlag, SyncThreadUnchanged
  <2>1. ~filled[fillIndex] /\ playThisAt[fillIndex] = published
    BY DEF FillerOwnsSlot
  <2>2. /\ published' = published + 1 /\ UNCHANGED <<playThisAt, taken>>
        /\ fillIndex' = Succ(fillIndex)
        /\ filled' = [filled EXCEPT ![fillIndex] = TRUE]
    OBVIOUS
  <2>3. /\ published - taken \in 0 .. MaxBuffers - 1
        /\ Distance(fillIndex) = published - taken
    BY <2>1, FreeFillSlot
  <2>4. \A i : Distance(i)' = Distance(i)
    BY DecodeThreadKeepsDistance
  <2>5. Distance(fillIndex') = IF published' - taken' = MaxBuffers
                                 THEN 0 ELSE published' - taken'
    <3>1. fillIndex' = IF fillIndex = MaxBuffers - 1 THEN 0 ELSE fillIndex + 1
      BY <2>2, SuccIsNext DEF TypeOK
    <3>2. Head \in Slots /\ fillIndex \in Slots /\ published \in Nat /\ taken \in Nat
      BY DistanceRange DEF TypeOK
    <3>3. published' - taken' = (published - taken) + 1
      BY <2>2, <3>2
    <3> HIDE <1>3, <2>0 DEF RaiseFlag, RingInv
    <3> QED BY <3>1, <3>2, <3>3, <2>3, ConstantsAssumption DEF Distance, Slots
  <2>6. \A i \in Slots : filled'[i] <=> Distance(i) < published' - taken'
    <3> TAKE i \in Slots
    <3>1. CASE i = fillIndex
      BY <3>1, <2>2, <2>3, ConstantsAssumption DEF TypeOK, Slots
    <3>2. CASE i # fillIndex
      <4>1. Distance(i) # published - taken
        BY <3>2, <2>3, DistanceRange DEF TypeOK
      <4>2. filled'[i] = filled[i]
        BY <3>2, <2>2 DEF TypeOK
      <4>3. Distance(i) \in Int
        BY DistanceRange DEF Slots
      <4> QED BY <4>1, <4>2, <4>3, <2>2 DEF RingAligned, TypeOK
    <3> QED BY <3>1, <3>2
  <2>7. \A i \in Slots : filled'[i] => playThisAt'[i] = taken' + Distance(i)
    BY <2>1, <2>2, <2>3 DEF RingAligned, TypeOK
  <2>8. RingAligned'
    BY <2>2, <2>3, <2>4, <2>5, <2>6, <2>7, ConstantsAssumption
       DEF RingAligned, TypeOK
  <2>9. FillerOwnsSlot'
    BY DEF FillerOwnsSlot
  <2>10. TakerOwnsSlot'
    BY <2>1, <2>2 DEF TakerOwnsSlot, TypeOK
  <2> QED BY <1>0, <2>8, <2>9, <2>10
<1> QED BY <1>1, <1>2, <1>3 DEF FillStep

LEMMA PlayStepRingInv ==
  ASSUME RingInv, PlayAt \/ PlayStep \/ OtherPost
  PROVE  RingInv'
<1> USE DEF RingInv
<1>0. TypeOK'
  BY PlayStepTypeOK
<1>1. CASE \/ PlayAt \/ TestSlot \/ TestEof \/ PeekNextSlot \/ Render \/ ClearSlot
           \/ NotifyDecodeThread \/ PostDecodeSem
  <2> USE <1>1 DEF PlayAt, CallPlayAt, TestSlot, TestEof, PeekNextSlot, Render, ClearSlot,
                   NotifyDecodeThread, PostDecodeSem, SStep, LoopExit
  <2>1. /\ UNCHANGED <<filled, playThisAt, fillIndex, playIndex>>
        /\ UNCHANGED <<published, taken, lastTaken, dpc>>
        /\ spc # "advance" /\ spc' # "advance"
    BY DEF history, ring
  <2>2. spc' = "free" => filled[playIndex]
    OBVIOUS
  <2> HIDE <1>1
  <2>3. RingAligned'
    BY <2>1, QuietStep DEF Head
  <2>4. FillerOwnsSlot' /\ TakerOwnsSlot'
    BY <2>1, <2>2 DEF FillerOwnsSlot, TakerOwnsSlot
  <2> QED BY <1>0, <2>3, <2>4
<1>2. CASE OtherPost
  <2>1. UNCHANGED <<ring, history, dpc, spc, call>>
    BY <1>2 DEF OtherPost
  <2>2. RingAligned'
    BY <2>1, QuietStep DEF Head, ring, history
  <2> QED BY <1>0, <2>1, <2>2 DEF FillerOwnsSlot, TakerOwnsSlot, ring, history
<1>3. CASE FreeSlot
  <2> USE <1>3 DEF FreeSlot, SStep, DecodeThreadUnchanged
  <2>1. /\ filled[playIndex]
        /\ taken' = taken + 1 /\ lastTaken' = playThisAt[playIndex]
        /\ filled' = [filled EXCEPT ![playIndex] = FALSE]
        /\ call'.index = playIndex /\ spc = "free" /\ spc' = "advance"
        /\ UNCHANGED <<playIndex, playThisAt, fillIndex, published, dpc>>
    BY DEF TakerOwnsSlot, TypeOK
  <2> HIDE <1>3 DEF FreeSlot
  <2>2. /\ Head = playIndex
        /\ Head' = IF playIndex = MaxBuffers - 1 THEN 0 ELSE playIndex + 1
    BY <2>1, SuccIsNext DEF Head, TypeOK
  <2>3. \A i \in Slots : Distance(i)' = IF i = playIndex THEN MaxBuffers - 1
                                                       ELSE Distance(i) - 1
    BY <2>2, ConstantsAssumption DEF Distance, Slots, TypeOK
  <2>4. Distance(playIndex) = 0
    BY <2>2, DistanceRange DEF TypeOK
  <2>5. published - taken \in 1 .. MaxBuffers
    BY <2>1, <2>4, ConstantsAssumption DEF RingAligned, TypeOK
  <2>6. published' - taken' = (published - taken) - 1
    BY <2>1 DEF TypeOK
  <2>7. \A i \in Slots : filled'[i] <=> Distance(i)' < published' - taken'
    <3> TAKE i \in Slots
    <3>1. CASE i = playIndex
      <4>1. ~filled'[i]
        BY <3>1, <2>1 DEF TypeOK
      <4>2. ~(MaxBuffers - 1 < (published - taken) - 1)
        BY <2>5, ConstantsAssumption
      <4> QED BY <3>1, <4>1, <4>2, <2>3, <2>6
    <3>2. CASE i # playIndex
      <4>1. filled'[i] = filled[i]
        BY <3>2, <2>1 DEF TypeOK
      <4>2. Distance(i) \in Int
        BY DistanceRange DEF Slots
      <4>3. Distance(i) < published - taken <=>
              Distance(i) - 1 < (published - taken) - 1
        BY <4>2, <2>5
      <4> QED BY <3>2, <4>1, <4>3, <2>3, <2>6 DEF RingAligned
    <3> QED BY <3>1, <3>2
  <2>8. \A i \in Slots : filled'[i] => playThisAt'[i] = taken' + Distance(i)'
    <3> TAKE i \in Slots
    <3>1. CASE i = playIndex
      BY <3>1, <2>1 DEF TypeOK
    <3>2. CASE i # playIndex
      <4>1. filled'[i] = filled[i]
        BY <3>2, <2>1 DEF TypeOK
      <4>2. Distance(i) \in Int
        BY DistanceRange DEF Slots
      <4>3. taken + Distance(i) = (taken + 1) + (Distance(i) - 1)
        BY <4>2 DEF TypeOK
      <4> QED BY <3>2, <4>1, <4>3, <2>1, <2>3 DEF RingAligned
    <3> QED BY <3>1, <3>2
  <2>9. Distance(fillIndex)' = IF published' - taken' = MaxBuffers
                                 THEN 0 ELSE published' - taken'
    <3>1. Distance(fillIndex)' = IF fillIndex = playIndex THEN MaxBuffers - 1
                                                       ELSE Distance(fillIndex) - 1
      BY <2>1, <2>3 DEF TypeOK, Distance
    <3>2. fillIndex = playIndex <=> published - taken = MaxBuffers
      BY <2>2, <2>5, DistanceRange, ConstantsAssumption DEF RingAligned, TypeOK
    <3> QED BY <3>1, <3>2, <2>5, <2>6, ConstantsAssumption DEF RingAligned
  <2>10. RingAligned'
    BY <2>5, <2>6, <2>7, <2>8, <2>9, ConstantsAssumption DEF RingAligned
  <2>11. FillerOwnsSlot'
    BY <2>1 DEF FillerOwnsSlot, TypeOK
  <2>12. TakerOwnsSlot'
    BY <2>1, <2>4 DEF TakerOwnsSlot, RingAligned, TypeOK
  <2> QED BY <1>0, <2>10, <2>11, <2>12
<1>4. CASE AdvancePlayIndex
  <2> USE <1>4 DEF AdvancePlayIndex, SStep, DecodeThreadUnchanged
  <2>1. Head' = Head
    BY DEF Head
  <2>2. UNCHANGED <<filled, playThisAt, fillIndex, published, taken, lastTaken, dpc>>
    OBVIOUS
  <2>3. \A i : Distance(i)' = Distance(i)
    BY <2>1 DEF Distance
  <2>4. RingAligned'
    BY <2>2, <2>3 DEF RingAligned
  <2>5. FillerOwnsSlot' /\ TakerOwnsSlot'
    BY <2>2 DEF FillerOwnsSlot, TakerOwnsSlot
  <2> QED BY <1>0, <2>4, <2>5
<1> QED BY <1>1, <1>2, <1>3, <1>4 DEF PlayStep

LEMMA RingInvInductive ==
  ~PublishTwice /\ RingInv /\ [Next]_vars => RingInv'
<1> SUFFICES ASSUME ~PublishTwice, RingInv, [Next]_vars PROVE RingInv'
  OBVIOUS
<1>1. CASE DecodeFrame \/ FillStep \/ SetEof  BY <1>1, FillStepRingInv
<1>2. CASE PlayAt \/ PlayStep \/ OtherPost    BY <1>2, PlayStepRingInv
<1>3. CASE UNCHANGED vars
  BY <1>3 DEF vars, ring, wakeup, history, RingInv, TypeOK, RingAligned,
              Distance, Head, FillerOwnsSlot, TakerOwnsSlot
<1> QED BY <1>1, <1>2, <1>3 DEF Next

(* The flags, the two indexes and the stored frames agree in every state,    *)
(* although each thread changes them in several steps: a ring that flags a   *)
(* slot once never loses, repeats or reorders a frame.                       *)
THEOREM RingStaysAligned ==
  ASSUME ~PublishTwice
  PROVE  Spec => []RingAligned
<1>1. Init => RingInv
  BY InitRingInv
<1>2. RingInv /\ [Next]_vars => RingInv'
  BY RingInvInductive
<1>3. RingInv => RingAligned
  BY DEF RingInv
<1> QED BY <1>1, <1>2, <1>3, PTL DEF Spec

(* The sync thread takes the frames one by one in the order in which they    *)
(* were published.                                                           *)
THEOREM TakenInOrder ==
  ASSUME ~PublishTwice
  PROVE  Spec => FramesTakenInOrder
<1>1. RingInv /\ RingInv' /\ [Next]_vars => [taken' # taken => lastTaken' = taken]_vars
  <2> SUFFICES ASSUME RingInv, RingInv', Next, taken' # taken
               PROVE  lastTaken' = taken
    BY DEF vars
  <2> USE DEF RingInv
  <2>1. FreeSlot
    BY DEF Next, DecodeFrame, FillStep, SetEof, PlayAt, CallPlayAt, PlayStep,
       OtherPost, CheckSlot, SetWaiting, Awake, RecheckSlot, WriteSlot,
       RaiseFlag, TestSlot, TestEof, AdvancePlayIndex,
       PeekNextSlot, Render, ClearSlot, NotifyDecodeThread, PostDecodeSem, history,
       SyncThreadUnchanged
  <2>2. taken' = taken + 1 /\ taken' > 0
    BY <2>1 DEF FreeSlot, TypeOK
  <2> QED BY <2>2 DEF TakerOwnsSlot, TypeOK
<1>2. Spec => []RingInv
  <2>1. RingInv /\ [Next]_vars => RingInv'
    BY RingInvInductive
  <2> QED BY InitRingInv, <2>1, PTL DEF Spec
<1> QED BY <1>1, <1>2, PTL DEF Spec, FramesTakenInOrder

-----------------------------------------------------------------------------
(* That a slot is free while the decode thread writes it does not depend on  *)
(* how often it is flagged afterwards.                                       *)
WriterHasFreeSlot == dpc = "write" => ~filled[fillIndex]

LEMMA WriterHasFreeSlotInductive ==
  TypeOK /\ WriterHasFreeSlot /\ [Next]_vars => WriterHasFreeSlot'
<1> SUFFICES ASSUME TypeOK, WriterHasFreeSlot, [Next]_vars
             PROVE  WriterHasFreeSlot'
  OBVIOUS
<1> USE DEF WriterHasFreeSlot
<1>1. CASE DecodeFrame \/ FillStep \/ SetEof
  BY <1>1 DEF DecodeFrame, FillStep, SetEof, CheckSlot, SetWaiting, Awake,
     RecheckSlot, WriteSlot, RaiseFlag, DStep, ring
<1>2. CASE FreeSlot
  <2>1. filled' = [filled EXCEPT ![playIndex] = FALSE] /\ UNCHANGED <<dpc, fillIndex>>
    BY <1>2 DEF FreeSlot, DecodeThreadUnchanged
  <2> QED BY <2>1 DEF TypeOK
<1>3. CASE \/ PlayAt \/ TestSlot \/ TestEof \/ AdvancePlayIndex \/ PeekNextSlot
           \/ Render \/ ClearSlot \/ NotifyDecodeThread \/ PostDecodeSem \/ OtherPost
  <2>1. UNCHANGED <<filled, fillIndex, dpc>>
    BY <1>3 DEF PlayAt, CallPlayAt, TestSlot, TestEof, AdvancePlayIndex,
       PeekNextSlot, Render, ClearSlot, NotifyDecodeThread, PostDecodeSem, OtherPost,
       DecodeThreadUnchanged, ring
  <2> QED BY <2>1
<1>4. CASE UNCHANGED vars
  BY <1>4 DEF vars, ring
<1> QED BY <1>1, <1>2, <1>3, <1>4 DEF Next, PlayStep

(* No frame is overwritten before it has been taken, in both kinds of ring:  *)
(* the sync thread can free the slot between the test and the store, but     *)
(* nobody can fill it.                                                       *)
THEOREM NotOverwritten == Spec => FramesNotOverwritten
<1>1. Init => WriterHasFreeSlot
  BY DEF Init, WriterHasFreeSlot
<1>2. TypeOK /\ WriterHasFreeSlot /\ [Next]_vars =>
        [\A i \in Slots :
           playThisAt'[i] # playThisAt[i] \/ content'[i] \notin {content[i], NoFrame}
             => ~filled[i]]_vars
  <2> SUFFICES ASSUME TypeOK, WriterHasFreeSlot, Next, NEW i \in Slots,
                      playThisAt'[i] # playThisAt[i] \/ content'[i] \notin {content[i], NoFrame}
               PROVE  ~filled[i]
    BY DEF vars
  <2>0. ~ClearSlot
    BY DEF ClearSlot, TypeOK
  <2>1. WriteSlot
    BY <2>0 DEF Next, DecodeFrame, FillStep, SetEof, PlayAt, CallPlayAt, PlayStep,
       OtherPost, CheckSlot, SetWaiting, Awake, RecheckSlot, FreeSlot,
       RaiseFlag, TestSlot, TestEof, AdvancePlayIndex,
       PeekNextSlot, Render, NotifyDecodeThread, PostDecodeSem, ring,
       DecodeThreadUnchanged
  <2>2. i = fillIndex /\ dpc = "write"
    BY <2>1 DEF WriteSlot, DStep, TypeOK
  <2> QED BY <2>2 DEF WriterHasFreeSlot
<1>3. TypeOK /\ WriterHasFreeSlot /\ [Next]_vars => WriterHasFreeSlot'
  BY WriterHasFreeSlotInductive
<1> QED BY <1>1, <1>2, <1>3, TypeCorrect, PTL DEF Spec, FramesNotOverwritten

-----------------------------------------------------------------------------
(* What the slots hold.  A slot that is rendered is free already; only if    *)
(* the decode thread has been quick enough to store into it meanwhile does   *)
(* it hold anything but the frame that was taken from it, and then it is the *)
(* frame one ring ahead.  That text may be emptied before it is played.      *)
Freed == {"advance", "peek", "render", "clear"}

(* The decode thread has stored a frame into slot i. *)
Claimed(i) == filled[i] \/ (dpc = "increment" /\ fillIndex = i)

Holds(i, frame) == content[i] = frame \/ (overtaken /\ content[i] = NoFrame)

SlotsHoldFrames ==
  /\ \A i \in Slots : filled[i] => Holds(i, playThisAt[i])
  /\ dpc = "increment" => Holds(fillIndex, published)

FreedSlot ==
  spc \in Freed =>
    /\ taken > 0
    /\ spc # "advance" => playIndex = Succ(call.index)
    /\ Claimed(call.index) => overtaken
    /\ spc # "clear" => Holds(call.index, lastTaken)
                        \/ (overtaken /\ content[call.index] = lastTaken + MaxBuffers)

ContentInv == SlotsHoldFrames /\ FreedSlot

(* The slot that was freed last is the last of the ring. *)
LEMMA FreedSlotIsLast ==
  ASSUME TypeOK, TakerOwnsSlot, FreedSlot, spc \in Freed
  PROVE  Head = Succ(call.index) /\ Distance(call.index) = MaxBuffers - 1
<1>1. Head = Succ(call.index)
  BY DEF Head, FreedSlot, Freed
<1>2. call.index \in Slots
  BY DEF TypeOK
<1> QED BY <1>1, <1>2, SuccIsNext, ConstantsAssumption DEF Distance, Slots

(* A frame that is stored there comes one ring after the one taken from it,  *)
(* and leaves one place in the ring.                                         *)
LEMMA StoredOneRingAhead ==
  ASSUME RingInv, FreedSlot, spc \in Freed, fillIndex = call.index, ~filled[fillIndex]
  PROVE  /\ published - taken = MaxBuffers - 1
         /\ published = lastTaken + MaxBuffers
         /\ lastTaken \in Nat
<1>1. published - taken = MaxBuffers - 1
  BY FreedSlotIsLast, FreeFillSlot DEF RingInv
<1>2. taken > 0 /\ lastTaken = taken - 1 /\ taken \in Nat /\ published \in Nat
  BY DEF FreedSlot, RingInv, TakerOwnsSlot, TypeOK
<1> QED BY <1>1, <1>2, ConstantsAssumption

LEMMA FillStepContentInv ==
  ASSUME ~PublishTwice, RingInv, RingInv', ContentInv, DecodeFrame \/ FillStep \/ SetEof
  PROVE  ContentInv'
<1> USE DEF RingInv
<1>1. CASE \/ DecodeFrame \/ CheckSlot \/ SetWaiting \/ Awake \/ RecheckSlot
           \/ SetEof
  <2>1. UNCHANGED <<ring, history, spc, call>> /\ dpc' # "increment"
    BY <1>1 DEF DecodeFrame, CheckSlot, SetWaiting, Awake, RecheckSlot, SetEof, DStep
  <2> QED BY <2>1 DEF ContentInv, SlotsHoldFrames, FreedSlot, Claimed, Holds, ring, history
<1>2. CASE WriteSlot
  <2>1. /\ playThisAt' = [playThisAt EXCEPT ![fillIndex] = published]
        /\ content' = [content EXCEPT ![fillIndex] = published]
        /\ overtaken' = (overtaken \/ OnItsWay(fillIndex))
        /\ UNCHANGED <<filled, fillIndex, published, playIndex, taken, lastTaken, spc, call>>
        /\ dpc = "write"
    BY <1>2 DEF WriteSlot, DStep, SyncThreadUnchanged
  <2>2. fillIndex \in Slots /\ call.index \in Slots /\ ~filled[fillIndex]
    BY <2>1 DEF TypeOK, FillerOwnsSlot
  <2>3. SlotsHoldFrames'
    BY <2>1, <2>2 DEF ContentInv, SlotsHoldFrames, Holds, TypeOK
  <2>4. FreedSlot'
    <3> SUFFICES ASSUME spc \in Freed PROVE FreedSlot'
      BY <2>1 DEF FreedSlot
    <3>1. CASE fillIndex = call.index
      <4>1. overtaken'
        BY <2>1, <3>1 DEF OnItsWay, Freed
      <4>2. content'[call.index] = lastTaken + MaxBuffers
        BY <2>1, <2>2, <3>1, StoredOneRingAhead DEF ContentInv, TypeOK
      <4> QED BY <2>1, <4>1, <4>2 DEF ContentInv, FreedSlot
    <3>2. CASE fillIndex # call.index
      <4>1. content'[call.index] = content[call.index]
        BY <2>1, <2>2, <3>2 DEF TypeOK
      <4>2. Claimed(call.index)' => Claimed(call.index)
        BY <2>1, <3>2 DEF Claimed
      <4> QED BY <2>1, <4>1, <4>2 DEF ContentInv, FreedSlot, Holds
    <3> QED BY <3>1, <3>2
  <2> QED BY <2>3, <2>4 DEF ContentInv
<1>3. CASE RaiseFlag
  <2>1. /\ dpc = "increment" /\ dpc' = "idle"
        /\ filled' = [filled EXCEPT ![fillIndex] = TRUE]
        /\ UNCHANGED <<playThisAt, content, overtaken, playIndex, taken, lastTaken, spc, call>>
    BY <1>3 DEF RaiseFlag, FillerOwnsSlot, SyncThreadUnchanged
  <2>2. playThisAt[fillIndex] = published /\ fillIndex \in Slots /\ call.index \in Slots
    BY <2>1 DEF FillerOwnsSlot, TypeOK
  <2>3. SlotsHoldFrames'
    BY <2>1, <2>2 DEF ContentInv, SlotsHoldFrames, Holds, TypeOK
  <2>4. Claimed(call.index)' => Claimed(call.index)
    BY <2>1, <2>2 DEF Claimed, TypeOK
  <2>5. FreedSlot'
    BY <2>1, <2>4 DEF ContentInv, FreedSlot, Holds
  <2> QED BY <2>3, <2>5 DEF ContentInv
<1> QED BY <1>1, <1>2, <1>3 DEF FillStep

LEMMA PlayStepContentInv ==
  ASSUME RingInv, RingInv', ContentInv, PlayAt \/ PlayStep \/ OtherPost
  PROVE  ContentInv'
<1> USE DEF RingInv
<1>1. CASE \/ PlayAt \/ TestSlot \/ TestEof \/ PeekNextSlot \/ Render
           \/ NotifyDecodeThread \/ PostDecodeSem \/ OtherPost
  <2> USE <1>1 DEF PlayAt, CallPlayAt, TestSlot, TestEof, PeekNextSlot, Render,
                   NotifyDecodeThread, PostDecodeSem, OtherPost, SStep, LoopExit
  <2>1. /\ UNCHANGED <<ring, published, taken, lastTaken, overtaken, dpc>>
        /\ spc' \in Freed => /\ call' = call
                             /\ spc \in Freed \ {"advance", "clear"} \/ spc' = spc
    BY DEF history, Freed
  <2> HIDE <1>1
  <2>2. SlotsHoldFrames'
    BY <2>1 DEF ContentInv, SlotsHoldFrames, Holds, ring
  <2>3. FreedSlot'
    BY <2>1 DEF ContentInv, FreedSlot, Claimed, Holds, ring, Freed
  <2> QED BY <2>2, <2>3 DEF ContentInv
<1>2. CASE FreeSlot
  <2>1. /\ spc = "free" /\ spc' = "advance" /\ filled[playIndex]
        /\ filled' = [filled EXCEPT ![playIndex] = FALSE]
        /\ call'.index = playIndex
        /\ taken' = taken + 1 /\ lastTaken' = playThisAt[playIndex]
        /\ UNCHANGED <<playIndex, playThisAt, content, fillIndex, published, overtaken, dpc>>
    BY <1>2 DEF FreeSlot, SStep, DecodeThreadUnchanged, TakerOwnsSlot, TypeOK
  <2>2. SlotsHoldFrames'
    BY <2>1 DEF ContentInv, SlotsHoldFrames, Holds, TypeOK
  <2>3. Holds(playIndex, playThisAt[playIndex])
    BY <2>1 DEF ContentInv, SlotsHoldFrames, TypeOK
  <2>4. ~Claimed(playIndex)'
    BY <2>1 DEF Claimed, FillerOwnsSlot, TypeOK
  <2>5. taken' > 0
    BY <2>1 DEF TypeOK
  <2>6. FreedSlot'
    BY <2>1, <2>3, <2>4, <2>5 DEF FreedSlot, Holds, Claimed
  <2> QED BY <2>2, <2>6 DEF ContentInv
<1>3. CASE AdvancePlayIndex
  <2>1. /\ spc = "advance" /\ spc' = "peek" /\ playIndex' = Succ(call.index)
        /\ UNCHANGED <<filled, playThisAt, content, fillIndex, published, overtaken,
                       dpc, call, taken, lastTaken>>
    BY <1>3 DEF AdvancePlayIndex, SStep, DecodeThreadUnchanged
  <2>2. SlotsHoldFrames'
    BY <2>1 DEF ContentInv, SlotsHoldFrames, Holds
  <2>3. FreedSlot'
    BY <2>1 DEF ContentInv, FreedSlot, Claimed, Holds, Freed
  <2> QED BY <2>2, <2>3 DEF ContentInv
<1>4. CASE ClearSlot
  <2>1. /\ spc = "clear" /\ spc' = "test"
        /\ content' = [content EXCEPT ![call.index] = NoFrame]
        /\ UNCHANGED <<filled, playThisAt, fillIndex, published, overtaken, dpc>>
    BY <1>4 DEF ClearSlot, SStep, history
  <2>2. Claimed(call.index) => overtaken
    BY <2>1 DEF ContentInv, FreedSlot, Freed
  <2>3. SlotsHoldFrames'
    BY <2>1, <2>2 DEF ContentInv, SlotsHoldFrames, Holds, Claimed, TypeOK
  <2>4. FreedSlot'
    BY <2>1 DEF FreedSlot, Freed
  <2> QED BY <2>3, <2>4 DEF ContentInv
<1> QED BY <1>1, <1>2, <1>3, <1>4 DEF PlayStep

LEMMA InitContentInv == Init => ContentInv
BY DEF Init, ContentInv, SlotsHoldFrames, FreedSlot, Freed

LEMMA ContentInvInductive ==
  ~PublishTwice /\ RingInv /\ RingInv' /\ ContentInv /\ [Next]_vars => ContentInv'
<1> SUFFICES ASSUME ~PublishTwice, RingInv, RingInv', ContentInv, [Next]_vars
             PROVE  ContentInv'
  OBVIOUS
<1>1. CASE DecodeFrame \/ FillStep \/ SetEof  BY <1>1, FillStepContentInv
<1>2. CASE PlayAt \/ PlayStep \/ OtherPost    BY <1>2, PlayStepContentInv
<1>3. CASE UNCHANGED vars
  BY <1>3 DEF vars, ring, history, ContentInv, SlotsHoldFrames, FreedSlot, Claimed, Holds
<1> QED BY <1>1, <1>2, <1>3 DEF Next

-----------------------------------------------------------------------------
(* play_at passes over a frame only because the next one is filled and due;  *)
(* that one cannot be left to an audio resync either, being less late.       *)
NextIsDue ==
  /\ filled[playIndex]
  /\ playThisAt[playIndex] <= call.time
  /\ ~Late(playThisAt[playIndex])

RightOnScreen ==
  \/ shown = lastTaken
  \/ overtaken /\ shown \in {lastTaken + MaxBuffers, NoFrame}

ShownInv ==
  /\ spc \in {"out", "eofTest", "notify", "post", "clear"} => RightOnScreen
  /\ spc = "test" => RightOnScreen \/ NextIsDue
  /\ spc = "free" => NextIsDue
  /\ spc \in {"advance", "peek", "render"} =>
       taken > 0 /\ lastTaken <= call.time /\ ~Late(lastTaken)

(* The decode thread does not take back a frame that is due. *)
LEMMA FillStepShownInv ==
  ASSUME RingInv, RingInv', ShownInv, DecodeFrame \/ FillStep \/ SetEof
  PROVE  ShownInv'
<1> USE DEF RingInv
<1>1. UNCHANGED <<playIndex, spc, call, taken, lastTaken, shown>>
  BY DEF DecodeFrame, FillStep, CheckSlot, SetWaiting, Awake, RecheckSlot,
         WriteSlot, RaiseFlag, SetEof,
         ring, history, SyncThreadUnchanged
<1>4. overtaken => overtaken'
  <2>1. CASE WriteSlot
    <3>1. overtaken' = (overtaken \/ (~PublishTwice /\ OnItsWay(fillIndex)))
      BY <2>1 DEF WriteSlot
    <3> QED BY ONLY <3>1, Zenon
  <2>2. CASE ~WriteSlot
    BY <2>2 DEF DecodeFrame, FillStep, CheckSlot, SetWaiting, Awake, RecheckSlot,
       RaiseFlag, SetEof, history
  <2> QED BY <2>1, <2>2
<1>2. filled[playIndex] => /\ filled'[playIndex]
                           /\ playThisAt'[playIndex] = playThisAt[playIndex]
  <2>1. CASE WriteSlot
    BY <2>1 DEF WriteSlot, DStep, FillerOwnsSlot, TypeOK
  <2>2. CASE RaiseFlag
    BY <2>2 DEF RaiseFlag, DStep, TypeOK
  <2> QED BY <2>1, <2>2 DEF DecodeFrame, FillStep, CheckSlot, SetWaiting, Awake,
                            RecheckSlot, SetEof, ring
<1>3. (NextIsDue => NextIsDue') /\ (RightOnScreen => RightOnScreen')
  BY <1>1, <1>2, <1>4 DEF NextIsDue, Late, RightOnScreen
<1> QED BY <1>1, <1>3 DEF ShownInv, Late

LEMMA PlayStepShownInv ==
  ASSUME RingInv, RingInv', ContentInv, ShownInv, PlayAt \/ PlayStep \/ OtherPost
  PROVE  ShownInv'
<1> USE DEF RingInv, ring, history, SStep, LoopExit
<1>0. playThisAt[playIndex] \in Int /\ call.time \in Int
  BY DEF TypeOK, NoFrame
<1>1. CASE PlayAt
  BY <1>1 DEF PlayAt, CallPlayAt, ShownInv, RightOnScreen
<1>2. CASE TestSlot
  BY <1>2, <1>0 DEF TestSlot, ShownInv, NextIsDue, Late, RightOnScreen
<1>3. CASE TestEof
  BY <1>3 DEF TestEof, ShownInv, RightOnScreen
<1>4. CASE FreeSlot
  <2>1. lastTaken' = playThisAt[playIndex] /\ taken' > 0
    BY <1>4 DEF FreeSlot, TypeOK
  <2>2. /\ call'.time = call.time /\ call'.resync = call.resync
        /\ spc = "free" /\ spc' = "advance"
    BY <1>4 DEF FreeSlot, TypeOK
  <2> QED BY <2>1, <2>2 DEF ShownInv, NextIsDue, Late
<1>5. CASE AdvancePlayIndex
  BY <1>5 DEF AdvancePlayIndex, ShownInv, Late
<1>6. CASE PeekNextSlot
  <2>1. CASE spc' = "render"
    BY <2>1, <1>6 DEF PeekNextSlot, ShownInv, Late
  <2>2. CASE spc' = "test"
    <3>1. filled[playIndex] /\ playThisAt[playIndex] <= call.time
      BY <2>2, <1>6, <1>0 DEF PeekNextSlot
    <3>2. Head = playIndex /\ Distance(playIndex) = 0
      BY <1>6, DistanceRange DEF PeekNextSlot, Head, TypeOK
    <3>3. playThisAt[playIndex] = lastTaken + 1 /\ lastTaken \in Nat
      BY <3>1, <3>2, <1>6 DEF PeekNextSlot, ShownInv, RingAligned, TakerOwnsSlot, TypeOK
    <3>4. ~Late(playThisAt[playIndex])
      BY <3>3, <1>0, <1>6, ConstantsAssumption DEF PeekNextSlot, ShownInv, Late, TypeOK
    <3>5. UNCHANGED <<filled, playThisAt, playIndex, call>>
      BY <1>6 DEF PeekNextSlot
    <3> QED BY <2>2, <3>1, <3>4, <3>5 DEF ShownInv, NextIsDue, Late
  <2> QED BY <2>1, <2>2, <1>6 DEF PeekNextSlot
<1>7. CASE Render
  <2>1. /\ spc = "render" /\ spc' \in {"test", "clear"}
        /\ shown' = content[call.index] /\ UNCHANGED <<lastTaken, overtaken>>
    BY <1>7 DEF Render
  <2>2. RightOnScreen'
    BY <2>1 DEF ContentInv, FreedSlot, Freed, Holds, RightOnScreen
  <2> QED BY <2>1, <2>2 DEF ShownInv
<1>8. CASE NotifyDecodeThread
  BY <1>8 DEF NotifyDecodeThread, ShownInv, RightOnScreen
<1>9. CASE PostDecodeSem
  BY <1>9 DEF PostDecodeSem, ShownInv, RightOnScreen
<1>10. CASE OtherPost
  BY <1>10 DEF OtherPost, ShownInv, NextIsDue, Late, RightOnScreen
<1>11. CASE ClearSlot
  <2>1. spc = "clear" /\ spc' = "test" /\ UNCHANGED <<shown, lastTaken, overtaken>>
    BY <1>11 DEF ClearSlot
  <2> QED BY <2>1 DEF ShownInv, RightOnScreen
<1> QED BY <1>1, <1>2, <1>3, <1>4, <1>5, <1>6, <1>7, <1>8, <1>9, <1>10, <1>11 DEF PlayStep

(* Whenever play_at has returned, the frame on the screen is the one it took *)
(* out of the ring last: skipping never leaves an older picture up, although *)
(* the slot is rendered after it has been freed.  Once the decode thread has *)
(* stored into such a slot before it was rendered or emptied, the screen may *)
(* be exactly one ring ahead, or blank, and never anything else.             *)
THEOREM LatestShown ==
  ASSUME ~PublishTwice
  PROVE  Spec => []LatestTakenIsShown
<1> DEFINE Inv == RingInv /\ ContentInv /\ ShownInv
<1>1. Init => Inv
  <2> SUFFICES ASSUME Init PROVE Inv
    OBVIOUS
  <2> QED BY InitRingInv, InitContentInv DEF Init, ShownInv, RightOnScreen
<1>2. Inv /\ [Next]_vars => Inv'
  <2> SUFFICES ASSUME Inv, [Next]_vars
               PROVE  Inv'
    OBVIOUS
  <2>0. RingInv' /\ ContentInv'
    BY RingInvInductive, ContentInvInductive
  <2>1. CASE DecodeFrame \/ FillStep \/ SetEof  BY <2>0, <2>1, FillStepShownInv
  <2>2. CASE PlayAt \/ PlayStep \/ OtherPost    BY <2>0, <2>2, PlayStepShownInv
  <2>3. CASE UNCHANGED vars
    BY <2>0, <2>3 DEF vars, ring, history, ShownInv, NextIsDue, Late, RightOnScreen
  <2> QED BY <2>1, <2>2, <2>3 DEF Next
<1>3. Inv => LatestTakenIsShown
  BY DEF ShownInv, LatestTakenIsShown, RightOnScreen
<1> QED BY <1>1, <1>2, <1>3, PTL DEF Spec

-----------------------------------------------------------------------------
(* The ring implements the queue of frames. *)

(* The slot of the k-th frame of the ring. *)
LEMMA SlotOfFrame ==
  ASSUME TypeOK, NEW k \in 1 .. MaxBuffers
  PROVE  /\ (Head + k - 1) % MaxBuffers \in Slots
         /\ Distance((Head + k - 1) % MaxBuffers) = k - 1
<1> DEFINE m == MaxBuffers
           h == Head
           s == (h + k - 1) % m
<1>1. m \in Nat \ {0, 1} /\ h \in 0 .. m - 1 /\ k \in 1 .. m
  BY ConstantsAssumption, DistanceRange DEF Slots
<1>2. s = IF h + k - 1 < m THEN h + k - 1 ELSE h + k - 1 - m
  <2> HIDE DEF h, m
  <2> QED BY <1>1, SMTT(30)
<1>3. s \in 0 .. m - 1 /\ (IF s >= h THEN s - h ELSE s - h + m) = k - 1
  <2> HIDE DEF h, m, s
  <2> QED BY <1>1, <1>2
<1> QED BY <1>3 DEF Distance, Slots

(* The ring holds the frames published and not yet taken, oldest first. *)
LEMMA ContentsOfRing ==
  ASSUME RingInv
  PROVE  /\ published \in Nat /\ taken \in Nat /\ published - taken \in 0 .. MaxBuffers
         /\ Contents = [k \in 1 .. published - taken |-> taken + k - 1]
<1> DEFINE n == published - taken
           at(k) == (Head + k - 1) % MaxBuffers
           full == {i \in Slots : filled[i]}
<1>1. /\ published \in Nat /\ taken \in Nat /\ n \in 0 .. MaxBuffers
      /\ MaxBuffers \in Nat
  BY ConstantsAssumption DEF RingInv, RingAligned, TypeOK
<1>2. \A k \in 1 .. n : /\ at(k) \in full /\ Distance(at(k)) = k - 1
                        /\ playThisAt[at(k)] = taken + k - 1
  <2> SUFFICES ASSUME NEW k \in 1 .. n
               PROVE  /\ at(k) \in full /\ Distance(at(k)) = k - 1
                      /\ playThisAt[at(k)] = taken + k - 1
    OBVIOUS
  <2>1. at(k) \in Slots /\ Distance(at(k)) = k - 1
    BY <1>1, SlotOfFrame DEF RingInv
  <2> HIDE DEF at
  <2>2. filled[at(k)]
    BY <1>1, <2>1 DEF RingInv, RingAligned
  <2>3. playThisAt[at(k)] = taken + (k - 1)
    BY <2>1, <2>2 DEF RingInv, RingAligned
  <2> QED BY <1>1, <2>1, <2>2, <2>3
<1>3. \A i \in full : Distance(i) + 1 \in 1 .. n /\ at(Distance(i) + 1) = i
  <2> SUFFICES ASSUME NEW i \in full
               PROVE  Distance(i) + 1 \in 1 .. n /\ at(Distance(i) + 1) = i
    OBVIOUS
  <2>1. i \in Slots /\ filled[i] /\ Distance(i) \in Slots
    BY DistanceRange DEF RingInv
  <2>2. Distance(i) < n
    BY <2>1 DEF RingInv, RingAligned
  <2>3. Distance(i) + 1 \in 1 .. n
    BY <1>1, <2>1, <2>2 DEF Slots
  <2>4. at(Distance(i) + 1) \in Slots /\ Distance(at(Distance(i) + 1)) = Distance(i)
    BY <1>2, <2>3, <2>1 DEF Slots
  <2> HIDE DEF at
  <2> QED BY <2>1, <2>3, <2>4, DistanceRange DEF RingInv
<1>4. Cardinality(full) = n
  <2> DEFINE f == [k \in 1 .. n |-> at(k)]
  <2>1. f \in [1 .. n -> full]
    BY <1>2
  <2>2. \A j, k \in 1 .. n : f[j] = f[k] => j = k
    <3> SUFFICES ASSUME NEW j \in 1 .. n, NEW k \in 1 .. n, at(j) = at(k) PROVE j = k
      OBVIOUS
    <3>1. j - 1 = k - 1
      BY <1>2
    <3> QED BY <1>1, <3>1
  <2>3. \A i \in full : \E k \in 1 .. n : f[k] = i
    BY <1>3
  <2> HIDE DEF f, full, n
  <2>4. f \in Bijection(1 .. n, full)
    BY <2>1, <2>2, <2>3 DEF Bijection, Injection, Surjection, IsInjective
  <2> QED BY <1>1, <2>4, FS_CountingElements DEF ExistsBijection
<1>5. Contents = [k \in 1 .. n |-> taken + k - 1]
  <2>1. Contents = [k \in 1 .. n |-> playThisAt[at(k)]]
    BY <1>4 DEF Contents
  <2> QED BY <1>2, <2>1
<1> QED BY <1>1, <1>5


(* The same, before and after a step. *)
ContentsInOrder ==
  /\ published \in Nat /\ taken \in Nat /\ published - taken \in 0 .. MaxBuffers
  /\ Contents = [k \in 1 .. published - taken |-> taken + k - 1]

LEMMA ContentsOfRingInOrder ==
  /\ RingInv => ContentsInOrder
  /\ RingInv' => ContentsInOrder'
<1>1. RingInv => ContentsInOrder
  BY ContentsOfRing DEF ContentsInOrder
<1>2. RingInv' => ContentsInOrder'
  BY <1>1, PTL
<1> QED BY <1>1, <1>2

(* A step that neither publishes nor takes leaves the contents of the ring alone. *)
LEMMA SameContents ==
  ASSUME RingInv, RingInv', published' = published, taken' = taken
  PROVE  Contents' = Contents
<1>1. Contents = [k \in 1 .. published - taken |-> taken + k - 1]
  BY ContentsOfRingInOrder DEF ContentsInOrder
<1>2. Contents' = [k \in 1 .. published' - taken' |-> taken' + k - 1]
  BY ContentsOfRingInOrder DEF ContentsInOrder
<1>3. Contents' = [k \in 1 .. published - taken |-> taken + k - 1]
  BY ONLY <1>2, published' = published, taken' = taken, Zenon
<1> QED BY <1>1, <1>3

QueueSteps == INSTANCE FrameQueueProofs WITH
  Capacity <- MaxBuffers, queue <- Contents, put <- published,
  last <- lastTaken, screen <- shown

(* The second half of the decode thread's hand-over puts a frame into the queue. *)
LEMMA FrameIsPut ==
  ASSUME ~PublishTwice, RingInv, RingInv', RaiseFlag
  PROVE  Queue!Put
<1> DEFINE n == published - taken
<1>1. published' = published + 1 /\ UNCHANGED <<taken, lastTaken, shown, overtaken>>
  BY DEF RaiseFlag, SyncThreadUnchanged, RingInv, FillerOwnsSlot
<1>2. /\ published \in Nat /\ taken \in Nat /\ n \in Nat
      /\ Contents = [k \in 1 .. n |-> taken + k - 1]
  BY ContentsOfRing
<1>3. /\ published' - taken' \in 0 .. MaxBuffers
      /\ Contents' = [k \in 1 .. published' - taken' |-> taken' + k - 1]
  BY ContentsOfRingInOrder DEF ContentsInOrder
<1>4. published' - taken' = n + 1 /\ published = taken + n /\ n < MaxBuffers
  BY <1>1, <1>2, <1>3, ConstantsAssumption
<1>5. Contents' = [k \in 1 .. n + 1 |-> taken + k - 1]
  BY <1>1, <1>3, <1>4
<1> HIDE DEF n
<1>6. QueueSteps!Put
  BY <1>1, <1>2, <1>4, <1>5, QueueSteps!WindowPut DEF QueueSteps!Window
<1> QED BY <1>6 DEF QueueSteps!Put, Queue!Put

(* The first half of increment_play_index takes the oldest frame out of it. *)
LEMMA FrameIsTaken ==
  ASSUME RingInv, RingInv', FreeSlot
  PROVE  Queue!Take
<1> DEFINE n == published - taken - 1
<1>1. taken' = taken + 1 /\ UNCHANGED <<published, shown, overtaken>>
  BY DEF FreeSlot, DecodeThreadUnchanged
<1>2. /\ published \in Nat /\ taken \in Nat
      /\ Contents = [k \in 1 .. published - taken |-> taken + k - 1]
  BY ContentsOfRingInOrder DEF ContentsInOrder
<1>3. /\ published' - taken' \in Nat
      /\ Contents' = [k \in 1 .. published' - taken' |-> taken' + k - 1]
  BY ContentsOfRingInOrder DEF ContentsInOrder
<1>4. published' - taken' = n /\ published - taken = n + 1 /\ n \in Nat
  BY <1>1, <1>2, <1>3
<1>5. lastTaken' = taken
  BY <1>1, <1>2 DEF RingInv, TakerOwnsSlot
<1> HIDE DEF n
<1>6. /\ Contents = [k \in 1 .. n + 1 |-> taken + k - 1]
      /\ Contents' = [k \in 1 .. n |-> taken + 1 + k - 1]
  BY <1>1, <1>2, <1>3, <1>4
<1>7. QueueSteps!Take
  BY <1>1, <1>2, <1>4, <1>5, <1>6, QueueSteps!WindowTaken DEF QueueSteps!Window
<1> QED BY <1>7 DEF QueueSteps!Take, Queue!Take

(* A frame stored into the slot that is being rendered. *)
LEMMA FrameIsOvertaken ==
  ASSUME ~PublishTwice, RingInv, RingInv', ContentInv, WriteSlot, overtaken' # overtaken
  PROVE  Queue!Overtake
<1>1. /\ dpc = "write" /\ OnItsWay(fillIndex) /\ overtaken' = TRUE
      /\ UNCHANGED <<published, taken, lastTaken, shown>>
  BY DEF WriteSlot, DStep, SyncThreadUnchanged, RingInv, TypeOK
<1>2. spc \in Freed /\ fillIndex = call.index /\ ~filled[fillIndex] /\ FreedSlot
  BY <1>1 DEF OnItsWay, Freed, RingInv, FillerOwnsSlot, ContentInv
<1>3. published - taken = MaxBuffers - 1 /\ lastTaken \in Nat
  BY <1>2, StoredOneRingAhead
<1>4. Contents = QueueSteps!Window(taken, MaxBuffers - 1) /\ taken \in Nat
  BY <1>3, ContentsOfRing DEF QueueSteps!Window
<1>5. Contents' = Contents
  BY <1>1, SameContents
<1>6. MaxBuffers \in Nat \ {0} /\ lastTaken # NoFrame
  BY <1>3, ConstantsAssumption DEF NoFrame
<1>7. QueueSteps!Overtake
  BY <1>1, <1>4, <1>5, <1>6, QueueSteps!WindowOvertaken
<1> QED BY <1>7 DEF QueueSteps!Overtake, Queue!Overtake

(* What is rendered is the frame taken last, or what has been stored since.   *)
LEMMA FrameIsShown ==
  ASSUME RingInv, RingInv', ContentInv, Render
  PROVE  Queue!Show
<1>1. /\ spc = "render" /\ shown' = content[call.index]
      /\ UNCHANGED <<published, taken, lastTaken, overtaken>>
  BY DEF Render, SStep
<1>2. Contents' = Contents
  BY <1>1, SameContents
<1>3. shown' = lastTaken \/ (overtaken /\ shown' \in {lastTaken + MaxBuffers, NoFrame})
  BY <1>1 DEF ContentInv, FreedSlot, Freed, Holds
<1> QED BY <1>1, <1>2, <1>3 DEF Queue!Show

(* No other step can be told from outside.                                    *)
LEMMA OtherStepsOfRing ==
  ASSUME Next \/ UNCHANGED vars, ~RaiseFlag, ~FreeSlot, ~Render
  PROVE  /\ UNCHANGED <<published, taken, lastTaken, shown>>
         /\ overtaken' = overtaken \/ WriteSlot
<1> USE DEF history, SyncThreadUnchanged, DecodeThreadUnchanged
<1>1. CASE DecodeFrame   BY <1>1 DEF DecodeFrame
<1>2. CASE FillStep
  BY <1>2 DEF FillStep, CheckSlot, SetWaiting, Awake, RecheckSlot, WriteSlot
<1>3. CASE SetEof        BY <1>3 DEF SetEof
<1>4. CASE PlayAt        BY <1>4 DEF PlayAt, CallPlayAt
<1>5. CASE PlayStep
  BY <1>5 DEF PlayStep, TestSlot, TestEof, AdvancePlayIndex, PeekNextSlot, ClearSlot,
              NotifyDecodeThread, PostDecodeSem
<1>6. CASE OtherPost     BY <1>6 DEF OtherPost
<1>7. CASE UNCHANGED vars BY <1>7 DEF vars
<1> QED BY <1>1, <1>2, <1>3, <1>4, <1>5, <1>6, <1>7 DEF Next

(* A step of the two threads is a step of the queue of frames, or none. *)
LEMMA RingStepIsQueueStep ==
  ASSUME ~PublishTwice, RingInv, RingInv', ContentInv, [Next]_vars
  PROVE  [Queue!Next]_(Queue!vars)
<1>1. CASE RaiseFlag  BY <1>1, FrameIsPut DEF Queue!Next
<1>2. CASE FreeSlot   BY <1>2, FrameIsTaken DEF Queue!Next
<1>3. CASE Render     BY <1>3, FrameIsShown DEF Queue!Next
<1>4. CASE ~RaiseFlag /\ ~FreeSlot /\ ~Render
  <2>1. /\ UNCHANGED <<published, taken, lastTaken, shown>>
        /\ overtaken' = overtaken \/ WriteSlot
    BY <1>4, OtherStepsOfRing
  <2>2. CASE overtaken' = overtaken
    <3>1. Contents' = Contents
      BY <2>1, SameContents
    <3> QED BY <2>1, <2>2, <3>1 DEF Queue!vars
  <2>3. CASE overtaken' # overtaken
    BY <2>1, <2>3, FrameIsOvertaken DEF Queue!Next
  <2> QED BY <2>2, <2>3
<1> QED BY <1>1, <1>2, <1>3, <1>4

LEMMA EmptyRingIsEmptyQueue == Init => Queue!Init
<1> SUFFICES ASSUME Init PROVE Queue!Init
  OBVIOUS
<1>1. Contents = [k \in 1 .. published - taken |-> taken + k - 1]
  BY InitRingInv, ContentsOfRingInOrder DEF ContentsInOrder
<1>2. published = 0 /\ taken = 0 /\ lastTaken = NoFrame /\ shown = NoFrame /\ overtaken = FALSE
  BY DEF Init
<1>3. Contents = [k \in 1 .. 0 |-> 0 + k - 1]
  BY <1>1, <1>2
<1>4. Contents = << >>
  BY <1>3, QueueSteps!EmptyWindow DEF QueueSteps!Window
<1> QED BY <1>2, <1>4 DEF Queue!Init

(* The ring of CTimedSync is the bounded first-in first-out queue of frames   *)
(* that decoder and screen count on, although increment_play_index frees a    *)
(* slot before it moves the index and the two threads take no lock, as long   *)
(* as a slot is flagged once.  What the queue does not promise, that a frame  *)
(* keeps its place until it has been rendered, is its step Overtake.          *)
THEOREM RingIsQueue ==
  ASSUME ~PublishTwice
  PROVE  Spec => ImplementsFrameQueue
<1> DEFINE Inv == RingInv /\ ContentInv
<1>1. Init => Inv
  BY InitRingInv, InitContentInv
<1>2. Inv /\ [Next]_vars => Inv'
  BY RingInvInductive, ContentInvInductive
<1>3. Init => Queue!Init
  BY EmptyRingIsEmptyQueue
<1>4. Inv /\ Inv' /\ [Next]_vars => [Queue!Next]_(Queue!vars)
  BY RingStepIsQueueStep
<1> QED BY <1>1, <1>2, <1>3, <1>4, PTL DEF Spec, ImplementsFrameQueue, Queue!Spec
=============================================================================
