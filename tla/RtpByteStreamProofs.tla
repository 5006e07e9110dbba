------------------------- MODULE RtpByteStreamProofs -------------------------
(***************************************************************************)
(* Proofs about the RTP byte stream, for every stream, every modulus of    *)
(* the sequence numbers and time stamps, every delay, loss and repetition  *)
(* of packets and any number of pauses.                                    *)
(***************************************************************************)
EXTENDS RtpByteStream, SequenceTheorems, WellFoundedInduction, TLAPS

-----------------------------------------------------------------------------
(* Numbers and lists. *)

LEMMA StreamsTyped ==
  ASSUME TypeOK
  PROVE  /\ stream.packets \subseteq Packets
         /\ stream.seq \in Nat /\ stream.jump \in Nat /\ stream.bufferTime \in Nat
         /\ stream.reorder \in Nat /\ stream.pauses \in Nat
BY NumbersAssumption DEF TypeOK, StreamType

LEMMA ModRange ==
  ASSUME NEW a \in Int, NEW m \in Nat \ {0}
  PROVE  a % m \in 0 .. m - 1
OBVIOUS

LEMMA NumbersOfPacket ==
  ASSUME TypeOK, NEW p \in Packets
  PROVE  /\ Place[p] \in Nat /\ FrameNo[p] \in Nat
         /\ SeqNum(p) \in 0 .. SeqMod - 1
         /\ TimeStamp(p) \in Nat
<1>1. Place[p] \in Nat /\ FrameNo[p] \in Nat
  BY PacketsAssumption
<1>2. (stream.seq + Place[p]) % SeqMod \in 0 .. SeqMod - 1
  <2>1. stream.seq + Place[p] \in Int /\ SeqMod \in Nat \ {0}
    BY <1>1, StreamsTyped, NumbersAssumption
  <2> QED BY <2>1, ModRange
<1> DEFINE jump == IF FrameNo[p] >= stream.jump THEN JumpSize ELSE 0
<1>3. BaseTs + FrameNo[p] + jump \in Int
  BY <1>1, NumbersAssumption
<1> HIDE DEF jump
<1>4. (BaseTs + FrameNo[p] + jump) % TsMod \in 0 .. TsMod - 1
  BY <1>3, NumbersAssumption, ModRange
<1>5. TimeStamp(p) = (BaseTs + FrameNo[p] + jump) % TsMod
  BY Zenon DEF TimeStamp, jump
<1> QED BY <1>1, <1>2, <1>4, <1>5, NumbersAssumption DEF SeqNum

LEMMA LeastNumber ==
  ASSUME NEW T \in SUBSET Nat, T # {}
  PROVE  \E k \in T : \A j \in T : k <= j
<1> DEFINE less == {ss \in Nat \X Nat : ss[1] < ss[2]}
<1>1. IsWellFoundedOn(less, Nat)
  BY NatLessThanWellFounded DEF OpToRel
<1>2. PICK k \in T : \A j \in T : <<j, k>> \notin less
  BY <1>1, WFMin
<1>3. ASSUME NEW j \in T  PROVE k <= j
  <2>1. j \in Nat /\ k \in Nat
    OBVIOUS
  <2>2. ~(j < k)
    BY <1>2, <2>1
  <2> QED BY <2>1, <2>2
<1> QED BY <1>3

LEMMA HeadOfList ==
  ASSUME NEW q \in Seq(Packets), q # << >>
  PROVE  /\ Head(q) \in Packets /\ Head(q) \in Elements(q)
         /\ Len(q) \in Nat \ {0} /\ q[Len(q)] \in Packets
BY DEF Elements

LEMMA InsertAtKeeps ==
  ASSUME NEW q \in Seq(Packets), NEW p \in Packets, NEW i \in 1 .. Len(q) + 1
  PROVE  /\ InsertAt(q, i, p) \in Seq(Packets)
         /\ InsertAt(q, i, p) # << >>
         /\ Elements(q) \subseteq Elements(InsertAt(q, i, p))
<1> DEFINE r == InsertAt(q, i, p)
<1>1. /\ Len(q) \in Nat /\ DOMAIN q = 1 .. Len(q)
      /\ \A j \in 1 .. Len(q) : q[j] \in Packets
  OBVIOUS
<1>2. /\ DOMAIN r = 1 .. Len(q) + 1
      /\ \A j \in 1 .. Len(q) + 1 :
           r[j] = IF j < i THEN q[j] ELSE IF j = i THEN p ELSE q[j - 1]
  BY DEF InsertAt
<1>3. r \in [1 .. Len(q) + 1 -> Packets]
  BY <1>1, <1>2 DEF InsertAt
<1>4. r \in Seq(Packets) /\ Len(r) = Len(q) + 1
  BY <1>1, <1>3
<1>5. ASSUME NEW j \in 1 .. Len(q)
      PROVE  q[j] \in Elements(r)
  <2>1. CASE j < i
    BY <2>1, <1>1, <1>2 DEF Elements
  <2>2. CASE j >= i
    <3>1. j + 1 \in DOMAIN r /\ r[j + 1] = q[j]
      BY <2>2, <1>1, <1>2
    <3> QED BY <3>1 DEF Elements
  <2> QED BY <2>1, <2>2, <1>1
<1> QED BY <1>1, <1>4, <1>5 DEF Elements

(* add_rtp_packet_to_queue loses no packet, and leaves a list that is not empty. *)
LEMMA InsertKeeps ==
  ASSUME NEW q \in Seq(Packets), NEW p \in Packets, ~Endless(q, p)
  PROVE  /\ Insert(q, p) \in Seq(Packets)
         /\ Insert(q, p) # << >>
         /\ Elements(q) \subseteq Elements(Insert(q, p))
<1>1. CASE q = << >>
  BY <1>1 DEF Insert, Elements
<1>2. CASE q # << >> /\ Duplicate(q, p)
  BY <1>2 DEF Insert
<1>3. CASE q # << >> /\ ~Duplicate(q, p) /\ InMiddle(q, p)
  <2> DEFINE i == CHOOSE k \in Later(q, p) : \A j \in Later(q, p) : k <= j
  <2>1. Later(q, p) # {} /\ Later(q, p) \subseteq 2 .. Len(q)
    BY <1>3 DEF Endless, Later
  <2>2. \E k \in Later(q, p) : \A j \in Later(q, p) : k <= j
    <3>1. Later(q, p) \subseteq Nat
      BY <2>1
    <3> QED BY <2>1, <3>1, LeastNumber
  <2>3. i \in 1 .. Len(q) + 1
    BY <2>1, <2>2
  <2>4. Insert(q, p) = InsertAt(q, i, p)
    BY <1>3 DEF Insert
  <2> QED BY <2>3, <2>4, InsertAtKeeps
<1>4. CASE q # << >> /\ ~Duplicate(q, p) /\ ~InMiddle(q, p)
  <2>1. Insert(q, p) \in {Append(q, p), InsertAt(q, 1, p)}
    BY <1>4 DEF Insert
  <2>2. /\ Append(q, p) \in Seq(Packets) /\ Append(q, p) # << >>
        /\ Elements(q) \subseteq Elements(Append(q, p))
    <3>1. /\ DOMAIN q = 1 .. Len(q) /\ DOMAIN Append(q, p) = 1 .. Len(q) + 1
          /\ \A j \in 1 .. Len(q) : Append(q, p)[j] = q[j]
          /\ Len(q) \in Nat
      OBVIOUS
    <3>2. Append(q, p) \in Seq(Packets) /\ Len(Append(q, p)) = Len(q) + 1
      OBVIOUS
    <3>3. Append(q, p) # << >>
      BY <3>1, <3>2
    <3> QED BY <3>1, <3>2, <3>3 DEF Elements
  <2>3. 1 \in 1 .. Len(q) + 1
    OBVIOUS
  <2>4. CASE Insert(q, p) = Append(q, p)
    BY <2>2, <2>4
  <2>5. CASE Insert(q, p) = InsertAt(q, 1, p)
    BY <2>3, <2>5, InsertAtKeeps
  <2> QED BY <2>1, <2>4, <2>5
<1> QED BY <1>1, <1>2, <1>3, <1>4

(* remove_packet_rtp_queue takes out that packet only. *)
LEMMA WithoutKeeps ==
  ASSUME NEW q \in Seq(Packets), NEW p \in Elements(q)
  PROVE  /\ Without(q, p) \in Seq(Packets)
         /\ Elements(q) \ {p} \subseteq Elements(Without(q, p))
<1> DEFINE i == CHOOSE k \in DOMAIN q : q[k] = p
           r == Without(q, p)
<1>1. /\ Len(q) \in Nat /\ DOMAIN q = 1 .. Len(q)
      /\ \A j \in 1 .. Len(q) : q[j] \in Packets
  OBVIOUS
<1>2. i \in 1 .. Len(q) /\ q[i] = p
  BY <1>1 DEF Elements
<1> HIDE DEF i
<1>3. /\ DOMAIN r = 1 .. Len(q) - 1
      /\ \A j \in 1 .. Len(q) - 1 : r[j] = IF j < i THEN q[j] ELSE q[j + 1]
  BY DEF Without, i
<1>4. r \in [1 .. Len(q) - 1 -> Packets]
  <2>1. r = [j \in 1 .. Len(q) - 1 |-> r[j]]
    BY <1>3 DEF Without
  <2>2. \A j \in 1 .. Len(q) - 1 : r[j] \in Packets
    BY <1>1, <1>2, <1>3
  <2> QED BY <2>1, <2>2
<1>5. r \in Seq(Packets)
  BY <1>1, <1>2, <1>4
<1>6. ASSUME NEW j \in 1 .. Len(q), q[j] # p
      PROVE  q[j] \in Elements(r)
  <2>1. CASE j < i
    <3>1. j \in DOMAIN r /\ r[j] = q[j]
      BY <2>1, <1>1, <1>2, <1>3
    <3> QED BY <3>1 DEF Elements
  <2>2. CASE j > i
    <3>1. j - 1 \in DOMAIN r /\ r[j - 1] = q[j]
      BY <2>2, <1>1, <1>2, <1>3
    <3> QED BY <3>1 DEF Elements
  <2> QED BY <2>1, <2>2, <1>1, <1>2, <1>6
<1> QED BY <1>1, <1>5, <1>6 DEF Elements

-----------------------------------------------------------------------------
(* Types. *)

(* The receive thread holds a packet from its arrival to its place in the list. *)
ReceiverHasPacket ==
  recv.pc \in {"flush", "unlink", "add", "loop"} => recv.pak \in Packets

Types == TypeOK /\ ReceiverHasPacket

(* What the receive thread and the byte stream do to their members keeps the types. *)
LEMMA MemberTypes ==
  ASSUME NEW b \in StreamBase, NEW m \in Media
  PROVE  /\ ResetStream(b) \in StreamBase
         /\ FlushedStream(b) \in StreamBase
         /\ AfterPeriod(b) \in StreamBase
         /\ \A ts \in Nat : Clock(b, ts) \in StreamBase
         /\ Primed(m) \in Media
         /\ TakeRtpMessage(m) \in Media
<1>1. ResetStream(b) \in StreamBase
  BY DEF ResetStream, StreamBase
<1>2. FlushedStream(b) \in StreamBase
  BY DEF FlushedStream, StreamBase
<1>3. AfterPeriod(b) \in StreamBase
  <2>1. b.silence # None => b.silence \in Nat /\ b.silence + 1 \in Nat
    BY DEF StreamBase
  <2>2. /\ [b EXCEPT !.recvd = FALSE, !.silence = None] \in StreamBase
        /\ [b EXCEPT !.silence = 0] \in StreamBase
        /\ [b EXCEPT !.eof = TRUE] \in StreamBase
        /\ b.silence # None => [b EXCEPT !.silence = @ + 1] \in StreamBase
    BY <2>1 DEF StreamBase
  <2> QED BY <2>2 DEF AfterPeriod
<1>4. ASSUME NEW ts \in Nat  PROVE Clock(b, ts) \in StreamBase
  <2> DEFINE w == IF TopBit(b.lastTs) /\ ~TopBit(ts) THEN b.wraps + 1 ELSE b.wraps
             ticks == w * TsMod + ts
             time == IF b.base > ticks THEN 0 ELSE ticks - b.base
  <2>1. w \in Nat
    <3>1. b.wraps \in Nat /\ b.wraps + 1 \in Nat
      BY DEF StreamBase
    <3> QED BY <3>1, Zenon
  <2> HIDE DEF w
  <2>2. ticks \in Nat
    BY <2>1, NumbersAssumption
  <2> HIDE DEF ticks
  <2>3. time \in Nat
    BY <2>2 DEF StreamBase
  <2>4. Clock(b, ts) = [b EXCEPT !.wraps = w, !.lastTs = ts, !.realtime = time]
    BY DEF Clock, w, ticks
  <2> HIDE DEF time
  <2> QED BY <2>1, <2>3, <2>4 DEF StreamBase
<1>5. Primed(m) \in Media
  <2>1. m.sem + 1 \in Nat
    BY DEF Media
  <2> QED BY <2>1 DEF Primed, Media
<1>6. TakeRtpMessage(m) \in Media
  <2>1. m.rtpMsgs # 0 => m.rtpMsgs - 1 \in Nat
    BY DEF Media
  <2> QED BY <2>1 DEF TakeRtpMessage, Media
<1> QED BY <1>1, <1>2, <1>3, <1>4, <1>5, <1>6

(* The updates of dec, with names for the numbers and the empty sequence. *)
LEMMA DecoderUpdates ==
  ASSUME NEW d \in Decoder, NEW pc \in DecodePC, NEW k \in Packets \cup {NoPacket},
         NEW f \in Seq(Packets), NEW b \in BOOLEAN, NEW n \in 0 .. 2
  PROVE  /\ [d EXCEPT !.pc = pc, !.frame = f] \in Decoder
         /\ [d EXCEPT !.pc = pc, !.frame = f, !.skips = n] \in Decoder
         /\ [d EXCEPT !.pc = pc, !.frame = f, !.seen = b, !.skips = n] \in Decoder
         /\ [d EXCEPT !.pc = pc, !.frame = f, !.pak = k, !.skips = n] \in Decoder
         /\ [d EXCEPT !.pc = pc, !.pak = k, !.skips = n] \in Decoder
BY DEF Decoder

(* Where the receive thread looks at the ends of the list. *)
LookPC == {"mark", "head", "tail", "base", "next", "prime"}

LEMMA EndPointers ==
  ASSUME NEW q \in Seq(Packets)
  PROVE  /\ HeadPointer(q) \in Packets \cup {NoPacket}
         /\ TailPointer(q) \in Packets \cup {NoPacket}
         /\ q # << >> => HeadPointer(q) \in Elements(q) /\ TailPointer(q) \in Elements(q)
<1>1. q # << >> => q[Len(q)] \in Elements(q)
  <2>1. q # << >> => Len(q) \in DOMAIN q
    OBVIOUS
  <2> QED BY <2>1 DEF Elements
<1> QED BY <1>1, HeadOfList DEF HeadPointer, TailPointer

LEMMA LoadedTypes ==
  ASSUME TypeOK, NEW to \in RecvPC, NEW p \in Packets \cup {NoPacket}
  PROVE  /\ Loaded(to, p) \in Receiver
         /\ Loaded(to, p).pc = to /\ Loaded(to, p).look = p /\ Loaded(to, p).pak = recv.pak
<1> DEFINE zero == 0
<1>1. recv \in Receiver /\ zero \in Nat
  BY DEF TypeOK
<1>2. Loaded(to, p) = [recv EXCEPT !.pc = to, !.look = p, !.headTs = zero]
  BY DEF Loaded
<1> HIDE DEF zero
<1> QED BY <1>1, <1>2 DEF Receiver

(* What a look at the ends of the list does to the receive thread: it stays    *)
(* where it is and the program crashes, or it goes on with another pointer.    *)
LEMMA LookMoves ==
  ASSUME TypeOK, LookAtEnds \/ DecideBuffering \/ PrimeDecoder
  PROVE  /\ recv.pc \in LookPC
         /\ recv' \in Receiver /\ recv'.pak = recv.pak
         /\ \/ /\ recv' = recv /\ crash' = "look" /\ recv.look \notin Elements(queue)
               /\ UNCHANGED <<media, bs, ghost>>
            \/ /\ crash' = crash
               /\ recv'.pc = "head" => recv.pc = "mark"
               /\ recv'.pc = "tail" => recv.pc = "head"
               /\ recv'.pc = "base" => recv.pc = "tail"
               /\ recv'.pc = "next" => recv.pc = "base"
               /\ recv'.pc = "tell" => recv.pc = "next" /\ bs.buffering
               /\ recv'.pc \in {"head", "tail", "base", "next", "tell", "periodic"}
               /\ recv'.pc \in {"head", "base", "next"} => recv'.look = HeadPointer(queue)
               /\ recv'.pc = "tail" => recv'.look = TailPointer(queue)
         /\ UNCHANGED <<stream, arrived, queue, dec, ctl>>
         /\ recv.pc # "prime" => media' = media
         /\ recv.pc # "base" => bs' = bs /\ ghost' = ghost
         /\ LookAtEnds => recv.pc \in {"mark", "head", "tail", "next"}
         /\ DecideBuffering => recv.pc = "base"
         /\ PrimeDecoder => recv.pc = "prime"
<1> DEFINE hp == HeadPointer(queue)
           tp == TailPointer(queue)
           ts == TimeStamp(recv.look)
<1>0. recv \in Receiver /\ queue \in Seq(Packets)
  BY DEF TypeOK
<1>1. hp \in Packets \cup {NoPacket} /\ tp \in Packets \cup {NoPacket}
  BY <1>0, EndPointers
<1>2. recv.look \in Elements(queue) => ts \in Nat
  <2>1. recv.look \in Elements(queue) => recv.look \in Packets
    BY <1>0 DEF Elements
  <2> QED BY <2>1, NumbersOfPacket
<1>3. {"head", "tail", "base", "next", "tell", "periodic"} \subseteq RecvPC
  BY DEF RecvPC
<1>a. /\ LookAtEnds => recv.pc \in {"mark", "head", "tail", "next"}
      /\ DecideBuffering => recv.pc = "base"
      /\ PrimeDecoder => recv.pc = "prime"
  BY DEF LookAtEnds, DecideBuffering, PrimeDecoder, Follow
<1>4. CASE LookAtEnds
  <2>0. UNCHANGED <<stream, arrived, queue, bs, media, dec, ctl, ghost>>
    BY <1>4 DEF LookAtEnds
  <2>a. /\ recv.pc \in {"mark", "head", "tail", "next"}
        /\ \/ recv' = recv /\ crash' = "look" /\ recv.look \notin Elements(queue)
           \/ crash' = crash /\ recv.look \in Elements(queue)
    BY <1>4 DEF LookAtEnds, Follow
  <2>1. CASE recv.look \notin Elements(queue)
    BY <2>0, <2>a, <2>1, <1>0, <1>a DEF LookPC
  <2>2. CASE recv.look \in Elements(queue)
    <3>1. \/ recv.pc = "mark" /\ recv' \in {Loaded("head", hp), Loaded("periodic", NoPacket)}
          \/ recv.pc = "head" /\ recv' = [Loaded("tail", tp) EXCEPT !.headTs = ts]
          \/ recv.pc = "tail" /\ recv' \in {Loaded("base", hp), Loaded("periodic", NoPacket)}
          \/ /\ recv.pc = "next"
             /\ \/ bs.buffering /\ recv' = Loaded("tell", NoPacket)
                \/ recv' = Loaded("periodic", NoPacket)
      <4> HIDE DEF hp, tp, ts
      <4> QED BY <1>4, <2>2, Zenon DEF LookAtEnds, Follow, hp, tp, ts
    <3> HIDE DEF hp, tp, ts
    <3>2. CASE recv.pc = "mark"
      <4>1. recv' \in {Loaded("head", hp), Loaded("periodic", NoPacket)}
        BY <3>1, <3>2
      <4>2. /\ recv' \in Receiver /\ recv'.pak = recv.pak
            /\ \/ recv'.pc = "head" /\ recv'.look = hp
               \/ recv'.pc = "periodic"
        <5>1. "head" \in RecvPC /\ "base" \in RecvPC /\ "periodic" \in RecvPC
          BY <1>3
        <5> QED BY <4>1, <5>1, <1>1, LoadedTypes
      <4> QED BY <2>0, <2>a, <2>2, <3>2, <4>2, <1>a DEF LookPC, hp
    <3>3. CASE recv.pc = "head"
      <4>1. recv' = [Loaded("tail", tp) EXCEPT !.headTs = ts]
        BY <3>1, <3>3
      <4>3. ts \in Nat
        BY <1>2, <2>2
      <4>4. recv' \in Receiver /\ recv'.pak = recv.pak /\ recv'.pc = "tail" /\ recv'.look = tp
        <5> DEFINE l == Loaded("tail", tp)
        <5>1. "tail" \in RecvPC
          BY <1>3
        <5>2. l \in Receiver /\ l.pc = "tail" /\ l.look = tp /\ l.pak = recv.pak
          BY <1>1, <5>1, LoadedTypes
        <5> HIDE DEF l
        <5>3. recv' = [l EXCEPT !.headTs = ts]
          BY <4>1 DEF l
        <5> QED BY <4>3, <5>2, <5>3 DEF Receiver
      <4> QED BY <2>0, <2>a, <2>2, <3>3, <4>4, <1>a DEF LookPC, tp
    <3>4. CASE recv.pc = "tail"
      <4>1. recv' \in {Loaded("base", hp), Loaded("periodic", NoPacket)}
        BY <3>1, <3>4
      <4>2. /\ recv' \in Receiver /\ recv'.pak = recv.pak
            /\ \/ recv'.pc = "base" /\ recv'.look = hp
               \/ recv'.pc = "periodic"
        <5>1. "head" \in RecvPC /\ "base" \in RecvPC /\ "periodic" \in RecvPC
          BY <1>3
        <5> QED BY <4>1, <5>1, <1>1, LoadedTypes
      <4> QED BY <2>0, <2>a, <2>2, <3>4, <4>2, <1>a DEF LookPC, hp
    <3>5. CASE recv.pc = "next"
      <4>1. \/ bs.buffering /\ recv' = Loaded("tell", NoPacket)
            \/ recv' = Loaded("periodic", NoPacket)
        BY <3>1, <3>5
      <4>2. /\ recv' \in Receiver /\ recv'.pak = recv.pak
            /\ \/ recv'.pc = "tell" /\ bs.buffering
               \/ recv'.pc = "periodic"
        <5>1. "tell" \in RecvPC /\ "periodic" \in RecvPC
          BY <1>3
        <5> QED BY <4>1, <5>1, LoadedTypes
      <4> QED BY <2>0, <2>a, <2>2, <3>5, <4>2, <1>a DEF LookPC
    <3> QED BY <2>a, <3>2, <3>3, <3>4, <3>5
  <2> QED BY <2>1, <2>2
<1>5. CASE DecideBuffering
  <2>1. /\ UNCHANGED <<stream, arrived, queue, media, dec, ctl>> /\ recv.pc = "base"
        /\ \/ /\ recv' = recv /\ crash' = "look" /\ recv.look \notin Elements(queue)
              /\ UNCHANGED <<media, bs, ghost>>
           \/ recv' = Loaded("next", hp) /\ crash' = crash
    BY <1>5 DEF DecideBuffering
  <2>2. CASE recv' = Loaded("next", hp) /\ crash' = crash
    <3> HIDE DEF hp
    <3>1. recv' \in Receiver /\ recv'.pak = recv.pak /\ recv'.pc = "next" /\ recv'.look = hp
      BY <1>1, <1>3, <2>2, LoadedTypes
    <3> QED BY <2>1, <2>2, <3>1, <1>a DEF LookPC, hp
  <2> QED BY <1>0, <2>1, <2>2, <1>a DEF LookPC
<1>6. CASE PrimeDecoder
  <2>1. /\ UNCHANGED <<stream, arrived, queue, bs, dec, ctl, ghost>> /\ recv.pc = "prime"
        /\ \/ recv' = recv /\ crash' = "look" /\ recv.look \notin Elements(queue) /\ media' = media
           \/ recv' = Loaded("periodic", NoPacket) /\ crash' = crash
    BY <1>6 DEF PrimeDecoder, Follow
  <2>2. CASE recv' = Loaded("periodic", NoPacket) /\ crash' = crash
    <3>1. recv' \in Receiver /\ recv'.pak = recv.pak /\ recv'.pc = "periodic"
      BY <1>3, <2>2, LoadedTypes
    <3> QED BY <2>1, <2>2, <3>1, <1>a DEF LookPC
  <2> QED BY <1>0, <2>1, <2>2, <1>a DEF LookPC
<1> QED BY <1>4, <1>5, <1>6

(* Where the looks begin. *)
LEMMA TellMoves ==
  ASSUME TypeOK
  PROVE  /\ CheckBuffering =>
              /\ recv.pc = "check" /\ recv' \in Receiver /\ recv'.pak = recv.pak
              /\ UNCHANGED <<stream, arrived, queue, bs, media, dec, ctl, crash, ghost>>
              /\ \/ recv'.pc = "tell" /\ bs.buffering
                 \/ recv'.pc = "periodic" /\ ~bs.buffering
                 \/ /\ recv'.pc = "mark" /\ ~bs.buffering /\ queue # << >>
                    /\ recv'.look = TailPointer(queue)
         /\ TellDecoder =>
              /\ recv.pc = "tell" /\ recv' \in Receiver /\ recv'.pak = recv.pak
              /\ UNCHANGED <<stream, arrived, queue, bs, dec, ctl, crash>>
              /\ \/ recv'.pc = "post" /\ ~media.rtpBuffering
                 \/ /\ recv'.pc = "periodic" /\ media.rtpBuffering
                    /\ UNCHANGED <<media, ghost>> /\ (media.waiting => queue = << >>)
                 \/ /\ recv'.pc = "prime" /\ media.rtpBuffering /\ media.waiting
                    /\ queue # << >> /\ recv'.look = TailPointer(queue)
                    /\ UNCHANGED <<media, ghost>>
<1> DEFINE tp == TailPointer(queue)
           m == Loaded("mark", tp)
           p == Loaded("prime", tp)
<1>1. recv \in Receiver /\ tp \in Packets \cup {NoPacket}
  BY EndPointers DEF TypeOK
<1>2. "mark" \in RecvPC /\ "prime" \in RecvPC
  BY DEF RecvPC
<1> HIDE DEF tp
<1>3. /\ m \in Receiver /\ m.pc = "mark" /\ m.look = tp /\ m.pak = recv.pak
      /\ p \in Receiver /\ p.pc = "prime" /\ p.look = tp /\ p.pak = recv.pak
  BY <1>1, <1>2, LoadedTypes
<1> HIDE DEF m, p
<1>4. \A to \in {"tell", "periodic", "post"} :
        LET r == [recv EXCEPT !.pc = to] IN r \in Receiver /\ r.pc = to /\ r.pak = recv.pak
  BY <1>1 DEF Receiver, RecvPC
<1>5. ASSUME CheckBuffering
      PROVE  /\ recv.pc = "check"
             /\ \/ recv' = [recv EXCEPT !.pc = "tell"] /\ bs.buffering
                \/ recv' = [recv EXCEPT !.pc = "periodic"] /\ ~bs.buffering
                \/ recv' = m /\ ~bs.buffering /\ queue # << >>
             /\ UNCHANGED <<stream, arrived, queue, bs, media, dec, ctl, crash, ghost>>
  BY <1>5 DEF CheckBuffering, m, tp
<1>6. ASSUME TellDecoder
      PROVE  /\ recv.pc = "tell"
             /\ \/ recv' = [recv EXCEPT !.pc = "post"] /\ ~media.rtpBuffering
                \/ /\ recv' = [recv EXCEPT !.pc = "periodic"] /\ media.rtpBuffering
                   /\ UNCHANGED <<media, ghost>> /\ (media.waiting => queue = << >>)
                \/ /\ recv' = p /\ media.rtpBuffering /\ media.waiting /\ queue # << >>
                   /\ UNCHANGED <<media, ghost>>
             /\ UNCHANGED <<stream, arrived, queue, bs, dec, ctl, crash>>
  BY <1>6 DEF TellDecoder, p, tp
<1>7. CheckBuffering =>
              /\ recv.pc = "check" /\ recv' \in Receiver /\ recv'.pak = recv.pak
              /\ UNCHANGED <<stream, arrived, queue, bs, media, dec, ctl, crash, ghost>>
              /\ \/ recv'.pc = "tell" /\ bs.buffering
                 \/ recv'.pc = "periodic" /\ ~bs.buffering
                 \/ /\ recv'.pc = "mark" /\ ~bs.buffering /\ queue # << >>
                    /\ recv'.look = tp
  BY <1>3, <1>4, <1>5
<1>8. TellDecoder =>
              /\ recv.pc = "tell" /\ recv' \in Receiver /\ recv'.pak = recv.pak
              /\ UNCHANGED <<stream, arrived, queue, bs, dec, ctl, crash>>
              /\ \/ recv'.pc = "post" /\ ~media.rtpBuffering
                 \/ /\ recv'.pc = "periodic" /\ media.rtpBuffering
                    /\ UNCHANGED <<media, ghost>> /\ (media.waiting => queue = << >>)
                 \/ /\ recv'.pc = "prime" /\ media.rtpBuffering /\ media.waiting
                    /\ queue # << >> /\ recv'.look = tp
                    /\ UNCHANGED <<media, ghost>>
  BY <1>3, <1>4, <1>6
<1> QED BY <1>7, <1>8 DEF tp

LEMMA InitTypes == Init => Types
<1> SUFFICES ASSUME Init PROVE Types
  OBVIOUS
<1>1. bs \in StreamBase /\ media \in Media /\ ghost \in History
  BY DEF Init, StreamBase, Media, History
<1>2. recv \in Receiver /\ dec \in Decoder /\ ctl \in [pc : ControlPC, pauses : Nat]
  BY DEF Init, Receiver, Decoder, RecvPC, DecodePC, ControlPC
<1> QED BY <1>1, <1>2 DEF Init, Types, TypeOK, ReceiverHasPacket

(* Each step of the receive thread. *)
LEMMA ReceiverTypes ==
  ASSUME Types, ReceiveThread
  PROVE  Types'
<1>1. CASE Timeout
  BY <1>1 DEF Timeout, RStep, Types, TypeOK, ReceiverHasPacket, Receiver, RecvPC
<1>2. ASSUME NEW p \in Packets, Arrive(p)  PROVE Types'
  <2>1. recv' \in Receiver /\ ReceiverHasPacket'
    BY <1>2 DEF Arrive, Types, TypeOK, ReceiverHasPacket, Receiver, RecvPC
  <2>2. ghost' \in History
    BY <1>2 DEF Arrive, Types, TypeOK, History, TimeJumped
  <2> QED BY <1>2, <2>1, <2>2 DEF Arrive, Types, TypeOK
<1>3. CASE ReceiverFlush
  <2>1. recv' \in Receiver /\ ReceiverHasPacket'
    BY <1>3, HeadOfList DEF ReceiverFlush, Types, TypeOK, ReceiverHasPacket, Receiver, RecvPC
  <2>2. dec' \in Decoder
    BY <1>3 DEF ReceiverFlush, Types, TypeOK, Decoder
  <2>3. bs' \in StreamBase
    BY <1>3, MemberTypes DEF ReceiverFlush, Types, TypeOK
  <2> QED BY <1>3, <2>1, <2>2, <2>3 DEF ReceiverFlush, Types, TypeOK
<1>4. CASE ReceiverUnlink
  <2>1. recv' \in Receiver /\ ReceiverHasPacket'
    BY <1>4 DEF ReceiverUnlink, Types, TypeOK, ReceiverHasPacket, Receiver, RecvPC
  <2>2. queue' \in Seq(Packets)
    BY <1>4, WithoutKeeps DEF ReceiverUnlink, Types, TypeOK
  <2> QED BY <1>4, <2>1, <2>2 DEF ReceiverUnlink, Types, TypeOK
<1>5. CASE Add
  <2>1. recv.pak \in Packets
    BY <1>5 DEF Add, Types, ReceiverHasPacket
  <2>2. recv' \in Receiver /\ ReceiverHasPacket'
    BY <1>5, <2>1 DEF Add, Types, TypeOK, ReceiverHasPacket, Receiver, RecvPC
  <2>3. queue' \in Seq(Packets)
    BY <1>5, <2>1, InsertKeeps DEF Add, Types, TypeOK
  <2>4. bs' \in StreamBase
    <3>1. TimeStamp(recv.pak) \in Nat
      BY <2>1, NumbersOfPacket DEF Types
    <3> QED BY <1>5, <3>1 DEF Add, Types, TypeOK, StreamBase
  <2>5. ghost' \in History
    BY <1>5 DEF Add, Types, TypeOK, History
  <2> QED BY <1>5, <2>2, <2>3, <2>4, <2>5 DEF Add, Types, TypeOK
<1>6. CASE CheckBuffering
  <2>1. \/ recv' = Loaded("mark", TailPointer(queue))
        \/ recv' = [recv EXCEPT !.pc = "tell"]
        \/ recv' = [recv EXCEPT !.pc = "periodic"]
    BY <1>6 DEF CheckBuffering
  <2>2. "mark" \in RecvPC /\ TailPointer(queue) \in Packets \cup {NoPacket}
    BY EndPointers DEF RecvPC, Types, TypeOK
  <2>3. Loaded("mark", TailPointer(queue)) \in Receiver
        /\ Loaded("mark", TailPointer(queue)).pc = "mark"
    BY <2>2, LoadedTypes DEF Types
  <2>4. recv' \in Receiver /\ ReceiverHasPacket'
    BY <2>1, <2>3 DEF Types, TypeOK, ReceiverHasPacket, Receiver, RecvPC
  <2> QED BY <1>6, <2>4 DEF CheckBuffering, Types, TypeOK
<1>7. CASE LookAtEnds \/ DecideBuffering \/ PrimeDecoder
  <2> DEFINE ts == IF bs.baseSet THEN bs.base ELSE TimeStamp(recv.look)
             f == IF bs.baseSet THEN ghost.first ELSE FrameNo[recv.look]
  <2>0. /\ TypeOK /\ bs \in StreamBase /\ ghost \in History /\ media \in Media
        /\ crash \in {"no", "freed", "null", "look"} /\ queue \in Seq(Packets)
    BY DEF Types, TypeOK
  <2>1. recv' \in Receiver /\ ReceiverHasPacket'
    BY <1>7, <2>0, LookMoves DEF ReceiverHasPacket, LookPC
  <2>2. bs' \in StreamBase /\ ghost' \in History
    <3>1. CASE bs' = bs /\ ghost' = ghost
      BY <2>0, <3>1
    <3>2. CASE ~(bs' = bs /\ ghost' = ghost)
      <4>1. /\ bs.baseSet \/ recv.look \in Elements(queue)
            /\ bs' = [bs EXCEPT !.buffering = TRUE, !.baseSet = TRUE, !.base = ts]
            /\ ghost' = [ghost EXCEPT !.first = f]
        <5>1. DecideBuffering
          BY <1>7, <2>0, <3>2, LookMoves
        <5> QED BY <3>2, <5>1 DEF DecideBuffering
      <4>2. recv.look \in Elements(queue) => recv.look \in Packets
        BY <2>0 DEF Elements
      <4>3. ts \in Nat /\ f \in Nat \cup {None}
        BY <2>0, <4>1, <4>2, NumbersOfPacket DEF StreamBase, History
      <4> HIDE DEF ts, f
      <4> QED BY <2>0, <4>1, <4>3 DEF StreamBase, History
    <3> QED BY <3>1, <3>2
  <2>3. media' \in Media
    <3>1. media' = media \/ media' = Primed(media)
      <4>1. CASE recv.pc = "prime"
        <5>1. PrimeDecoder
          BY <1>7, <2>0, <4>1, LookMoves
        <5> QED BY <5>1 DEF PrimeDecoder
      <4>2. CASE recv.pc # "prime"
        BY <1>7, <2>0, <4>2, LookMoves
      <4> QED BY <4>1, <4>2
    <3> QED BY <2>0, <3>1, MemberTypes
  <2>4. UNCHANGED <<stream, arrived, queue, dec, ctl>> /\ crash' \in {crash, "look"}
    BY <1>7, <2>0, LookMoves
  <2> QED BY <2>0, <2>1, <2>2, <2>3, <2>4 DEF Types, TypeOK
<1>8. CASE TellDecoder
  <2>1. recv' \in Receiver /\ ReceiverHasPacket'
    <3>1. \/ recv' = Loaded("prime", TailPointer(queue))
          \/ recv' = [recv EXCEPT !.pc = "post"]
          \/ recv' = [recv EXCEPT !.pc = "periodic"]
      BY <1>8 DEF TellDecoder
    <3>2. "prime" \in RecvPC /\ TailPointer(queue) \in Packets \cup {NoPacket}
      BY EndPointers DEF RecvPC, Types, TypeOK
    <3>3. Loaded("prime", TailPointer(queue)) \in Receiver
          /\ Loaded("prime", TailPointer(queue)).pc = "prime"
      BY <3>2, LoadedTypes DEF Types
    <3> QED BY <3>1, <3>3 DEF Types, TypeOK, ReceiverHasPacket, Receiver, RecvPC
  <2>2. media' \in Media
    <3>1. [media EXCEPT !.rtpBuffering = TRUE, !.decodeQueue = Append(@, "START")] \in Media
      <4>1. Append(media.decodeQueue, "START") \in Seq({"START", "PAUSE"})
        BY DEF Types, TypeOK, Media
      <4> QED BY <4>1 DEF Types, TypeOK, Media
    <3> QED BY <1>8, <3>1, MemberTypes DEF TellDecoder, Types, TypeOK
  <2>3. ghost' \in History
    BY <1>8 DEF TellDecoder, Types, TypeOK, History
  <2> QED BY <1>8, <2>1, <2>2, <2>3 DEF TellDecoder, Types, TypeOK
<1>9. CASE PostStart
  <2>1. recv' \in Receiver /\ ReceiverHasPacket'
    BY <1>9 DEF PostStart, RStep, Types, TypeOK, ReceiverHasPacket, Receiver, RecvPC
  <2>2. media' \in Media
    <3>1. media \in Media
      BY DEF Types, TypeOK
    <3> QED BY <1>9, <3>1 DEF PostStart, Media
  <2> QED BY <1>9, <2>1, <2>2 DEF PostStart, Types, TypeOK
<1>10. CASE Periodic
  <2>1. recv' \in Receiver /\ ReceiverHasPacket'
    BY <1>10 DEF Periodic, RStep, Types, TypeOK, ReceiverHasPacket, Receiver, RecvPC
  <2>2. bs' \in StreamBase /\ media' \in Media
    <3>1. Primed(media) \in Media
      BY MemberTypes DEF Types, TypeOK
    <3> QED BY <1>10, <3>1, MemberTypes DEF Periodic, Types, TypeOK
  <2> QED BY <1>10, <2>1, <2>2 DEF Periodic, Types, TypeOK
<1> QED BY <1>1, <1>2, <1>3, <1>4, <1>5, <1>6, <1>7, <1>8, <1>9, <1>10 DEF ReceiveThread

(* Each step of the decode thread. *)
LEMMA DecoderTypes ==
  ASSUME Types, DecodeThread
  PROVE  Types'
<1> USE DEF Types, TypeOK
<1> DEFINE empty == << >>
           none == 0
<1>a. empty \in Seq(Packets) /\ none \in 0 .. 2
  OBVIOUS
<1>b. {"wait", "top", "read", "skipTake", "begin"} \subseteq DecodePC
  BY DEF DecodePC
<1>0. dec.pak \in Elements(queue) => dec.pak \in Packets /\ TimeStamp(dec.pak) \in Nat
  <2>1. ASSUME dec.pak \in Elements(queue)  PROVE dec.pak \in Packets
    BY <2>1 DEF Elements
  <2> QED BY <2>1, NumbersOfPacket
<1>1. CASE Awake
  <2>1. media' \in Media /\ dec' \in Decoder /\ ghost' \in History
    <3>1. media.sem - 1 \in Nat
      BY <1>1 DEF Awake, Media
    <3>2. dec' \in Decoder
      BY <1>1 DEF Awake, DStep, Decoder, DecodePC
    <3>3. media' \in Media
      BY <1>1, <3>1 DEF Awake, Media
    <3>4. ghost' \in History
      BY <1>1 DEF Awake, History
    <3> QED BY <3>2, <3>3, <3>4
  <2> QED BY <1>1, <2>1 DEF Awake, ReceiverHasPacket
<1>2. CASE ParseMessage
  <2>1. dec' \in Decoder
    BY <1>2 DEF ParseMessage, DStep, Decoder, DecodePC
  <2>2. media' \in Media
    <3>1. media.decodeQueue # << >> =>
            Tail(media.decodeQueue) \in Seq({"START", "PAUSE"})
      BY DEF Media
    <3> QED BY <1>2, <3>1 DEF ParseMessage, Media
  <2> QED BY <1>2, <2>1, <2>2 DEF ParseMessage, ReceiverHasPacket
<1>3. CASE DecoderFlush
  <2>1. dec' \in Decoder
    <3>1. CASE queue # << >>
      <4>1. Head(queue) \in Packets
        BY <3>1, HeadOfList
      <4> QED BY <1>3, <3>1, <4>1 DEF DecoderFlush, Decoder, DecodePC
    <3>2. CASE queue = << >>
      <4>1. dec' = [dec EXCEPT !.pc = "wait", !.frame = empty, !.seen = FALSE]
        BY <1>3, <3>2 DEF DecoderFlush
      <4> QED BY <1>a, <1>b, <4>1 DEF Decoder
    <3> QED BY <3>1, <3>2
  <2>2. bs' \in StreamBase
    BY <1>3, MemberTypes DEF DecoderFlush
  <2> QED BY <1>3, <2>1, <2>2 DEF DecoderFlush, ReceiverHasPacket
<1>4. CASE DecoderUnlink
  <2>1. queue' \in Seq(Packets)
    BY <1>4, WithoutKeeps DEF DecoderUnlink, Remove
  <2>2. dec' \in Decoder
    <3>1. dec' = dec \/ dec' = [dec EXCEPT !.pc = "flush", !.pak = NoPacket]
      BY <1>4 DEF DecoderUnlink, Remove
    <3> QED BY <3>1 DEF Decoder, DecodePC
  <2> QED BY <1>4, <2>1, <2>2 DEF DecoderUnlink, Remove, ReceiverHasPacket
<1>5. CASE TestEof \/ HaveFrame
  <2>1. dec' \in Decoder
    BY <1>5 DEF TestEof, HaveFrame, DStep, Decoder, DecodePC
  <2>2. ghost' \in History
    <3>1. ghost.ended \/ bs.eof \in BOOLEAN
      BY DEF History, StreamBase
    <3> QED BY <1>5, <3>1 DEF TestEof, HaveFrame, History
  <2> QED BY <1>5, <2>1, <2>2 DEF TestEof, HaveFrame, ReceiverHasPacket
<1>6. CASE FindMbit
  BY <1>6 DEF FindMbit, DStep, Decoder, DecodePC, ReceiverHasPacket
<1>7. CASE Announce
  <2>1. dec' \in Decoder /\ media' \in Media
    BY <1>7 DEF Announce, DStep, Decoder, DecodePC, Media
  <2> QED BY <1>7, <2>1 DEF Announce, ReceiverHasPacket
<1>8. CASE BeginFrame
  <2>1. dec' \in Decoder
    <3>1. [dec EXCEPT !.pc = "read", !.frame = empty] \in Decoder
      <4> HIDE DEF empty
      <4> QED BY <1>a, <1>b, DecoderUpdates
    <3> QED BY <1>8, <3>1 DEF BeginFrame
  <2> QED BY <1>8, <2>1 DEF BeginFrame, ReceiverHasPacket
<1>9. CASE ReadHead
  <2>1. dec' \in Decoder
    <3>1. [dec EXCEPT !.pc = "top", !.frame = empty, !.skips = none] \in Decoder
      <4> HIDE DEF empty, none
      <4> QED BY <1>a, <1>b, DecoderUpdates
    <3>2. CASE queue = << >>
      BY <1>9, <3>1, <3>2 DEF ReadHead
    <3>3. CASE queue # << >>
      BY <1>9, <3>3, HeadOfList DEF ReadHead, Decoder, DecodePC
    <3> QED BY <3>2, <3>3
  <2>2. ghost' \in History
    BY <1>9 DEF ReadHead, History
  <2> QED BY <1>9, <2>1, <2>2 DEF ReadHead, ReceiverHasPacket
<1>10. CASE TakePacket
  <2>1. CASE dec.pak \in Elements(queue)
    <3>1. queue' \in Seq(Packets)
      BY <1>10, <2>1, WithoutKeeps DEF TakePacket, Remove
    <3>2. dec' \in Decoder
      <4>1. Appended(dec.frame, dec.pak) \in Seq(Packets)
        BY <2>1, <1>0 DEF Appended, Decoder
      <4> QED BY <1>10, <2>1, <4>1 DEF TakePacket, Remove, Decoder, DecodePC
    <3>3. bs' \in StreamBase
      <4>1. Clock(bs, TimeStamp(dec.pak)) \in StreamBase
        BY <2>1, <1>0, MemberTypes
      <4> QED BY <1>10, <2>1, <4>1 DEF TakePacket, Remove
    <3>4. ghost' \in History
      <4> DEFINE f == FrameNo[dec.pak]
                 ok == ghost.steady /\ f < stream.jump /\ Near(f)
                 more == IF ghost.last # None /\ GoesBack(ghost.last, f)
                         THEN ghost.recounts + 1 ELSE ghost.recounts
      <4>1. \/ ghost' = ghost
            \/ ghost' = [ghost EXCEPT !.last = f, !.steady = ok, !.recounts = more]
        BY <1>10, <2>1 DEF TakePacket, Remove, Remember
      <4>2. f \in Nat /\ ghost \in History /\ ghost.steady \in BOOLEAN
        BY <2>1, <1>0, NumbersOfPacket DEF History
      <4>3. ok \in BOOLEAN
        BY <4>2
      <4>4. more \in Nat
        BY <4>2 DEF History
      <4> HIDE DEF f, ok, more
      <4> QED BY <4>1, <4>2, <4>3, <4>4 DEF History
    <3> QED BY <1>10, <2>1, <3>1, <3>2, <3>3, <3>4 DEF TakePacket, Remove, ReceiverHasPacket
  <2>2. CASE dec.pak \notin Elements(queue)
    BY <1>10, <2>2 DEF TakePacket, Remove, ReceiverHasPacket
  <2> QED BY <2>1, <2>2
<1>11. CASE DecodeFrame
  <2>1. dec' \in Decoder
    <3>1. [dec EXCEPT !.pc = "top", !.frame = empty, !.seen = TRUE, !.skips = none] \in Decoder
      <4> HIDE DEF empty, none
      <4> QED BY <1>a, <1>b, DecoderUpdates
    <3> QED BY <1>11, <3>1 DEF DecodeFrame
  <2> QED BY <1>11, <2>1 DEF DecodeFrame, ReceiverHasPacket
<1>12. CASE SkipFrame
  <2>1. dec' \in Decoder
    <3>1. (IF dec.skips = 2 THEN 2 ELSE dec.skips + 1) \in 0 .. 2
      BY DEF Decoder
    <3>2. << >> \in Seq(Packets) /\ (queue # << >> => Head(queue) \in Packets)
      BY HeadOfList
    <3>3. CASE queue = << >>
      <4>1. [dec EXCEPT !.pc = "top", !.frame = empty, !.skips = none] \in Decoder
        <5> HIDE DEF empty, none
        <5> QED BY <1>a, <1>b, DecoderUpdates
      <4> QED BY <1>12, <3>3, <4>1 DEF SkipFrame
    <3>4. CASE queue # << >>
      BY <1>12, <3>1, <3>2, <3>4 DEF SkipFrame, Decoder, DecodePC
    <3> QED BY <3>3, <3>4
  <2> QED BY <1>12, <2>1 DEF SkipFrame, ReceiverHasPacket
<1>13. CASE SkipPacket
  <2>1. CASE dec.pak \in Elements(queue)
    <3>1. queue' \in Seq(Packets)
      BY <1>13, <2>1, WithoutKeeps DEF SkipPacket, Remove
    <3>2. dec' \in Decoder
      <4>1. queue' # << >> => Head(queue') \in Packets
        BY <3>1, HeadOfList
      <4>2. [dec EXCEPT !.pc = "top", !.pak = NoPacket, !.skips = none] \in Decoder
        <5> HIDE DEF none
        <5> QED BY <1>a, <1>b, DecoderUpdates
      <4>3. [dec EXCEPT !.pc = "begin", !.pak = NoPacket] \in Decoder
        BY <1>b DEF Decoder
      <4>4. \A k \in Packets : [dec EXCEPT !.pak = k] \in Decoder
        BY DEF Decoder
      <4> QED BY <1>13, <2>1, <4>1, <4>2, <4>3, <4>4 DEF SkipPacket, Remove
    <3>3. bs' \in StreamBase
      <4> DEFINE none0 == 0
      <4>1. none0 \in Nat
        OBVIOUS
      <4>2. [bs EXCEPT !.wraps = none0, !.eof = FALSE] \in StreamBase
        <5> HIDE DEF none0
        <5> QED BY <4>1 DEF StreamBase
      <4> QED BY <1>13, <2>1, <4>2 DEF SkipPacket, Remove
    <3>4. ghost' \in History
      BY <1>13, <2>1 DEF SkipPacket, Remove, History
    <3> QED BY <1>13, <2>1, <3>1, <3>2, <3>3, <3>4 DEF SkipPacket, Remove, ReceiverHasPacket
  <2>2. CASE dec.pak \notin Elements(queue)
    BY <1>13, <2>2 DEF SkipPacket, Remove, ReceiverHasPacket
  <2> QED BY <2>1, <2>2
<1> QED BY <1>1, <1>2, <1>3, <1>4, <1>5, <1>6, <1>7, <1>8, <1>9, <1>10, <1>11, <1>12, <1>13
        DEF DecodeThread

LEMMA ControllerTypes ==
  ASSUME Types, Controller
  PROVE  Types'
<1> USE DEF Types, TypeOK, ReceiverHasPacket
<1>1. CASE PauseReceiver
  <2>1. ctl' \in [pc : ControlPC, pauses : Nat] /\ media' \in Media
    <3>1. media.rtpMsgs + 1 \in Nat /\ ctl.pauses + 1 \in Nat
      BY DEF Media
    <3>2. ctl' \in [pc : ControlPC, pauses : Nat]
      BY <1>1, <3>1 DEF PauseReceiver, ControlPC
    <3>3. media' \in Media
      BY <1>1, <3>1 DEF PauseReceiver, Media
    <3> QED BY <3>2, <3>3
  <2> QED BY <1>1, <2>1 DEF PauseReceiver
<1>2. CASE PauseStream
  <2>1. ctl' \in [pc : ControlPC, pauses : Nat]
    BY <1>2 DEF PauseStream, CStep, ControlPC
  <2>2. bs' \in StreamBase
    BY <1>2, MemberTypes DEF PauseStream
  <2>3. dec' \in Decoder
    <3> DEFINE empty == << >>
    <3>1. empty \in Seq(Packets)
      OBVIOUS
    <3> HIDE DEF empty
    <3>2. [dec EXCEPT !.frame = empty] \in Decoder
      BY <3>1 DEF Decoder
    <3> QED BY <1>2, <3>2 DEF PauseStream, empty
  <2>4. ghost' \in History
    BY <1>2 DEF PauseStream, History
  <2> QED BY <1>2, <2>1, <2>2, <2>3, <2>4 DEF PauseStream
<1>3. CASE PauseDecoder
  <2>1. ctl' \in [pc : ControlPC, pauses : Nat]
    BY <1>3 DEF PauseDecoder, CStep, ControlPC
  <2>2. media' \in Media
    <3>1. Append(media.decodeQueue, "PAUSE") \in Seq({"START", "PAUSE"})
      BY DEF Media
    <3> QED BY <1>3, <3>1 DEF PauseDecoder, Media
  <2> QED BY <1>3, <2>1, <2>2 DEF PauseDecoder
<1>4. CASE PostPause \/ Mute \/ Play
  <2>1. ctl' \in [pc : ControlPC, pauses : Nat]
    BY <1>4 DEF PostPause, Mute, Play, CStep, ControlPC
  <2>2. media' \in Media
    <3>1. media.sem + 1 \in Nat
      BY DEF Media
    <3> QED BY <1>4, <3>1 DEF PostPause, Mute, Play, Media
  <2> QED BY <1>4, <2>1, <2>2 DEF PostPause, Mute, Play
<1> QED BY <1>1, <1>2, <1>3, <1>4 DEF Controller, DoPause

LEMMA NextTypes == Types /\ [Next]_vars => Types'
<1>1. Types /\ UNCHANGED vars => Types'
  BY DEF vars, Types, TypeOK, ReceiverHasPacket
<1> QED BY <1>1, ReceiverTypes, DecoderTypes, ControllerTypes DEF Next

(* Every variable keeps its type, for every stream the program may be given. *)
THEOREM RtpTypes == Spec => []TypeOK
<1>1. Spec => []Types
  BY InitTypes, NextTypes, PTL DEF Spec
<1>2. Types => TypeOK
  BY DEF Types
<1> QED BY <1>1, <1>2, PTL

-----------------------------------------------------------------------------
(* The search for the place of a packet. *)

(* A difference that is not negative when it is taken modulo is small. *)
LEMMA SignedPositive ==
  ASSUME NEW m \in Nat \ {0}, NEW d \in 0 .. m - 1
  PROVE  /\ d <= (m - 1) \div 2 => Signed(d, m) = d
         /\ d > (m - 1) \div 2 => Signed(d, m) = d - m
<1> DEFINE h == m \div 2
           g == (m - 1) \div 2
<1>1. h \in Nat /\ g \in Nat /\ h + g = m - 1
  OBVIOUS
<1>2. Signed(d, m) = ((d + h) % m) - h
  BY DEF Signed
<1> HIDE DEF h, g
<1>3. CASE d <= g
  <2>1. d + h \in 0 .. m - 1
    BY <1>1, <1>3
  <2>2. (d + h) % m = d + h
    BY <2>1
  <2> QED BY <1>1, <1>2, <1>3, <2>2 DEF g
<1>4. CASE d > g
  <2>1. d + h - m \in 0 .. m - 1
    BY <1>1, <1>4
  <2>2. (d + h) % m = d + h - m
    <3> DEFINE x == d + h
               r == x % m
               k == x \div m
    <3>1. x \in Nat /\ m <= x /\ x < 2 * m
      BY <1>1, <2>1
    <3> HIDE DEF x
    <3>2. k \in Int /\ r \in 0 .. m - 1 /\ x = m * k + r
      BY <3>1
    <3> HIDE DEF k, r
    <3>3. k = 1
      <4>1. k < 2
        <5> SUFFICES ASSUME k >= 2 PROVE FALSE
          BY <3>2
        <5>1. m * k >= m * 2
          BY <3>2
        <5> QED BY <5>1, <3>1, <3>2
      <4>2. k > 0
        <5> SUFFICES ASSUME k <= 0 PROVE FALSE
          BY <3>2
        <5>1. m * k <= 0
          BY <3>2
        <5> QED BY <5>1, <3>1, <3>2
      <4> QED BY <4>1, <4>2, <3>2
    <3>4. m * k = m
      BY <3>3
    <3>5. r = x - m
      BY <3>1, <3>2, <3>4
    <3> QED BY <1>1, <3>5 DEF r, x
  <2> QED BY <1>1, <1>2, <1>4, <2>2 DEF g
<1> QED BY <1>1, <1>3, <1>4 DEF g

(* The same of any difference of two numbers below m. *)
LEMMA SignedDifference ==
  ASSUME NEW m \in Nat \ {0}, NEW a \in 0 .. m - 1, NEW b \in 0 .. m - 1
  PROVE  /\ a = b => Signed(a - b, m) = 0
         /\ a >= b /\ Signed(a - b, m) > 0 => a - b <= (m - 1) \div 2
         /\ a >= b /\ Signed(a - b, m) < 0 => a - b > (m - 1) \div 2
<1>1. CASE a >= b
  <2>1. a - b \in 0 .. m - 1 /\ (m - 1) \div 2 \in Nat
    BY <1>1
  <2> DEFINE g == (m - 1) \div 2
             s == Signed(a - b, m)
  <2>2. (a - b <= g => s = a - b) /\ (a - b > g => s = a - b - m)
    BY <2>1, SignedPositive
  <2> HIDE DEF g, s
  <2>3. g \in Nat
    BY <2>1 DEF g
  <2>4. (a = b => s = 0) /\ (s > 0 => a - b <= g) /\ (s < 0 => a - b > g)
    BY <2>1, <2>2, <2>3
  <2> QED BY <2>4 DEF g, s
<1>2. CASE ~(a >= b)
  <2>1. a # b
    BY <1>2
  <2> QED BY <1>2, <2>1, Zenon
<1> QED BY <1>1, <1>2

(* A search that does not end goes round a list that straddles the wrap. *)
LEMMA EndlessStraddles ==
  ASSUME TypeOK, NEW p \in Packets, Endless(queue, p)
  PROVE  Straddles(queue)
<1> DEFINE n == Len(queue)
           sp == SeqNum(p)
           sh == SeqNum(Head(queue))
           st == SeqNum(queue[n])
<1>1. queue # << >> /\ queue \in Seq(Packets)
  BY DEF Endless, TypeOK
<1>2. n \in Nat \ {0} /\ Head(queue) \in Packets /\ queue[n] \in Packets
  BY <1>1, HeadOfList
<1>3. sp \in 0 .. SeqMod - 1 /\ sh \in 0 .. SeqMod - 1 /\ st \in 0 .. SeqMod - 1
  BY <1>2, NumbersOfPacket
<1>4. Signed(sp - sh, SeqMod) > 0 /\ Signed(sp - st, SeqMod) < 0
  BY DEF Endless, InMiddle, HeadDiff, TailDiff
<1>5. n >= 2
  <2>1. ASSUME n = 1  PROVE FALSE
    <3>1. sh = st
      BY <1>1, <2>1
    <3>2. Signed(sp - sh, SeqMod) = Signed(sp - st, SeqMod)
      BY <3>1
    <3> HIDE DEF sp, sh, st
    <3>3. Signed(sp - sh, SeqMod) \in Int
      BY <1>3, NumbersAssumption DEF Signed
    <3> QED BY <1>4, <3>2, <3>3
  <2>2. n \in Nat \ {0}
    BY <1>2
  <2> HIDE DEF n
  <2> QED BY <2>1, <2>2
<1>6. sp >= st
  <2>1. n \in 2 .. n
    BY <1>5, <1>2
  <2>2. ~(st > sp)
    BY <2>1 DEF Endless, Later
  <2> QED BY <1>3, <2>2
<1> HIDE DEF n, sp, sh, st
<1>7. sp - st > (SeqMod - 1) \div 2
  BY <1>3, <1>4, <1>6, SignedDifference, NumbersAssumption
<1>8. sp >= sh => sp - sh <= (SeqMod - 1) \div 2
  BY <1>3, <1>4, SignedDifference, NumbersAssumption
<1>9. (SeqMod - 1) \div 2 \in Nat
  BY NumbersAssumption
<1>10. sh > st
  BY <1>3, <1>6, <1>7, <1>8, <1>9
<1> QED BY <1>1, <1>10 DEF Straddles, n, sh, st

LEMMA SearchEndsStep ==
  ASSUME Types, SearchEnds, [Next]_vars
  PROVE  SearchEnds'
<1>1. CASE UNCHANGED vars
  BY <1>1 DEF SearchEnds, Straddles, SeqNum, vars
<1>2. CASE recv.pc = "loop" /\ Next
  <2>1. UNCHANGED <<stream, queue, recv>>
    <3>1. CASE ReceiveThread
      <4>1. ~(LookAtEnds \/ DecideBuffering \/ PrimeDecoder)
        BY <1>2, LookMoves DEF LookPC, Types
      <4> QED BY <1>2, <3>1, <4>1 DEF ReceiveThread, Timeout, Arrive, ReceiverFlush,
              ReceiverUnlink, Add, CheckBuffering, TellDecoder, PostStart, Periodic, RStep
    <3>2. CASE DecodeThread
      BY <1>2, <3>2 DEF DecodeThread, Awake, ParseMessage, DecoderFlush, DecoderUnlink,
         TestEof, HaveFrame, FindMbit, Announce, BeginFrame, ReadHead, TakePacket,
         DecodeFrame, SkipFrame, SkipPacket, Remove, Unlocked
    <3>3. CASE Controller
      BY <3>3 DEF Controller, PauseReceiver, DoPause, PauseStream, PauseDecoder, PostPause,
         Mute, Play
    <3> QED BY <1>2, <3>1, <3>2, <3>3 DEF Next
  <2> QED BY <2>1 DEF SearchEnds, Straddles, SeqNum
<1>3. CASE recv.pc # "loop" /\ Next
  <2>1. CASE recv'.pc # "loop"
    BY <2>1 DEF SearchEnds
  <2>2. CASE recv'.pc = "loop"
    <3>1. Add
      <4>1. CASE ReceiveThread
        <5>1. Timeout \/ PostStart \/ Periodic => recv'.pc # "loop"
          BY DEF Timeout, PostStart, Periodic, RStep, Types, TypeOK, Receiver
        <5>2. (\E p \in Packets : Arrive(p)) \/ ReceiverFlush \/ ReceiverUnlink
                => recv'.pc # "loop"
          <6>1. recv \in Receiver
            BY DEF Types, TypeOK
          <6>2. (\E p \in Packets : Arrive(p)) => recv'.pc # "loop"
            BY <6>1 DEF Arrive, Receiver
          <6>3. ReceiverFlush \/ ReceiverUnlink => recv'.pc # "loop"
            BY <6>1 DEF ReceiverFlush, ReceiverUnlink, Receiver
          <6> QED BY <6>2, <6>3
        <5>3. CheckBuffering \/ TellDecoder => recv'.pc # "loop"
          <6>1. TypeOK
            BY DEF Types
          <6> QED BY <6>1, TellMoves
        <5>4. LookAtEnds \/ DecideBuffering \/ PrimeDecoder => recv'.pc # "loop"
          BY <1>3, LookMoves DEF Types
        <5> QED BY <2>2, <4>1, <5>1, <5>2, <5>3, <5>4 DEF ReceiveThread
      <4>2. CASE DecodeThread \/ Controller
        <5>1. recv' = recv
          BY <4>2 DEF DecodeThread, Awake, ParseMessage, DecoderFlush, DecoderUnlink,
             TestEof, HaveFrame, FindMbit, Announce, BeginFrame, ReadHead, TakePacket,
             DecodeFrame, SkipFrame, SkipPacket, Remove, Controller, PauseReceiver,
             DoPause, PauseStream, PauseDecoder, PostPause, Mute, Play
        <5> QED BY <1>3, <2>2, <5>1
      <4> QED BY <1>3, <4>1, <4>2 DEF Next
    <3>2. Endless(queue, recv.pak) /\ UNCHANGED <<stream, queue>> /\ recv.pak \in Packets
      BY <2>2, <3>1 DEF Add, Types, TypeOK, ReceiverHasPacket, Receiver
    <3>3. Straddles(queue)
      BY <3>2, EndlessStraddles DEF Types
    <3> QED BY <3>2, <3>3 DEF SearchEnds, Straddles, SeqNum
  <2> QED BY <2>1, <2>2
<1> QED BY <1>1, <1>2, <1>3

(* Whatever the modulus and however packets are delayed, the search for the   *)
(* place of a packet ends, unless the list straddles the wrap.                *)
THEOREM SearchesEnd == Spec => []SearchEnds
<1>1. Init => SearchEnds
  BY DEF Init, SearchEnds
<1>2. Types /\ SearchEnds /\ [Next]_vars => (Types /\ SearchEnds)'
  BY NextTypes, SearchEndsStep
<1> QED BY <1>1, <1>2, InitTypes, PTL DEF Spec

-----------------------------------------------------------------------------
(* Pointers and frames. *)

(* Only a jump of the time stamps makes the receive thread flush. *)
FlushOnlyAfterJump == recv.pc \in {"flush", "unlink"} => ghost.jumped

SkipsCounted == dec.pc = "skipTake" => dec.skips # 0

(* The decode thread, if it alone takes packets out, has in the list the one *)
(* it read, and a list that it has seen filled is not empty.                 *)
ReaderHasPacket ==
  /\ dec.pc \in {"take", "unlink", "skipTake"} => dec.pak \in Elements(queue)
  /\ dec.pc \in {"find", "begin"} => queue # << >>

(* A frame that was begun because of a marker bit has that bit still ahead. *)
MarkerAhead ==
  dec.skips = 0 /\ dec.pc \in {"begin", "read", "take"} =>
    Elements(queue) \cap LastOfFrame # {}

(* Before the first pause the decode thread does nothing until the buffering *)
(* is complete.  Later it sleeps when it waits for a frame, and nobody posts *)
(* its semaphore but a receive thread that finds it so: there is at most one *)
(* token, and none while the decode thread runs or waits to be primed.       *)
IdleUntilBuffered ==
  /\ ctl.pc = "playing" /\ media.decodeQueue \in Seq({"START"})
  /\ dec.pc \notin {"flush", "unlink"}
  /\ recv.pc \in {"tell", "post"} => bs.buffering
  /\ ~bs.buffering => /\ dec.pc = "wait" /\ media.decodeQueue = << >>
                      /\ media.sem = 0 /\ ~media.waiting

Tokens ==
  /\ media.rtpMsgs = 0 /\ media.sem \in 0 .. 1
  /\ media.rtpBuffering => bs.buffering
  /\ recv.pc = "post" => media.rtpBuffering
  /\ ~media.rtpBuffering \/ recv.pc = "post" =>
       dec.pc = "wait" /\ media.sem = 0 /\ ~media.waiting
  /\ media.waiting => dec.pc = "asleep" /\ media.sem = 0
  /\ dec.pc \notin {"wait", "asleep"} => media.sem = 0

(* So the decode thread cannot move while the receive thread looks at the    *)
(* ends of the list, and the packets it looks at stay.                       *)
LooksSafely ==
  /\ recv.pc \in {"mark", "head", "tail", "base"} => ~bs.buffering
  /\ recv.pc = "next" => bs.buffering /\ ~media.rtpBuffering
  /\ recv.pc = "prime" => media.waiting
  /\ recv.pc \in LookPC => recv.look \in Elements(queue)

SoleReader ==
  /\ ReaderHasPacket /\ MarkerAhead
  /\ ctl.pauses = 0 => IdleUntilBuffered /\ Tokens /\ LooksSafely

LiveInv ==
  /\ FlushOnlyAfterJump /\ SkipsCounted
  /\ PointersAreLive /\ CompleteUnlessSkipped
  /\ ~ghost.jumped => SoleReader

LEMMA InitLive == Init => LiveInv
<1> SUFFICES ASSUME Init PROVE LiveInv
  OBVIOUS
<1>1. << >> \in Seq({"START"})
  OBVIOUS
<1>2. media.decodeQueue \in Seq({"START"})
  BY <1>1 DEF Init
<1> QED BY <1>2 DEF Init, LiveInv, FlushOnlyAfterJump, SkipsCounted, PointersAreLive,
        CompleteUnlessSkipped, SoleReader, ReaderHasPacket, MarkerAhead, IdleUntilBuffered,
        Tokens, LooksSafely, LookPC

(* Unless the time stamps have jumped, the receive thread only adds packets. *)
LEMMA ReceiverOnlyAdds ==
  ASSUME Types, FlushOnlyAfterJump, ReceiveThread, ~ghost'.jumped
  PROVE  /\ ~ghost.jumped /\ ~ReceiverFlush /\ ~ReceiverUnlink
         /\ UNCHANGED <<dec, ctl, ghost.bailed>>
         /\ Elements(queue) \subseteq Elements(queue')
         /\ queue # << >> => queue' # << >>
         /\ recv'.pc \notin {"flush", "unlink"}
<1> USE DEF Types, TypeOK
<1>0. ghost.jumped \in BOOLEAN /\ ghost \in History /\ recv \in Receiver
  BY DEF History
<1>1. ~ghost.jumped => ~ReceiverFlush /\ ~ReceiverUnlink
  BY DEF ReceiverFlush, ReceiverUnlink, FlushOnlyAfterJump
<1>2. CASE Timeout \/ PostStart \/ Periodic
  <2>1. UNCHANGED <<queue, dec, ctl, ghost>> /\ recv'.pc \notin {"flush", "unlink"}
    BY <1>2, <1>0 DEF Timeout, PostStart, Periodic, RStep, Receiver
  <2> QED BY <1>1, <2>1
<1>3. ASSUME NEW p \in Packets, Arrive(p)
      PROVE  /\ ~ghost.jumped /\ UNCHANGED <<dec, ctl, queue, ghost.bailed>>
             /\ recv'.pc \notin {"flush", "unlink"} /\ recv.pc = "recv"
  BY <1>3, <1>0 DEF Arrive, Receiver, History
<1>4. CASE Add
  <2>1. /\ ghost'.jumped = ghost.jumped /\ ghost'.bailed = ghost.bailed
        /\ UNCHANGED <<dec, ctl>> /\ recv'.pc \in {"loop", "check"}
    <3> DEFINE late == ghost.missed \/ dec.pc = "announce"
    <3>1. ghost' = ghost \/ ghost' = [ghost EXCEPT !.missed = late]
      BY <1>4 DEF Add
    <3> HIDE DEF late
    <3>2. ghost'.jumped = ghost.jumped /\ ghost'.bailed = ghost.bailed
      BY <3>1, <1>0 DEF History
    <3>3. UNCHANGED <<dec, ctl>> /\ recv'.pc \in {"loop", "check"}
      BY <1>4, <1>0 DEF Add, Receiver
    <3> QED BY <3>2, <3>3
  <2>2. queue' = queue \/ (~Endless(queue, recv.pak) /\ queue' = Insert(queue, recv.pak))
    BY <1>4 DEF Add
  <2>3. recv.pak \in Packets /\ recv.pc = "add"
    BY <1>4 DEF Add, ReceiverHasPacket
  <2>4. /\ Elements(queue) \subseteq Elements(queue')
        /\ queue # << >> => queue' # << >>
    BY <2>2, <2>3, InsertKeeps
  <2> QED BY <1>1, <2>1, <2>3, <2>4
<1>5. CASE CheckBuffering \/ TellDecoder \/ LookAtEnds \/ DecideBuffering \/ PrimeDecoder
  <2> DEFINE f == IF bs.baseSet THEN ghost.first ELSE FrameNo[recv.look]
             now == ghost.early \/ ctl.pc # "playing"
  <2>1. UNCHANGED <<dec, ctl, queue>> /\ recv'.pc \notin {"flush", "unlink"}
    <3>1. CASE CheckBuffering \/ TellDecoder
      BY <3>1, TellMoves
    <3>2. CASE LookAtEnds \/ DecideBuffering \/ PrimeDecoder
      BY <3>2, LookMoves DEF LookPC
    <3> QED BY <1>5, <3>1, <3>2
  <2>2. \/ ghost' = ghost
        \/ ghost' = [ghost EXCEPT !.first = f]
        \/ ghost' = [ghost EXCEPT !.early = now]
    BY <1>5 DEF CheckBuffering, TellDecoder, LookAtEnds, DecideBuffering, PrimeDecoder
  <2> HIDE DEF f, now
  <2>3. ghost'.jumped = ghost.jumped /\ ghost'.bailed = ghost.bailed
    BY <2>2, <1>0 DEF History
  <2> QED BY <1>1, <2>1, <2>3
<1>6. ~(ReceiverFlush \/ ReceiverUnlink)
  <2>1. ReceiverFlush \/ ReceiverUnlink => ghost.jumped /\ ghost' = ghost
    BY DEF ReceiverFlush, ReceiverUnlink, FlushOnlyAfterJump
  <2> QED BY <2>1
<1>7. CASE \E p \in Packets : Arrive(p)
  BY <1>3, <1>6, <1>7
<1> QED BY <1>2, <1>4, <1>5, <1>6, <1>7 DEF ReceiveThread

LEMMA ReceiverKeepsIdle ==
  ASSUME Types, ReceiveThread, ~ReceiverFlush, ~ReceiverUnlink, UNCHANGED <<dec, ctl>>,
         recv'.pc \notin {"flush", "unlink"}, IdleUntilBuffered
  PROVE  IdleUntilBuffered'
<1> USE DEF Types, TypeOK
<1>0. recv \in Receiver /\ bs \in StreamBase /\ media \in Media
  OBVIOUS
<1>1. CASE Timeout \/ CheckBuffering
  <2>1. /\ UNCHANGED <<bs, media>>
        /\ \/ recv'.pc \in {"periodic", "mark"}
           \/ recv'.pc = "tell" /\ bs.buffering
    <3>1. CASE Timeout
      BY <1>0, <3>1 DEF Timeout, RStep, Receiver
    <3>2. CASE CheckBuffering
      BY <3>2, TellMoves
    <3> QED BY <1>1, <3>1, <3>2
  <2> QED BY <2>1 DEF IdleUntilBuffered
<1>2. ASSUME NEW p \in Packets, Arrive(p)  PROVE IdleUntilBuffered'
  <2>1. recv'.pc \in {"periodic", "flush", "add"} /\ UNCHANGED <<media, bs, queue>>
    BY <1>2, <1>0 DEF Arrive, Receiver
  <2> QED BY <2>1 DEF IdleUntilBuffered
<1>3. CASE Add
  <2>1. recv'.pc \in {"loop", "check"} /\ bs'.buffering = bs.buffering /\ media' = media
    BY <1>3, <1>0 DEF Add, Receiver, StreamBase
  <2> QED BY <2>1 DEF IdleUntilBuffered
<1>4. CASE LookAtEnds \/ DecideBuffering \/ PrimeDecoder
  <2>1. /\ recv'.pc = "tell" => bs'.buffering
        /\ recv'.pc # "post"
        /\ bs' = bs \/ bs'.buffering
    <3> DEFINE ts == IF bs.baseSet THEN bs.base ELSE TimeStamp(recv.look)
    <3>1. \/ bs' = bs
          \/ /\ DecideBuffering
             /\ bs' = [bs EXCEPT !.buffering = TRUE, !.baseSet = TRUE, !.base = ts]
      BY <1>4 DEF LookAtEnds, DecideBuffering, PrimeDecoder
    <3> HIDE DEF ts
    <3>2. bs' = bs \/ bs'.buffering
      BY <1>0, <3>1 DEF StreamBase
    <3>3. recv'.pc = "tell" => bs.buffering
      BY <1>4, LookMoves DEF LookPC
    <3>4. recv'.pc # "post"
      BY <1>4, LookMoves DEF LookPC
    <3> QED BY <3>2, <3>3, <3>4
  <2>2. media'.decodeQueue = media.decodeQueue
        /\ (~media.waiting => media'.sem = media.sem /\ ~media'.waiting)
    BY <1>0, <1>4 DEF LookAtEnds, DecideBuffering, PrimeDecoder, Primed, Media
  <2> QED BY <2>1, <2>2 DEF IdleUntilBuffered
<1>5. CASE TellDecoder
  <2>1. recv'.pc \in {"post", "periodic", "prime"} /\ bs' = bs /\ bs.buffering
    <3>1. recv.pc = "tell"
      BY <1>5 DEF TellDecoder
    <3> QED BY <1>5, <3>1, TellMoves DEF IdleUntilBuffered
  <2>2. media'.decodeQueue \in Seq({"START"})
    <3>1. media.decodeQueue \in Seq({"START"})
      BY DEF IdleUntilBuffered
    <3>2. Append(media.decodeQueue, "START") \in Seq({"START"})
      BY <3>1
    <3> QED BY <1>5, <1>0, <3>1, <3>2 DEF TellDecoder, Primed, Media
  <2> QED BY <2>1, <2>2 DEF IdleUntilBuffered
<1>6. CASE PostStart
  <2>1. recv'.pc = "periodic" /\ bs' = bs /\ bs.buffering
    BY <1>6, <1>0 DEF PostStart, RStep, Receiver, IdleUntilBuffered
  <2>2. media'.decodeQueue = media.decodeQueue
    BY <1>6, <1>0 DEF PostStart, Media
  <2> QED BY <2>1, <2>2 DEF IdleUntilBuffered
<1>7. CASE Periodic
  <2>1. recv'.pc = "recv" /\ bs'.buffering = bs.buffering
    BY <1>7, <1>0 DEF Periodic, RStep, Receiver, AfterPeriod, StreamBase
  <2>2. media'.decodeQueue = media.decodeQueue
    BY <1>7, <1>0 DEF Periodic, TakeRtpMessage, Primed, Media
  <2>3. ~media.waiting => media'.sem = media.sem /\ ~media'.waiting
    BY <1>7, <1>0 DEF Periodic, TakeRtpMessage, Primed, Media
  <2> QED BY <2>1, <2>2, <2>3 DEF IdleUntilBuffered
<1> QED BY <1>1, <1>2, <1>3, <1>4, <1>5, <1>6, <1>7 DEF ReceiveThread

(* What the steps of the receive thread do to the members that tell whether    *)
(* the decode thread idles.                                                    *)
LEMMA ReceiverMembers ==
  ASSUME Types, ReceiveThread, ~ReceiverFlush, ~ReceiverUnlink
  PROVE  /\ DecideBuffering \/ bs'.buffering = bs.buffering
         /\ TellDecoder \/ PrimeDecoder \/ PostStart \/ Periodic \/ media' = media
         /\ \/ CheckBuffering \/ LookAtEnds \/ DecideBuffering \/ PrimeDecoder \/ TellDecoder
            \/ recv'.pc \notin LookPC \cup {"post"}
         /\ LookAtEnds \/ DecideBuffering \/ PrimeDecoder \/ crash' = crash
<1>0. recv \in Receiver /\ bs \in StreamBase
  BY DEF Types, TypeOK
<1>1. CASE Add
  <2> DEFINE t == TimeStamp(recv.pak)
  <2>1. bs' = bs \/ bs' = [bs EXCEPT !.recvd = TRUE, !.lastRecv = t]
    BY <1>1 DEF Add
  <2>2. media' = media /\ recv'.pc \in {"loop", "check"} /\ crash' = crash
    BY <1>0, <1>1 DEF Add, Receiver
  <2> HIDE DEF t
  <2>3. bs'.buffering = bs.buffering
    BY <1>0, <2>1 DEF StreamBase
  <2> QED BY <2>2, <2>3 DEF LookPC
<1>2. CASE \E p \in Packets : Arrive(p)
  <2>1. UNCHANGED <<bs, media, crash>> /\ recv'.pc \in {"periodic", "flush", "add"}
    BY <1>0, <1>2 DEF Arrive, Receiver
  <2> QED BY <2>1 DEF LookPC
<1>3. CASE Timeout \/ PostStart
  <2>1. UNCHANGED <<bs, crash>> /\ recv'.pc = "periodic" /\ (PostStart \/ media' = media)
    BY <1>0, <1>3 DEF Timeout, PostStart, RStep, Receiver
  <2> QED BY <2>1 DEF LookPC
<1>4. CASE Periodic
  <2>1. bs'.buffering = bs.buffering /\ recv'.pc = "recv" /\ crash' = crash
    BY <1>0, <1>4 DEF Periodic, AfterPeriod, RStep, Receiver, StreamBase
  <2> QED BY <1>4, <2>1 DEF LookPC
<1>5. CASE CheckBuffering \/ TellDecoder \/ LookAtEnds \/ PrimeDecoder \/ DecideBuffering
  BY <1>5 DEF CheckBuffering, TellDecoder, LookAtEnds, PrimeDecoder, DecideBuffering
<1> QED BY <1>1, <1>2, <1>3, <1>4, <1>5 DEF ReceiveThread

LEMMA ReceiverTokens ==
  ASSUME Types, ReceiveThread, ~ReceiverFlush, ~ReceiverUnlink, UNCHANGED <<dec, ctl>>,
         IdleUntilBuffered, Tokens, LooksSafely
  PROVE  Tokens'
<1>0. media \in Media /\ recv \in Receiver /\ TypeOK
  BY DEF Types, TypeOK
<1>1. CASE media' = media /\ recv'.pc # "post" /\ (bs.buffering => bs'.buffering)
  BY <1>1 DEF Tokens
<1>2. bs.buffering => bs'.buffering
  <2>1. CASE DecideBuffering
    <3> DEFINE ts == IF bs.baseSet THEN bs.base ELSE TimeStamp(recv.look)
    <3>1. bs' = bs \/ bs' = [bs EXCEPT !.buffering = TRUE, !.baseSet = TRUE, !.base = ts]
      BY <2>1 DEF DecideBuffering
    <3> HIDE DEF ts
    <3> QED BY <3>1 DEF Types, TypeOK, StreamBase
  <2> QED BY <2>1, ReceiverMembers
<1>3. CASE TellDecoder
  <2>1. CASE media' = media /\ recv'.pc # "post"
    BY <1>1, <1>2, <2>1
  <2>2. CASE ~media.rtpBuffering
    <3> DEFINE more == Append(media.decodeQueue, "START")
    <3>1. media' = [media EXCEPT !.rtpBuffering = TRUE, !.decodeQueue = more]
      BY <1>3, <2>2 DEF TellDecoder
    <3> HIDE DEF more
    <3>2. /\ media'.rtpBuffering = TRUE /\ media'.rtpMsgs = media.rtpMsgs
          /\ media'.sem = media.sem /\ media'.waiting = media.waiting
      BY <1>0, <3>1 DEF Media
    <3>3. bs.buffering
      BY <1>3 DEF TellDecoder, IdleUntilBuffered
    <3> QED BY <1>2, <2>2, <3>2, <3>3 DEF Tokens
  <2> QED BY <1>0, <1>3, <2>1, <2>2, TellMoves
<1>4. CASE PostStart
  <2>1. recv.pc = "post" /\ recv'.pc = "periodic" /\ media' = [media EXCEPT !.sem = @ + 1]
    BY <1>0, <1>4 DEF PostStart, RStep, Receiver
  <2>2. media.sem = 0 /\ dec.pc = "wait" /\ ~media.waiting
    BY <2>1 DEF Tokens
  <2>3. /\ media'.rtpBuffering = media.rtpBuffering /\ media'.rtpMsgs = media.rtpMsgs
        /\ media'.sem = 1 /\ media'.waiting = media.waiting
    BY <1>0, <2>1, <2>2 DEF Media
  <2>4. media.rtpBuffering
    BY <2>1 DEF Tokens
  <2> QED BY <1>2, <2>1, <2>2, <2>3, <2>4 DEF Tokens
<1>5. CASE Periodic \/ PrimeDecoder
  <2>1. recv'.pc # "post"
    <3>1. Periodic => recv'.pc = "recv"
      BY <1>0 DEF Periodic, RStep, Receiver
    <3>2. PrimeDecoder => recv'.pc # "post"
      BY <1>0, LookMoves DEF LookPC
    <3> QED BY <1>5, <3>1, <3>2
  <2>2. media' = media \/ media' = Primed(media)
    <3>1. media.rtpMsgs = 0 /\ Primed(media).rtpMsgs = 0
      BY <1>0 DEF Tokens, Primed, Media
    <3> QED BY <1>5, <3>1 DEF Periodic, PrimeDecoder, TakeRtpMessage
  <2>3. CASE media' = Primed(media) /\ media.waiting
    <3>1. dec.pc = "asleep" /\ media.sem = 0 /\ media.rtpBuffering /\ media.rtpMsgs = 0
      BY <2>3 DEF Tokens
    <3>2. media' = [media EXCEPT !.waiting = FALSE, !.sem = @ + 1]
      BY <2>3 DEF Primed
    <3>3. /\ media'.rtpBuffering /\ media'.rtpMsgs = 0
          /\ media'.sem = 1 /\ ~media'.waiting
      BY <1>0, <3>1, <3>2 DEF Media
    <3> QED BY <1>2, <2>1, <3>1, <3>3 DEF Tokens
  <2>4. Primed(media) = media \/ media.waiting
    BY DEF Primed
  <2> QED BY <1>1, <1>2, <2>1, <2>2, <2>3, <2>4
<1>6. CASE ~(TellDecoder \/ PostStart \/ Periodic \/ PrimeDecoder)
  <2>1. media' = media
    BY <1>6, ReceiverMembers
  <2>2. recv'.pc # "post"
    <3>1. CheckBuffering => recv'.pc # "post"
      BY <1>0, TellMoves
    <3>2. LookAtEnds \/ DecideBuffering => recv'.pc # "post"
      BY <1>0, LookMoves DEF LookPC
    <3> QED BY <1>6, <3>1, <3>2, ReceiverMembers
  <2> QED BY <1>1, <1>2, <2>1, <2>2
<1> QED BY <1>3, <1>4, <1>5, <1>6

LEMMA ReceiverLooks ==
  ASSUME Types, ReceiveThread, ~ReceiverFlush, ~ReceiverUnlink, UNCHANGED <<dec, ctl>>,
         Elements(queue) \subseteq Elements(queue'), IdleUntilBuffered, Tokens, LooksSafely
  PROVE  LooksSafely' /\ crash' = crash
<1>0. media \in Media /\ recv \in Receiver /\ TypeOK /\ queue \in Seq(Packets)
  BY DEF Types, TypeOK
<1>1. Elements(queue) # {} => queue # << >>
  BY DEF Elements
<1>2. queue # << >> =>
        HeadPointer(queue) \in Elements(queue) /\ TailPointer(queue) \in Elements(queue)
  BY <1>0, EndPointers
<1>3. CASE CheckBuffering \/ TellDecoder
  <2>1. CASE CheckBuffering
    <3>1. /\ UNCHANGED <<queue, bs, media, crash>>
          /\ \/ recv'.pc \in {"tell", "periodic"}
             \/ /\ recv'.pc = "mark" /\ ~bs.buffering /\ queue # << >>
                /\ recv'.look = TailPointer(queue)
      BY <1>0, <2>1, TellMoves
    <3> QED BY <1>2, <3>1 DEF LooksSafely, LookPC
  <2>2. CASE TellDecoder
    <3>1. /\ UNCHANGED <<queue, bs, crash>>
          /\ \/ recv'.pc \in {"post", "periodic"}
             \/ /\ recv'.pc = "prime" /\ media.waiting /\ queue # << >>
                /\ recv'.look = TailPointer(queue) /\ media' = media
      BY <1>0, <2>2, TellMoves
    <3> QED BY <1>2, <3>1 DEF LooksSafely, LookPC
  <2> QED BY <1>3, <2>1, <2>2
<1>4. CASE LookAtEnds \/ DecideBuffering \/ PrimeDecoder
  <2>1. recv.pc \in LookPC /\ recv.look \in Elements(queue) /\ queue' = queue
    BY <1>0, <1>4, LookMoves DEF LooksSafely
  <2>2. /\ crash' = crash
        /\ recv'.pc = "head" => recv.pc = "mark"
        /\ recv'.pc = "tail" => recv.pc = "head"
        /\ recv'.pc = "base" => recv.pc = "tail"
        /\ recv'.pc = "next" => recv.pc = "base"
        /\ recv'.pc \in {"head", "tail", "base", "next", "tell", "periodic"}
        /\ recv'.pc \in {"head", "base", "next"} => recv'.look = HeadPointer(queue)
        /\ recv'.pc = "tail" => recv'.look = TailPointer(queue)
    BY <1>0, <1>4, <2>1, LookMoves
  <2>3. recv'.pc \in LookPC => recv'.look \in Elements(queue')
    <3>1. queue # << >>
      BY <1>1, <2>1
    <3> QED BY <1>2, <2>1, <2>2, <3>1 DEF LookPC
  <2>4. CASE recv.pc \in {"mark", "head", "tail", "next", "prime"}
    <3>1. bs' = bs
      BY <1>0, <1>4, <2>4, LookMoves
    <3>2. recv'.pc \in {"head", "tail", "base", "tell", "periodic"}
      BY <2>2, <2>4
    <3>3. recv'.pc \in {"head", "tail", "base"} => recv.pc \in {"mark", "head", "tail"}
      BY <2>2
    <3> QED BY <2>2, <2>3, <3>1, <3>2, <3>3 DEF LooksSafely
  <2>5. CASE recv.pc = "base"
    <3> DEFINE ts == IF bs.baseSet THEN bs.base ELSE TimeStamp(recv.look)
    <3>1. DecideBuffering /\ media' = media
      BY <1>0, <1>4, <2>5, LookMoves
    <3>2. bs' = [bs EXCEPT !.buffering = TRUE, !.baseSet = TRUE, !.base = ts]
      BY <2>1, <3>1 DEF DecideBuffering
    <3> HIDE DEF ts
    <3>3. bs'.buffering
      BY <3>2 DEF Types, TypeOK, StreamBase
    <3>4. ~media.rtpBuffering
      BY <2>5 DEF Tokens, LooksSafely
    <3>5. recv'.pc \in {"next", "tell", "periodic"}
      BY <2>2, <2>5
    <3> QED BY <2>2, <2>3, <3>1, <3>3, <3>4, <3>5 DEF LooksSafely
  <2> QED BY <2>1, <2>4, <2>5 DEF LookPC
<1>5. CASE ~(CheckBuffering \/ TellDecoder \/ LookAtEnds \/ DecideBuffering \/ PrimeDecoder)
  <2>1. recv'.pc \notin LookPC
    BY <1>5, ReceiverMembers
  <2>2. crash' = crash
    BY <1>5, ReceiverMembers
  <2> QED BY <2>1, <2>2 DEF LooksSafely, LookPC
<1> QED BY <1>3, <1>4, <1>5

(* While the receive thread looks, the decode thread idles or sleeps. *)
LEMMA DecoderStaysAway ==
  ASSUME Types, IdleUntilBuffered, Tokens, LooksSafely, recv.pc \in LookPC
  PROVE  ~DecodeThread
<1>1. media.sem = 0 /\ dec.pc \in {"wait", "asleep"}
  <2>1. CASE recv.pc \in {"mark", "head", "tail", "base", "next"}
    <3>1. ~media.rtpBuffering
      BY <2>1 DEF LooksSafely, Tokens
    <3> QED BY <3>1 DEF Tokens
  <2>2. CASE recv.pc = "prime"
    BY <2>2 DEF LooksSafely, Tokens
  <2> QED BY <2>1, <2>2 DEF LookPC
<1>2. ~Awake
  BY <1>1 DEF Awake
<1> QED BY <1>1, <1>2 DEF DecodeThread, ParseMessage, DecoderFlush, DecoderUnlink, TestEof,
        HaveFrame, FindMbit, Announce, BeginFrame, ReadHead, TakePacket, DecodeFrame,
        SkipFrame, SkipPacket, DStep

LEMMA ReceiverLive ==
  ASSUME Types, LiveInv, ReceiveThread
  PROVE  LiveInv'
<1> USE DEF LiveInv
<1>1. FlushOnlyAfterJump'
  BY ReceiverOnlyAdds DEF FlushOnlyAfterJump
<1>2. SkipsCounted'
  <2> DEFINE empty == << >>
  <2>1. dec' = dec \/ dec' = [dec EXCEPT !.frame = empty]
    BY Zenon DEF ReceiveThread, Timeout, Arrive, ReceiverFlush, ReceiverUnlink, Add,
       CheckBuffering, LookAtEnds, DecideBuffering, TellDecoder, PrimeDecoder, PostStart,
       Periodic
  <2> HIDE DEF empty
  <2>2. dec'.pc = dec.pc /\ dec'.skips = dec.skips
    BY <2>1 DEF Types, TypeOK, Decoder
  <2> QED BY <2>2 DEF SkipsCounted
<1>3. CASE ghost'.jumped
  <2>1. crash' \in {"no", "freed", "null", "look"}
    BY ReceiverTypes DEF Types, TypeOK
  <2> QED BY <1>1, <1>2, <1>3, <2>1 DEF PointersAreLive, CompleteUnlessSkipped
<1>4. CASE ~ghost'.jumped
  <2>1. /\ ~ghost.jumped /\ ~ReceiverFlush /\ ~ReceiverUnlink
        /\ UNCHANGED <<dec, ctl, ghost.bailed>>
        /\ Elements(queue) \subseteq Elements(queue')
        /\ queue # << >> => queue' # << >>
        /\ recv'.pc \notin {"flush", "unlink"}
    BY <1>4, ReceiverOnlyAdds
  <2>2. SoleReader'
    <3>1. ReaderHasPacket' /\ MarkerAhead'
      BY <2>1 DEF SoleReader, ReaderHasPacket, MarkerAhead
    <3>2. ctl.pauses = 0 => IdleUntilBuffered' /\ Tokens' /\ LooksSafely'
      BY <2>1, ReceiverKeepsIdle, ReceiverTokens, ReceiverLooks DEF SoleReader
    <3> QED BY <2>1, <3>1, <3>2 DEF SoleReader
  <2>3. PointersAreLive'
    <3>1. CASE LookAtEnds \/ DecideBuffering \/ PrimeDecoder
      <4>1. crash' \in {"no", "look"}
        BY <3>1, LookMoves DEF ReceiveThread, Types
      <4>2. crash' = "look" => ctl'.pauses > 0
        <5>1. CASE ctl.pauses = 0
          <6>1. crash' = "no"
            BY <2>1, <5>1, ReceiverLooks DEF SoleReader, ReceiveThread
          <6> QED BY <6>1
        <5>2. CASE ctl.pauses # 0
          <6>1. ctl.pauses \in Nat /\ ctl' = ctl
            BY <2>1 DEF Types, TypeOK
          <6> QED BY <5>2, <6>1
        <5> QED BY <5>1, <5>2
      <4> QED BY <4>1, <4>2 DEF PointersAreLive
    <3>2. CASE ~(LookAtEnds \/ DecideBuffering \/ PrimeDecoder)
      <4>1. crash' = "no"
        BY <2>1, <3>2, ReceiverMembers DEF ReceiveThread
      <4> QED BY <4>1 DEF PointersAreLive
    <3> QED BY <3>1, <3>2
  <2>4. CompleteUnlessSkipped'
    BY <2>1 DEF CompleteUnlessSkipped
  <2> QED BY <1>1, <1>2, <2>2, <2>3, <2>4
<1> QED BY <1>3, <1>4

(* What the decode thread leaves alone. *)
LEMMA DecoderLeaves ==
  ASSUME Types, DecodeThread
  PROVE  /\ UNCHANGED <<recv, ctl>> /\ ghost'.jumped = ghost.jumped
         /\ ~ReadHead => ghost'.bailed = ghost.bailed
<1> USE DEF Types, TypeOK
<1>0. ghost \in History
  OBVIOUS
<1>1. UNCHANGED <<recv, ctl>>
  BY DEF DecodeThread, Awake, ParseMessage, DecoderFlush, DecoderUnlink, TestEof, HaveFrame,
     FindMbit, Announce, BeginFrame, ReadHead, TakePacket, DecodeFrame, SkipFrame,
     SkipPacket, Remove
<1>2. CASE Awake
  <2>1. ghost' = ghost \/ ghost' = [ghost EXCEPT !.missed = FALSE]
    BY <1>2 DEF Awake
  <2> QED BY <1>0, <1>1, <2>1 DEF History
<1>3. CASE ReadHead
  <2> DEFINE why == IF dec.skips > 0 THEN "skip" ELSE "frame"
  <2>1. ghost' = ghost \/ ghost' = [ghost EXCEPT !.bailed = why]
    BY <1>3 DEF ReadHead
  <2> HIDE DEF why
  <2> QED BY <1>0, <1>1, <1>3, <2>1 DEF History
<1>4. CASE TakePacket
  <2> DEFINE f == FrameNo[dec.pak]
             ok == ghost.steady /\ f < stream.jump /\ Near(f)
             more == IF ghost.last # None /\ GoesBack(ghost.last, f) THEN ghost.recounts + 1
                     ELSE ghost.recounts
  <2>1. \/ ghost' = ghost
        \/ ghost' = [ghost EXCEPT !.last = f, !.steady = ok, !.recounts = more]
    BY <1>4 DEF TakePacket, Remove, Remember
  <2> HIDE DEF f, ok, more
  <2> QED BY <1>0, <1>1, <2>1 DEF History
<1>5. CASE SkipPacket
  <2> DEFINE ok == ghost.steady /\ bs.wraps = 0
  <2>1. ghost' = ghost \/ ghost' = [ghost EXCEPT !.steady = ok]
    BY <1>5 DEF SkipPacket, Remove
  <2> HIDE DEF ok
  <2> QED BY <1>0, <1>1, <2>1 DEF History
<1>6. CASE TestEof
  <2> DEFINE now == ghost.ended \/ bs.eof
  <2>1. ghost' = [ghost EXCEPT !.ended = now]
    BY <1>6 DEF TestEof
  <2> HIDE DEF now
  <2> QED BY <1>0, <1>1, <2>1 DEF History
<1>7. CASE ~(Awake \/ ReadHead \/ TakePacket \/ SkipPacket \/ TestEof)
  <2>1. ghost' = ghost
    BY <1>7 DEF DecodeThread, ParseMessage, DecoderFlush, DecoderUnlink, HaveFrame,
       FindMbit, Announce, BeginFrame, DecodeFrame, SkipFrame, Remove
  <2> QED BY <1>1, <2>1
<1> QED BY <1>2, <1>3, <1>4, <1>5, <1>6, <1>7

(* Where the program counter goes, and what the steps that touch the list do. *)
LEMMA DecoderReads ==
  ASSUME Types, DecodeThread, ReaderHasPacket, MarkerAhead, SkipsCounted
  PROVE  /\ ReaderHasPacket' /\ MarkerAhead' /\ crash' = "no"
         /\ ghost'.bailed = "frame" => ghost.bailed = "frame"
         /\ dec'.pc = "flush" =>
              \/ dec.pc \in {"flush", "unlink"}
              \/ media.decodeQueue # << >> /\ Head(media.decodeQueue) = "PAUSE"
         /\ dec'.pc = "unlink" => dec.pc = "flush"
         /\ dec.pc = "wait" => media.sem > 0
<1> USE DEF Types, TypeOK, ReaderHasPacket, MarkerAhead, SkipsCounted
<1>0. dec \in Decoder /\ queue \in Seq(Packets) /\ crash = "no" /\ media \in Media
  BY DEF DecodeThread
<1>1. ~ReadHead => ghost'.bailed = ghost.bailed
  BY DecoderLeaves
<1>2. CASE Awake \/ HaveFrame \/ Announce \/ TestEof \/ ParseMessage
  <2>1. /\ queue' = queue /\ crash' = crash /\ ~ReadHead
        /\ dec'.pc \in {"parse", "top", "find", "announce", "asleep", "wait", "have", "eof",
                        "flush"}
        /\ dec'.pc = "find" => queue # << >>
        /\ dec'.pc = "flush" => media.decodeQueue # << >> /\ Head(media.decodeQueue) = "PAUSE"
        /\ dec.pc = "wait" => media.sem > 0
    BY <1>2, <1>0 DEF Awake, HaveFrame, Announce, TestEof, ParseMessage, DStep, ReadHead, Decoder
  <2> QED BY <1>0, <1>1, <2>1
<1>3. CASE FindMbit \/ BeginFrame
  <2> DEFINE empty == << >>
  <2>1. queue' = queue /\ queue # << >> /\ ~ReadHead /\ dec.pc \in {"find", "begin"}
    BY <1>3 DEF FindMbit, BeginFrame, ReadHead
  <2>2. crash' = crash
    BY <1>3, <2>1 DEF FindMbit, BeginFrame
  <2>3. CASE FindMbit
    <3>1. \/ dec'.pc = "begin" /\ Elements(queue) \cap LastOfFrame # {}
          \/ dec'.pc = "announce"
      BY <2>1, <2>3, <1>0 DEF FindMbit, DStep, Decoder
    <3> QED BY <1>0, <1>1, <2>1, <2>2, <3>1
  <2>4. CASE BeginFrame
    <3>1. dec' = [dec EXCEPT !.pc = "read", !.frame = empty] /\ dec.pc = "begin"
      BY <2>4, <2>1 DEF BeginFrame
    <3> HIDE DEF empty
    <3>2. dec'.pc = "read" /\ dec'.skips = dec.skips
      BY <3>1, <1>0 DEF Decoder
    <3> QED BY <1>0, <1>1, <2>1, <2>2, <3>1, <3>2
  <2> QED BY <1>3, <2>3, <2>4
<1>4. CASE DecoderFlush
  <2> DEFINE empty == << >>
  <2>1. /\ queue' = queue /\ crash' = crash /\ ~ReadHead /\ dec.pc = "flush"
        /\ \/ queue # empty /\ dec' = [dec EXCEPT !.pc = "unlink", !.pak = Head(queue)]
           \/ dec' = [dec EXCEPT !.pc = "wait", !.frame = empty, !.seen = FALSE]
    BY <1>4 DEF DecoderFlush, ReadHead
  <2>2. queue # empty => Head(queue) \in Elements(queue)
    BY <1>0, HeadOfList
  <2> HIDE DEF empty
  <2>3. \/ dec'.pc = "unlink" /\ dec'.pak \in Elements(queue)
        \/ dec'.pc = "wait"
    BY <2>1, <2>2, <1>0 DEF Decoder
  <2> QED BY <1>0, <1>1, <2>1, <2>3
<1>5. CASE ReadHead
  <2> DEFINE empty == << >>
             none == 0
             why == IF dec.skips > 0 THEN "skip" ELSE "frame"
  <2>1. queue' = queue /\ crash' = crash /\ dec.pc = "read"
    BY <1>5 DEF ReadHead
  <2>2. CASE queue = << >>
    <3>1. Elements(queue) = {}
      BY <2>2 DEF Elements
    <3>2. dec.skips # 0
      BY <2>1, <3>1
    <3>3. why = "skip"
      BY <3>2, <1>0 DEF Decoder
    <3>4. /\ dec' = [dec EXCEPT !.pc = "top", !.frame = empty, !.skips = none]
          /\ ghost' = [ghost EXCEPT !.bailed = why]
      BY <1>5, <2>2 DEF ReadHead
    <3> HIDE DEF empty, none, why
    <3>5. dec'.pc = "top" /\ ghost'.bailed = why
      BY <3>4, <1>0 DEF Decoder, History
    <3> QED BY <1>0, <2>1, <3>3, <3>5
  <2>3. CASE queue # << >>
    <3>1. dec' = [dec EXCEPT !.pc = "take", !.pak = Head(queue)] /\ ghost' = ghost
      BY <1>5, <2>3 DEF ReadHead
    <3>2. dec'.pc = "take" /\ dec'.pak = Head(queue) /\ dec'.skips = dec.skips
      BY <3>1, <1>0 DEF Decoder
    <3>3. Head(queue) \in Elements(queue)
      BY <1>0, <2>3, HeadOfList
    <3> QED BY <1>0, <2>1, <3>1, <3>2, <3>3
  <2> QED BY <2>2, <2>3
<1>6. CASE DecoderUnlink
  <2>1. dec.pc = "unlink" /\ dec.pak \in Elements(queue) /\ ~ReadHead
    BY <1>6 DEF DecoderUnlink, ReadHead
  <2>2. crash' = crash /\ dec' = [dec EXCEPT !.pc = "flush", !.pak = NoPacket]
    BY <1>6, <2>1 DEF DecoderUnlink, Remove
  <2>3. dec'.pc = "flush"
    BY <2>2, <1>0 DEF Decoder
  <2> QED BY <1>0, <1>1, <2>1, <2>2, <2>3
<1>7. CASE TakePacket
  <2> DEFINE f == Appended(dec.frame, dec.pak)
             to == IF dec.pak \in LastOfFrame THEN "decode" ELSE "read"
  <2>1. dec.pc = "take" /\ dec.pak \in Elements(queue) /\ ~ReadHead
    BY <1>7 DEF TakePacket, ReadHead
  <2>2. /\ crash' = crash /\ queue' = Without(queue, dec.pak)
        /\ dec' = [dec EXCEPT !.pc = to, !.frame = f, !.pak = NoPacket]
    BY <1>7, <2>1 DEF TakePacket, Remove
  <2>3. Elements(queue) \ {dec.pak} \subseteq Elements(queue')
    BY <2>1, <2>2, <1>0, WithoutKeeps
  <2> HIDE DEF f
  <2>4. dec'.pc = to /\ dec'.skips = dec.skips
    BY <2>2, <1>0 DEF Decoder
  <2> QED BY <1>0, <1>1, <2>1, <2>2, <2>3, <2>4
<1>8. CASE DecodeFrame
  <2> DEFINE empty == << >>
             none == 0
  <2>1. /\ crash' = crash /\ queue' = queue /\ ~ReadHead /\ dec.pc = "decode"
        /\ dec' = [dec EXCEPT !.pc = "top", !.frame = empty, !.seen = TRUE, !.skips = none]
    BY <1>8 DEF DecodeFrame, ReadHead
  <2> HIDE DEF empty, none
  <2>2. dec'.pc = "top"
    BY <2>1, <1>0 DEF Decoder
  <2> QED BY <1>0, <1>1, <2>1, <2>2
<1>9. CASE SkipFrame
  <2> DEFINE empty == << >>
             none == 0
             n == IF dec.skips = 2 THEN 2 ELSE dec.skips + 1
  <2>1. /\ crash' = crash /\ queue' = queue /\ ~ReadHead /\ dec.pc = "decode"
        /\ \/ dec' = [dec EXCEPT !.pc = "top", !.frame = empty, !.skips = none]
           \/ /\ queue # << >>
              /\ dec' = [dec EXCEPT !.pc = "skipTake", !.frame = empty, !.pak = Head(queue),
                                   !.skips = n]
    BY <1>9 DEF SkipFrame, ReadHead
  <2>2. queue # << >> => Head(queue) \in Elements(queue)
    BY <1>0, HeadOfList
  <2> HIDE DEF empty, none, n
  <2>3. \/ dec'.pc = "top"
        \/ dec'.pc = "skipTake" /\ dec'.pak \in Elements(queue)
    BY <2>1, <2>2, <1>0 DEF Decoder
  <2> QED BY <1>0, <1>1, <2>1, <2>3
<1>10. CASE SkipPacket
  <2> DEFINE none == 0
  <2>1. dec.pc = "skipTake" /\ dec.pak \in Elements(queue) /\ ~ReadHead /\ dec.skips # 0
    BY <1>10 DEF SkipPacket, ReadHead
  <2>2. /\ crash' = crash /\ queue' = Without(queue, dec.pak)
        /\ \/ dec' = [dec EXCEPT !.pc = "top", !.pak = NoPacket, !.skips = none]
           \/ queue' # << >> /\ dec' = [dec EXCEPT !.pak = Head(queue')]
           \/ queue' # << >> /\ dec' = [dec EXCEPT !.pc = "begin", !.pak = NoPacket]
    BY <1>10, <2>1 DEF SkipPacket, Remove
  <2>3. queue' # << >> => Head(queue') \in Elements(queue')
    BY <2>1, <2>2, <1>0, WithoutKeeps, HeadOfList
  <2> HIDE DEF none
  <2>4. \/ dec'.pc = "top"
        \/ dec'.pc = "skipTake" /\ dec'.pak \in Elements(queue')
        \/ dec'.pc = "begin" /\ dec'.skips # 0 /\ queue' # << >>
    BY <2>1, <2>2, <2>3, <1>0 DEF Decoder
  <2> QED BY <1>0, <1>1, <2>1, <2>2, <2>4
<1> QED BY <1>2, <1>3, <1>4, <1>5, <1>6, <1>7, <1>8, <1>9, <1>10 DEF DecodeThread

(* Only a flush of the decode thread ends the buffering. *)
LEMMA DecoderKeepsBuffering ==
  ASSUME Types, DecodeThread, IdleUntilBuffered, bs.buffering
  PROVE  bs'.buffering
<1>0. bs \in StreamBase
  BY DEF Types, TypeOK
<1>1. ~DecoderFlush /\ ~DecoderUnlink
  BY DEF DecoderFlush, DecoderUnlink, IdleUntilBuffered
<1>2. CASE TakePacket
  <2> DEFINE b == Clock(bs, TimeStamp(dec.pak))
  <2>1. bs' = bs \/ bs' = b
    BY <1>2 DEF TakePacket, Remove
  <2>2. b.buffering = bs.buffering
    BY <1>0 DEF Clock, StreamBase
  <2> QED BY <2>1, <2>2
<1>3. CASE SkipPacket
  <2> DEFINE none == 0
  <2>1. bs' = bs \/ bs' = [bs EXCEPT !.wraps = none, !.eof = FALSE]
    BY <1>3 DEF SkipPacket, Remove
  <2> HIDE DEF none
  <2> QED BY <1>0, <2>1 DEF StreamBase
<1>4. CASE ~TakePacket /\ ~SkipPacket
  <2>1. bs' = bs
    BY <1>1, <1>4 DEF DecodeThread, Awake, ParseMessage, TestEof, HaveFrame, FindMbit,
       Announce, BeginFrame, ReadHead, DecodeFrame, SkipFrame
  <2> QED BY <2>1
<1> QED BY <1>2, <1>3, <1>4

LEMMA DecoderKeepsIdle ==
  ASSUME Types, DecodeThread, ReaderHasPacket, MarkerAhead, SkipsCounted, IdleUntilBuffered
  PROVE  IdleUntilBuffered'
<1> USE DEF Types, TypeOK
<1>0. media \in Media /\ bs \in StreamBase /\ media.decodeQueue \in Seq({"START"})
  BY DEF IdleUntilBuffered
<1>1. bs.buffering
  BY DecoderReads DEF IdleUntilBuffered
<1>2. dec'.pc \notin {"flush", "unlink"}
  <2>1. media.decodeQueue # << >> => Head(media.decodeQueue) = "START"
    BY <1>0
  <2>2. /\ dec'.pc = "flush" =>
              \/ dec.pc \in {"flush", "unlink"}
              \/ media.decodeQueue # << >> /\ Head(media.decodeQueue) = "PAUSE"
        /\ dec'.pc = "unlink" => dec.pc = "flush"
    BY DecoderReads
  <2> QED BY <2>1, <2>2 DEF IdleUntilBuffered
<1>4. bs'.buffering
  BY <1>1, DecoderKeepsBuffering
<1>5. media'.decodeQueue \in Seq({"START"})
  <2>1. media.decodeQueue # << >> => Tail(media.decodeQueue) \in Seq({"START"})
    BY <1>0
  <2>2. CASE ParseMessage
    <3>1. \/ media' = media
          \/ /\ media.decodeQueue # << >>
             /\ media' = [media EXCEPT !.decodeQueue = Tail(media.decodeQueue)]
      BY <2>2 DEF ParseMessage
    <3> QED BY <1>0, <2>1, <3>1 DEF Media
  <2>3. CASE ~ParseMessage
    <3>1. media'.decodeQueue = media.decodeQueue
      BY <1>0, <2>3 DEF DecodeThread, Awake, DecoderFlush, DecoderUnlink, TestEof, HaveFrame,
         FindMbit, Announce, BeginFrame, ReadHead, TakePacket, DecodeFrame, SkipFrame,
         SkipPacket, Remove, Media
    <3> QED BY <1>0, <3>1
  <2> QED BY <2>2, <2>3
<1>6. UNCHANGED <<recv, ctl>>
  BY DecoderLeaves
<1> QED BY <1>1, <1>2, <1>4, <1>5, <1>6 DEF IdleUntilBuffered

LEMMA DecoderTokens ==
  ASSUME Types, DecodeThread, ReaderHasPacket, MarkerAhead, SkipsCounted, IdleUntilBuffered,
         Tokens, LooksSafely
  PROVE  Tokens' /\ LooksSafely'
<1>0. media \in Media /\ dec \in Decoder /\ UNCHANGED <<recv, ctl>>
  BY DecoderLeaves DEF Types, TypeOK
<1>1. bs.buffering /\ bs'.buffering
  <2>1. dec.pc # "wait" \/ media.sem > 0
    BY DecoderReads
  <2>2. bs.buffering
    BY <1>0, <2>1 DEF IdleUntilBuffered
  <2> QED BY <2>2, DecoderKeepsBuffering
<1>2. recv.pc \notin LookPC
  BY DecoderStaysAway
<1>3. LooksSafely'
  BY <1>0, <1>2 DEF LooksSafely, LookPC
<1>4. media.rtpBuffering /\ recv.pc # "post"
  <2>1. CASE ~media.rtpBuffering \/ recv.pc = "post"
    <3>1. dec.pc = "wait" /\ media.sem = 0
      BY <2>1 DEF Tokens
    <3> QED BY <3>1, DecoderReads
  <2> QED BY <2>1
<1>5. CASE Awake
  <2>1. media.sem > 0 /\ media.sem = 1 /\ dec.pc \in {"wait", "asleep"} /\ ~media.waiting
    BY <1>0, <1>5 DEF Awake, Tokens, DStep
  <2>2. /\ media'.sem = 0 /\ ~media'.waiting /\ media'.rtpMsgs = media.rtpMsgs
        /\ media'.rtpBuffering = media.rtpBuffering
    <3> DEFINE n == media.sem - 1
    <3>1. \/ media' = [media EXCEPT !.sem = n]
          \/ media' = [media EXCEPT !.sem = n, !.waiting = FALSE]
      BY <1>5 DEF Awake
    <3>2. n = 0
      BY <2>1
    <3> HIDE DEF n
    <3> QED BY <1>0, <2>1, <3>1, <3>2 DEF Media
  <2> QED BY <1>0, <1>1, <1>3, <1>4, <2>2 DEF Tokens
<1>6. CASE Announce
  <2>1. dec.pc = "announce" /\ dec'.pc = "asleep"
    BY <1>0, <1>6 DEF Announce, DStep, Decoder
  <2>2. media.sem = 0
    BY <2>1 DEF Tokens
  <2>3. /\ media'.sem = 0 /\ media'.rtpMsgs = media.rtpMsgs
        /\ media'.rtpBuffering = media.rtpBuffering
    BY <1>0, <1>6, <2>2 DEF Announce, Media
  <2> QED BY <1>0, <1>1, <1>3, <1>4, <2>1, <2>3 DEF Tokens
<1>7. CASE ~Awake /\ ~Announce
  <2>1. /\ media'.sem = media.sem /\ media'.rtpMsgs = media.rtpMsgs
        /\ media'.rtpBuffering = media.rtpBuffering /\ media'.waiting = media.waiting
    <3>1. CASE ParseMessage
      <4> DEFINE rest == Tail(media.decodeQueue)
      <4>1. media' = media \/ media' = [media EXCEPT !.decodeQueue = rest]
        BY <3>1 DEF ParseMessage
      <4> HIDE DEF rest
      <4> QED BY <1>0, <4>1 DEF Media
    <3>2. CASE ~ParseMessage
      <4>1. media' = media
        BY <1>7, <3>2 DEF DecodeThread, DecoderFlush, DecoderUnlink, TestEof, HaveFrame,
           FindMbit, BeginFrame, ReadHead, TakePacket, DecodeFrame, SkipFrame, SkipPacket,
           Remove
      <4> QED BY <4>1
    <3> QED BY <3>1, <3>2
  <2>2. dec.pc \notin {"wait", "asleep"}
    BY <1>7 DEF DecodeThread, ParseMessage, DecoderFlush, DecoderUnlink, TestEof, HaveFrame,
       FindMbit, BeginFrame, ReadHead, TakePacket, DecodeFrame, SkipFrame, SkipPacket, DStep
  <2>3. media.sem = 0 /\ ~media.waiting
    BY <2>2 DEF Tokens
  <2> QED BY <1>0, <1>1, <1>3, <1>4, <2>1, <2>3 DEF Tokens
<1> QED BY <1>3, <1>5, <1>6, <1>7

(* Who skips has counted it. *)
LEMMA DecoderCounts ==
  ASSUME Types, DecodeThread, SkipsCounted
  PROVE  SkipsCounted'
<1> USE DEF Types, TypeOK, SkipsCounted
<1>0. dec \in Decoder
  OBVIOUS
<1>1. CASE SkipFrame
  <2> DEFINE empty == << >>
             none == 0
             n == IF dec.skips = 2 THEN 2 ELSE dec.skips + 1
  <2>1. \/ dec' = [dec EXCEPT !.pc = "top", !.frame = empty, !.skips = none]
        \/ dec' = [dec EXCEPT !.pc = "skipTake", !.frame = empty, !.pak = Head(queue),
                             !.skips = n]
    BY <1>1 DEF SkipFrame
  <2>2. n # 0
    BY <1>0 DEF Decoder
  <2> HIDE DEF empty, none, n
  <2> QED BY <1>0, <2>1, <2>2 DEF Decoder
<1>2. CASE SkipPacket
  <2> DEFINE none == 0
  <2>1. dec.skips # 0
    BY <1>2 DEF SkipPacket
  <2>2. \/ dec' = dec
        \/ dec' = [dec EXCEPT !.pc = "top", !.pak = NoPacket, !.skips = none]
        \/ dec' = [dec EXCEPT !.pak = Head(queue')]
        \/ dec' = [dec EXCEPT !.pc = "begin", !.pak = NoPacket]
    BY <1>2 DEF SkipPacket, Remove
  <2> HIDE DEF none
  <2> QED BY <1>0, <2>1, <2>2 DEF Decoder
<1>3. CASE ~SkipFrame /\ ~SkipPacket
  <2>1. dec'.pc # "skipTake"
    <3>1. CASE TakePacket
      <4> DEFINE to == IF dec.pak \in LastOfFrame THEN "decode" ELSE "read"
                 f == Appended(dec.frame, dec.pak)
      <4>1. \/ dec' = dec /\ dec.pc = "take"
            \/ dec' = [dec EXCEPT !.pc = to, !.frame = f, !.pak = NoPacket]
        BY <3>1 DEF TakePacket, Remove
      <4>2. to # "skipTake"
        OBVIOUS
      <4> HIDE DEF to, f
      <4> QED BY <1>0, <4>1, <4>2 DEF Decoder
    <3>2. CASE Awake \/ ParseMessage \/ TestEof \/ HaveFrame \/ FindMbit \/ Announce
      BY <1>0, <3>2 DEF Awake, ParseMessage, TestEof, HaveFrame, FindMbit, Announce, DStep,
         Decoder
    <3>3. CASE DecoderFlush \/ DecoderUnlink \/ BeginFrame \/ ReadHead \/ DecodeFrame
      <4> DEFINE empty == << >>
                 none == 0
      <4>1. \/ dec' = dec /\ dec.pc # "skipTake"
            \/ dec' = [dec EXCEPT !.pc = "unlink", !.pak = Head(queue)]
            \/ dec' = [dec EXCEPT !.pc = "wait", !.frame = empty, !.seen = FALSE]
            \/ dec' = [dec EXCEPT !.pc = "flush", !.pak = NoPacket]
            \/ dec' = [dec EXCEPT !.pc = "read", !.frame = empty]
            \/ dec' = [dec EXCEPT !.pc = "top", !.frame = empty, !.skips = none]
            \/ dec' = [dec EXCEPT !.pc = "take", !.pak = Head(queue)]
            \/ dec' = [dec EXCEPT !.pc = "top", !.frame = empty, !.seen = TRUE, !.skips = none]
        BY <3>3 DEF DecoderFlush, DecoderUnlink, BeginFrame, ReadHead, DecodeFrame, Remove
      <4> HIDE DEF empty, none
      <4> QED BY <1>0, <4>1 DEF Decoder
    <3> QED BY <1>3, <3>1, <3>2, <3>3 DEF DecodeThread
  <2> QED BY <2>1
<1> QED BY <1>1, <1>2, <1>3

LEMMA DecoderLive ==
  ASSUME Types, LiveInv, DecodeThread
  PROVE  LiveInv'
<1> USE DEF LiveInv
<1>1. /\ UNCHANGED <<recv, ctl>> /\ ghost'.jumped = ghost.jumped
      /\ ~ReadHead => ghost'.bailed = ghost.bailed
  BY DecoderLeaves
<1>2. FlushOnlyAfterJump'
  BY <1>1 DEF FlushOnlyAfterJump
<1>3. SkipsCounted'
  BY DecoderCounts
<1>4. CASE ghost.jumped
  <2>1. crash' \in {"no", "freed", "null", "look"}
    BY DecoderTypes DEF Types, TypeOK
  <2> QED BY <1>1, <1>2, <1>3, <1>4, <2>1 DEF PointersAreLive, CompleteUnlessSkipped
<1>5. CASE ~ghost.jumped
  <2>1. /\ ReaderHasPacket' /\ MarkerAhead' /\ crash' = "no"
        /\ ghost'.bailed = "frame" => ghost.bailed = "frame"
    BY <1>5, DecoderReads DEF SoleReader
  <2>2. ctl'.pauses = 0 => IdleUntilBuffered' /\ Tokens' /\ LooksSafely'
    BY <1>1, <1>5, DecoderKeepsIdle, DecoderTokens DEF SoleReader
  <2>3. PointersAreLive' /\ CompleteUnlessSkipped'
    BY <1>1, <1>5, <2>1 DEF PointersAreLive, CompleteUnlessSkipped
  <2> QED BY <1>2, <1>3, <2>1, <2>2, <2>3 DEF SoleReader
<1> QED BY <1>4, <1>5

LEMMA ControllerLive ==
  ASSUME Types, LiveInv, Controller
  PROVE  LiveInv'
<1> USE DEF LiveInv, Types, TypeOK
<1>1. /\ UNCHANGED <<recv, queue>> /\ crash' = "no"
      /\ dec'.pc = dec.pc /\ dec'.pak = dec.pak /\ dec'.skips = dec.skips
      /\ ghost'.jumped = ghost.jumped /\ ghost'.bailed = ghost.bailed
  <2> DEFINE empty == << >>
  <2>1. CASE PauseStream
    <3>1. /\ dec' = [dec EXCEPT !.frame = empty] /\ ghost' = [ghost EXCEPT !.steady = FALSE]
          /\ UNCHANGED <<recv, queue, crash>> /\ crash = "no"
      BY <2>1 DEF PauseStream, Controller
    <3> HIDE DEF empty
    <3> QED BY <3>1 DEF Decoder, History
  <2>2. CASE ~PauseStream
    <3>1. UNCHANGED <<recv, queue, crash, dec, ghost>> /\ crash = "no"
      BY <2>2 DEF Controller, DoPause, PauseReceiver, PauseDecoder, PostPause, Mute, Play
    <3> QED BY <3>1
  <2> QED BY <2>1, <2>2
<1>2. SoleReader => SoleReader'
  <2>1. SoleReader => ctl'.pauses # 0
    <3>1. CASE PauseReceiver
      <4>1. ctl'.pauses = ctl.pauses + 1
        BY <3>1 DEF PauseReceiver
      <4> QED BY <4>1
    <3>2. CASE ~PauseReceiver
      <4>1. ctl.pc # "playing" /\ ctl'.pauses = ctl.pauses
        BY <3>2 DEF Controller, DoPause, PauseStream, PauseDecoder, PostPause, Mute, Play,
           CStep
      <4> QED BY <4>1 DEF SoleReader, IdleUntilBuffered
    <3> QED BY <3>1, <3>2
  <2> QED BY <1>1, <2>1 DEF SoleReader, ReaderHasPacket, MarkerAhead
<1> QED BY <1>1, <1>2 DEF FlushOnlyAfterJump, SkipsCounted, PointersAreLive,
        CompleteUnlessSkipped

LEMMA NextLive == Types /\ LiveInv /\ [Next]_vars => LiveInv'
<1> SUFFICES ASSUME Types, LiveInv, [Next]_vars PROVE LiveInv'
  OBVIOUS
<1>1. CASE UNCHANGED vars
  BY <1>1 DEF vars, LiveInv, FlushOnlyAfterJump, SkipsCounted, PointersAreLive,
     CompleteUnlessSkipped, SoleReader, ReaderHasPacket, MarkerAhead, IdleUntilBuffered,
     Tokens, LooksSafely, LookPC
<1> QED BY <1>1, ReceiverLive, DecoderLive, ControllerLive DEF Next

LEMMA SpecLive == Spec => [](Types /\ LiveInv)
<1>1. Init => Types /\ LiveInv
  BY InitTypes, InitLive
<1>2. Types /\ LiveInv /\ [Next]_vars => (Types /\ LiveInv)'
  BY NextTypes, NextLive
<1> QED BY <1>1, <1>2, PTL DEF Spec

(* Whatever the network does and however the threads interleave, no thread     *)
(* takes a freed packet or one from an empty list unless the time stamps have  *)
(* jumped.  A look of the receive thread at the ends of the list follows a     *)
(* freed or a null pointer only after a jump or a pause.                       *)
THEOREM LivePointers == Spec => []PointersAreLive
<1>1. LiveInv => PointersAreLive
  BY DEF LiveInv
<1> QED BY <1>1, SpecLive, PTL

(* A frame that have_frame has found is taken whole, unless the time stamps    *)
(* have jumped.                                                                *)
THEOREM FramesComplete == Spec => []CompleteUnlessSkipped
<1>1. LiveInv => CompleteUnlessSkipped
  BY DEF LiveInv
<1> QED BY <1>1, SpecLive, PTL

-----------------------------------------------------------------------------
(* The order of the list. *)

(* The elements of a list with a packet put in. *)
LEMMA InsertAtAdds ==
  ASSUME NEW q \in Seq(Packets), NEW p \in Packets, NEW i \in 1 .. Len(q) + 1
  PROVE  Elements(InsertAt(q, i, p)) \subseteq Elements(q) \cup {p}
<1> DEFINE r == InsertAt(q, i, p)
<1>1. Len(q) \in Nat /\ DOMAIN q = 1 .. Len(q)
  OBVIOUS
<1>2. /\ DOMAIN r = 1 .. Len(q) + 1
      /\ \A j \in 1 .. Len(q) + 1 :
           r[j] = IF j < i THEN q[j] ELSE IF j = i THEN p ELSE q[j - 1]
  BY DEF InsertAt
<1>3. ASSUME NEW j \in 1 .. Len(q) + 1  PROVE r[j] \in Elements(q) \cup {p}
  <2>1. CASE j < i
    <3>1. j \in DOMAIN q /\ r[j] = q[j]
      BY <2>1, <1>1, <1>2
    <3> QED BY <3>1 DEF Elements
  <2>2. CASE j = i
    BY <2>2, <1>2
  <2>3. CASE j > i
    <3>1. j - 1 \in DOMAIN q /\ r[j] = q[j - 1]
      BY <2>3, <1>1, <1>2
    <3> QED BY <3>1 DEF Elements
  <2> QED BY <2>1, <2>2, <2>3
<1> HIDE DEF r
<1>4. Elements(r) \subseteq Elements(q) \cup {p}
  BY <1>2, <1>3 DEF Elements
<1> QED BY <1>4 DEF r

LEMMA InsertAdds ==
  ASSUME NEW q \in Seq(Packets), NEW p \in Packets, ~Endless(q, p)
  PROVE  Elements(Insert(q, p)) \subseteq Elements(q) \cup {p}
<1>1. CASE q = << >>
  BY <1>1 DEF Insert, Elements
<1>2. CASE q # << >> /\ Duplicate(q, p)
  BY <1>2 DEF Insert
<1>3. CASE q # << >> /\ ~Duplicate(q, p) /\ InMiddle(q, p)
  <2> DEFINE i == CHOOSE k \in Later(q, p) : \A j \in Later(q, p) : k <= j
  <2>1. Later(q, p) # {} /\ Later(q, p) \subseteq 2 .. Len(q)
    BY <1>3 DEF Endless, Later
  <2>2. \E k \in Later(q, p) : \A j \in Later(q, p) : k <= j
    <3>1. Later(q, p) \subseteq Nat
      BY <2>1
    <3> QED BY <2>1, <3>1, LeastNumber
  <2>3. i \in 1 .. Len(q) + 1
    BY <2>1, <2>2
  <2>4. Insert(q, p) = InsertAt(q, i, p)
    BY <1>3 DEF Insert
  <2> QED BY <2>3, <2>4, InsertAtAdds
<1>4. CASE q # << >> /\ ~Duplicate(q, p) /\ ~InMiddle(q, p)
  <2>1. Insert(q, p) \in {Append(q, p), InsertAt(q, 1, p)}
    BY <1>4 DEF Insert
  <2>2. Elements(Append(q, p)) \subseteq Elements(q) \cup {p}
    <3>1. /\ DOMAIN q = 1 .. Len(q) /\ DOMAIN Append(q, p) = 1 .. Len(q) + 1
          /\ \A j \in 1 .. Len(q) : Append(q, p)[j] = q[j]
          /\ Append(q, p)[Len(q) + 1] = p /\ Len(q) \in Nat
      OBVIOUS
    <3>2. ASSUME NEW j \in 1 .. Len(q) + 1
          PROVE  Append(q, p)[j] \in Elements(q) \cup {p}
      <4>1. CASE j \in 1 .. Len(q)
        BY <4>1, <3>1 DEF Elements
      <4>2. CASE j = Len(q) + 1
        BY <4>2, <3>1
      <4> QED BY <4>1, <4>2, <3>1
    <3> QED BY <3>1, <3>2 DEF Elements
  <2>3. 1 \in 1 .. Len(q) + 1
    OBVIOUS
  <2>4. Elements(InsertAt(q, 1, p)) \subseteq Elements(q) \cup {p}
    BY <2>3, InsertAtAdds
  <2> QED BY <2>1, <2>2, <2>4
<1> QED BY <1>1, <1>2, <1>3, <1>4

LEMMA WithoutTakes ==
  ASSUME NEW q \in Seq(Packets), NEW p \in Elements(q)
  PROVE  /\ Elements(Without(q, p)) \subseteq Elements(q)
         /\ Len(Without(q, p)) = Len(q) - 1
         /\ \E i \in 1 .. Len(q) : \A j \in 1 .. Len(q) - 1 :
              Without(q, p)[j] = IF j < i THEN q[j] ELSE q[j + 1]
<1> DEFINE i == CHOOSE k \in DOMAIN q : q[k] = p
           r == Without(q, p)
<1>1. Len(q) \in Nat /\ DOMAIN q = 1 .. Len(q)
  OBVIOUS
<1>2. i \in 1 .. Len(q) /\ q[i] = p
  BY <1>1 DEF Elements
<1> HIDE DEF i
<1>3. /\ r = [j \in 1 .. Len(q) - 1 |-> IF j < i THEN q[j] ELSE q[j + 1]]
      /\ DOMAIN r = 1 .. Len(q) - 1
      /\ \A j \in 1 .. Len(q) - 1 : r[j] = IF j < i THEN q[j] ELSE q[j + 1]
  BY DEF Without, i
<1>4. Len(r) = Len(q) - 1
  <2>1. Len(q) - 1 \in Nat
    BY <1>1, <1>2
  <2>2. r \in Seq(Packets)
    BY WithoutKeeps
  <2> HIDE DEF r
  <2> QED BY <1>3, <2>1, <2>2
<1>5. ASSUME NEW j \in 1 .. Len(q) - 1  PROVE r[j] \in Elements(q)
  <2>1. j \in DOMAIN q /\ j + 1 \in DOMAIN q
    BY <1>1
  <2>2. r[j] = q[j] \/ r[j] = q[j + 1]
    BY <1>3
  <2> QED BY <2>1, <2>2 DEF Elements
<1>6. Elements(r) \subseteq Elements(q)
  <2> HIDE DEF r
  <2> QED BY <1>3, <1>5 DEF Elements
<1> QED BY <1>2, <1>3, <1>4, <1>6

(* What is in the list has arrived, and what the receive thread holds is at    *)
(* most the bound of the reordering behind it.                                 *)
Arrivals ==
  /\ arrived \subseteq stream.packets
  /\ Elements(queue) \subseteq arrived
  /\ recv.pak # NoPacket =>
       /\ recv.pak \in arrived
       /\ \A x \in Elements(queue) : Place[x] <= Place[recv.pak] + stream.reorder

(* Only an arrival and an insertion bring packets. *)
LEMMA OthersTakeAway ==
  ASSUME Types, [Next]_vars
  PROVE  /\ stream' = stream
         /\ \/ \E p \in Packets : Arrive(p)
            \/ Add
            \/ /\ arrived' = arrived /\ recv'.pak = recv.pak
               /\ queue' = queue \/ \E x \in Elements(queue) : queue' = Without(queue, x)
<1> USE DEF Types, TypeOK
<1>0. recv \in Receiver
  OBVIOUS
<1>1. CASE ReceiveThread
  <2>1. stream' = stream
    <3>1. Timeout \/ CheckBuffering \/ PostStart \/ Periodic => stream' = stream
      BY Zenon DEF Timeout, CheckBuffering, PostStart, Periodic
    <3>2. (\E p \in Packets : Arrive(p)) \/ ReceiverFlush \/ ReceiverUnlink => stream' = stream
      BY Zenon DEF Arrive, ReceiverFlush, ReceiverUnlink
    <3>3. Add \/ LookAtEnds \/ DecideBuffering \/ TellDecoder \/ PrimeDecoder =>
            stream' = stream
      BY Zenon DEF Add, LookAtEnds, DecideBuffering, TellDecoder, PrimeDecoder
    <3> QED BY <1>1, <3>1, <3>2, <3>3 DEF ReceiveThread
  <2>2. CASE Timeout \/ PostStart \/ Periodic
    <3>1. \A from, to \in RecvPC : RStep(from, to) => recv'.pak = recv.pak
      BY <1>0 DEF RStep, Receiver
    <3>2. recv'.pak = recv.pak
      BY <2>2, <3>1 DEF Timeout, PostStart, Periodic, RecvPC
    <3>3. arrived' = arrived /\ queue' = queue
      BY <2>2 DEF Timeout, PostStart, Periodic
    <3> QED BY <2>1, <3>2, <3>3
  <2>3. CASE ReceiverFlush \/ ReceiverUnlink
    BY <1>0, <2>1, <2>3 DEF ReceiverFlush, ReceiverUnlink, Receiver
  <2>4. CASE CheckBuffering \/ LookAtEnds \/ DecideBuffering \/ TellDecoder \/ PrimeDecoder
    <3>1. queue' = queue /\ recv'.pak = recv.pak
      BY <1>0, <2>4, TellMoves, LookMoves
    <3>2. arrived' = arrived
      BY <2>4 DEF CheckBuffering, LookAtEnds, DecideBuffering, TellDecoder, PrimeDecoder
    <3> QED BY <2>1, <3>1, <3>2
  <2> QED BY <1>1, <2>1, <2>2, <2>3, <2>4 DEF ReceiveThread
<1>2. CASE DecodeThread
  <2>1. UNCHANGED <<stream, arrived, recv>>
    BY <1>2 DEF DecodeThread, Awake, ParseMessage, DecoderFlush, DecoderUnlink, TestEof,
       HaveFrame, FindMbit, Announce, BeginFrame, ReadHead, TakePacket, DecodeFrame,
       SkipFrame, SkipPacket, Remove
  <2>2. queue' = queue \/ \E x \in Elements(queue) : queue' = Without(queue, x)
    <3>1. CASE DecoderUnlink \/ TakePacket \/ SkipPacket
      BY <3>1 DEF DecoderUnlink, TakePacket, SkipPacket, Remove
    <3>2. CASE ~(DecoderUnlink \/ TakePacket \/ SkipPacket)
      BY <1>2, <3>2 DEF DecodeThread, Awake, ParseMessage, DecoderFlush, TestEof,
         HaveFrame, FindMbit, Announce, BeginFrame, ReadHead, DecodeFrame, SkipFrame
    <3> QED BY <3>1, <3>2
  <2> QED BY <2>1, <2>2
<1>3. CASE Controller
  BY <1>3 DEF Controller, PauseReceiver, DoPause, PauseStream, PauseDecoder, PostPause,
     Mute, Play
<1>4. CASE UNCHANGED vars
  BY <1>4 DEF vars
<1> QED BY <1>1, <1>2, <1>3, <1>4 DEF Next

LEMMA ArrivalsStep ==
  ASSUME Types, Arrivals, [Next]_vars
  PROVE  Arrivals'
<1> USE DEF Types, TypeOK
<1>0. recv \in Receiver /\ stream' = stream
  BY OthersTakeAway
<1>1. ASSUME NEW p \in Packets, Arrive(p)  PROVE Arrivals'
  <2>1. /\ p \in stream.packets \ arrived /\ arrived' = arrived \cup {p} /\ queue' = queue
        /\ \A x \in arrived : Place[x] <= Place[p] + stream.reorder
    BY <1>1 DEF Arrive
  <2>2. recv'.pak \in {p, NoPacket}
    BY <1>0, <1>1 DEF Arrive, Receiver
  <2> QED BY <1>0, <2>1, <2>2 DEF Arrivals
<1>2. CASE Add
  <2>1. arrived' = arrived /\ recv.pak \in Packets /\ recv.pak # NoPacket
    BY <1>2, PacketsAssumption DEF Add, ReceiverHasPacket
  <2>2. CASE Endless(queue, recv.pak)
    <3>1. queue' = queue /\ recv'.pak = recv.pak
      BY <1>0, <1>2, <2>2 DEF Add, Receiver
    <3> QED BY <1>0, <2>1, <3>1 DEF Arrivals
  <2>3. CASE ~Endless(queue, recv.pak)
    <3>1. queue' = Insert(queue, recv.pak) /\ recv'.pak = NoPacket
      BY <1>0, <1>2, <2>3 DEF Add, Receiver
    <3>2. Elements(queue') \subseteq Elements(queue) \cup {recv.pak}
      BY <2>1, <2>3, <3>1, InsertAdds
    <3> QED BY <1>0, <2>1, <3>1, <3>2 DEF Arrivals
  <2> QED BY <2>2, <2>3
<1>3. CASE /\ arrived' = arrived /\ recv'.pak = recv.pak
           /\ queue' = queue \/ \E x \in Elements(queue) : queue' = Without(queue, x)
  <2>1. Elements(queue') \subseteq Elements(queue)
    BY <1>3, WithoutTakes
  <2> QED BY <1>0, <1>3, <2>1 DEF Arrivals
<1> QED BY <1>1, <1>2, <1>3, OthersTakeAway

LEMMA SpecArrivals == Spec => [](Types /\ Arrivals)
<1>1. Init => Arrivals
  BY DEF Init, Arrivals, Elements
<1>2. Types /\ Arrivals /\ [Next]_vars => (Types /\ Arrivals)'
  BY NextTypes, ArrivalsStep
<1> QED BY <1>1, <1>2, InitTypes, PTL DEF Spec

-----------------------------------------------------------------------------
(* Frames without a hole. *)

(* The next number modulo m is the next number, if less than m - 1 lies between. *)
LEMMA NextModulo ==
  ASSUME NEW m \in Nat \ {0}, NEW a \in Nat, NEW b \in Nat,
         b % m = ((a % m) + 1) % m, a - b < m - 1, b - a < m - 1
  PROVE  b = a + 1
<1> DEFINE ka == a \div m
           kb == b \div m
           ra == a % m
           rb == b % m
<1>1. /\ ka \in Int /\ ra \in 0 .. m - 1 /\ a = m * ka + ra
      /\ kb \in Int /\ rb \in 0 .. m - 1 /\ b = m * kb + rb
  OBVIOUS
<1>2. rb = (ra + 1) % m
  OBVIOUS
<1> HIDE DEF ka, kb, ra, rb
<1>3. \E k \in Int : b - a - 1 = m * k
  <2> DEFINE xa == m * ka
             xb == m * kb
             d == kb - ka
             e == kb - ka - 1
  <2>1. xa \in Int /\ xb \in Int /\ d \in Int /\ e \in Int
    BY <1>1
  <2>2. m * d = xb - xa /\ m * e = xb - xa - m
    BY <1>1
  <2>3. a = xa + ra /\ b = xb + rb
    BY <1>1
  <2> HIDE DEF xa, xb, d, e
  <2>4. CASE ra + 1 < m
    <3>1. rb = ra + 1
      BY <1>1, <1>2, <2>4
    <3>2. b - a - 1 = m * d
      BY <1>1, <2>1, <2>2, <2>3, <3>1
    <3> QED BY <2>1, <3>2
  <2>5. CASE ra + 1 = m
    <3>1. rb = 0
      <4>1. m % m = 0
        OBVIOUS
      <4> QED BY <1>2, <2>5, <4>1
    <3>2. b - a - 1 = m * e
      BY <1>1, <2>1, <2>2, <2>3, <2>5, <3>1
    <3> QED BY <2>1, <3>2
  <2> QED BY <1>1, <2>4, <2>5
<1>4. PICK k \in Int : b - a - 1 = m * k
  BY <1>3
<1>5. k < 1
  <2> SUFFICES ASSUME k >= 1 PROVE FALSE
    BY <1>4
  <2>1. m * k >= m
    BY <1>4
  <2> QED BY <1>4, <2>1
<1>6. k > -1
  <2> SUFFICES ASSUME k <= -1 PROVE FALSE
    BY <1>4
  <2>1. m * k <= -m
    BY <1>4
  <2> QED BY <1>4, <2>1
<1>7. k = 0
  BY <1>4, <1>5, <1>6
<1>8. m * k = 0
  BY <1>7
<1> QED BY <1>4, <1>8

(* In what start_next_frame has gathered each packet follows the one before. *)
Gathered ==
  /\ Elements(dec.frame) \subseteq stream.packets
  /\ \A i \in 1 .. Len(dec.frame) - 1 : Follows(dec.frame[i], dec.frame[i + 1])

LEMMA AppendedFollows ==
  ASSUME NEW f \in Seq(Packets), NEW p \in Packets,
         \A i \in 1 .. Len(f) - 1 : Follows(f[i], f[i + 1])
  PROVE  /\ Elements(Appended(f, p)) \subseteq Elements(f) \cup {p}
         /\ \A i \in 1 .. Len(Appended(f, p)) - 1 :
              Follows(Appended(f, p)[i], Appended(f, p)[i + 1])
<1>1. CASE f # << >> /\ Follows(f[Len(f)], p)
  <2> DEFINE g == Append(f, p)
  <2>1. Appended(f, p) = g
    BY <1>1 DEF Appended
  <2>2. /\ Len(f) \in Nat /\ Len(g) = Len(f) + 1
        /\ DOMAIN f = 1 .. Len(f) /\ DOMAIN g = 1 .. Len(f) + 1
        /\ \A i \in 1 .. Len(f) : g[i] = f[i]
        /\ g[Len(f) + 1] = p
    OBVIOUS
  <2> HIDE DEF g
  <2>3. ASSUME NEW i \in 1 .. Len(g) - 1  PROVE Follows(g[i], g[i + 1])
    <3>1. CASE i = Len(f)
      <4>1. g[i] = f[Len(f)] /\ g[i + 1] = p
        <5>1. Len(f) \in 1 .. Len(f) /\ i + 1 = Len(f) + 1
          BY <2>2, <2>3, <3>1
        <5> QED BY <2>2, <3>1, <5>1
      <4> QED BY <1>1, <4>1
    <3>2. CASE i # Len(f)
      <4>1. i \in 1 .. Len(f) - 1 /\ i \in 1 .. Len(f) /\ i + 1 \in 1 .. Len(f)
        <5>1. i \in 1 .. Len(f) /\ Len(f) \in Nat
          BY <2>2, <2>3
        <5> QED BY <5>1, <3>2
      <4>2. g[i] = f[i] /\ g[i + 1] = f[i + 1]
        BY <2>2, <4>1
      <4> QED BY <4>1, <4>2
    <3> QED BY <3>1, <3>2
  <2>4. ASSUME NEW i \in 1 .. Len(f) + 1  PROVE g[i] \in Elements(f) \cup {p}
    <3>1. CASE i = Len(f) + 1
      BY <2>2, <3>1
    <3>2. CASE i # Len(f) + 1
      <4>1. i \in DOMAIN f /\ g[i] = f[i]
        BY <2>2, <2>4, <3>2
      <4> QED BY <4>1 DEF Elements
    <3> QED BY <3>1, <3>2
  <2>5. Elements(g) \subseteq Elements(f) \cup {p}
    BY <2>2, <2>4 DEF Elements
  <2> QED BY <2>1, <2>3, <2>5
<1>2. CASE ~(f # << >> /\ Follows(f[Len(f)], p))
  <2>1. Appended(f, p) = <<p>>
    BY <1>2 DEF Appended
  <2>2. Elements(<<p>>) = {p} /\ Len(<<p>>) = 1
    BY DEF Elements
  <2> QED BY <2>1, <2>2
<1> QED BY <1>1, <1>2

(* The buffer changes only where a packet is appended, or it is emptied. *)
LEMMA FrameMoves ==
  ASSUME Types, [Next]_vars
  PROVE  \/ dec'.frame = dec.frame
         \/ dec'.frame = << >>
         \/ dec.pak \in Elements(queue) /\ dec'.frame = Appended(dec.frame, dec.pak)
<1> DEFINE empty == << >>
<1>0. dec \in Decoder
  BY DEF Types, TypeOK
<1>1. CASE ReceiveThread
  <2>1. dec' = dec \/ dec' = [dec EXCEPT !.frame = empty]
    <3>1. CASE ReceiverFlush
      BY <3>1, Zenon DEF ReceiverFlush
    <3>2. CASE ~ReceiverFlush
      <4>1. Timeout \/ CheckBuffering \/ PostStart \/ Periodic => dec' = dec
        BY Zenon DEF Timeout, CheckBuffering, PostStart, Periodic
      <4>2. (\E p \in Packets : Arrive(p)) \/ ReceiverUnlink => dec' = dec
        BY Zenon DEF Arrive, ReceiverUnlink
      <4>3. Add \/ LookAtEnds \/ DecideBuffering \/ TellDecoder \/ PrimeDecoder => dec' = dec
        BY Zenon DEF Add, LookAtEnds, DecideBuffering, TellDecoder, PrimeDecoder
      <4> QED BY <1>1, <3>2, <4>1, <4>2, <4>3 DEF ReceiveThread
    <3> QED BY <3>1, <3>2
  <2> HIDE DEF empty
  <2>2. dec'.frame = dec.frame \/ dec'.frame = empty
    BY <1>0, <2>1 DEF Decoder
  <2> QED BY <2>2 DEF empty
<1>2. CASE DecodeThread
  <2>1. CASE Awake \/ ParseMessage \/ TestEof \/ HaveFrame \/ FindMbit \/ Announce
    <3>1. dec' = dec \/ \E to \in DecodePC : dec' = [dec EXCEPT !.pc = to]
      BY <2>1 DEF Awake, ParseMessage, TestEof, HaveFrame, FindMbit, Announce, DStep, DecodePC
    <3>2. dec'.frame = dec.frame
      BY <1>0, <3>1 DEF Decoder
    <3> QED BY <3>2
  <2>2. CASE DecoderFlush \/ DecoderUnlink \/ BeginFrame \/ ReadHead \/ DecodeFrame
    <3> DEFINE none == 0
    <3>1. \/ dec' = dec
          \/ dec' = [dec EXCEPT !.pc = "unlink", !.pak = Head(queue)]
          \/ dec' = [dec EXCEPT !.pc = "wait", !.frame = empty, !.seen = FALSE]
          \/ dec' = [dec EXCEPT !.pc = "flush", !.pak = NoPacket]
          \/ dec' = [dec EXCEPT !.pc = "read", !.frame = empty]
          \/ dec' = [dec EXCEPT !.pc = "top", !.frame = empty, !.skips = none]
          \/ dec' = [dec EXCEPT !.pc = "take", !.pak = Head(queue)]
          \/ dec' = [dec EXCEPT !.pc = "top", !.frame = empty, !.seen = TRUE, !.skips = none]
      BY <2>2 DEF DecoderFlush, DecoderUnlink, BeginFrame, ReadHead, DecodeFrame, Remove
    <3> HIDE DEF empty, none
    <3>2. dec'.frame = dec.frame \/ dec'.frame = empty
      BY <1>0, <3>1 DEF Decoder
    <3> QED BY <3>2 DEF empty
  <2>3. CASE TakePacket
    <3> DEFINE to == IF dec.pak \in LastOfFrame THEN "decode" ELSE "read"
               f == Appended(dec.frame, dec.pak)
    <3>1. \/ dec' = dec
          \/ /\ dec.pak \in Elements(queue)
             /\ dec' = [dec EXCEPT !.pc = to, !.frame = f, !.pak = NoPacket]
      BY <2>3 DEF TakePacket, Remove
    <3> HIDE DEF f, to
    <3>2. dec'.frame = dec.frame \/ (dec.pak \in Elements(queue) /\ dec'.frame = f)
      BY <1>0, <3>1 DEF Decoder
    <3> QED BY <3>2 DEF f
  <2>4. CASE SkipFrame \/ SkipPacket
    <3> DEFINE none == 0
               n == IF dec.skips = 2 THEN 2 ELSE dec.skips + 1
    <3>1. \/ dec' = dec
          \/ dec' = [dec EXCEPT !.pc = "top", !.frame = empty, !.skips = none]
          \/ dec' = [dec EXCEPT !.pc = "skipTake", !.frame = empty, !.pak = Head(queue),
                               !.skips = n]
          \/ dec' = [dec EXCEPT !.pc = "top", !.pak = NoPacket, !.skips = none]
          \/ dec' = [dec EXCEPT !.pak = Head(queue')]
          \/ dec' = [dec EXCEPT !.pc = "begin", !.pak = NoPacket]
      BY <2>4 DEF SkipFrame, SkipPacket, Remove
    <3> HIDE DEF empty, none, n
    <3>2. dec'.frame = dec.frame \/ dec'.frame = empty
      BY <1>0, <3>1 DEF Decoder
    <3> QED BY <3>2 DEF empty
  <2> QED BY <1>2, <2>1, <2>2, <2>3, <2>4 DEF DecodeThread
<1>3. CASE Controller
  <2>1. dec' = dec \/ dec' = [dec EXCEPT !.frame = empty]
    BY <1>3 DEF Controller, PauseReceiver, DoPause, PauseStream, PauseDecoder, PostPause,
       Mute, Play
  <2> HIDE DEF empty
  <2>2. dec'.frame = dec.frame \/ dec'.frame = empty
    BY <1>0, <2>1 DEF Decoder
  <2> QED BY <2>2 DEF empty
<1>4. CASE UNCHANGED vars
  BY <1>4 DEF vars
<1> QED BY <1>1, <1>2, <1>3, <1>4 DEF Next

LEMMA GatheredStep ==
  ASSUME Types, Arrivals, Gathered, [Next]_vars
  PROVE  Gathered'
<1>0. /\ stream' = stream /\ dec.frame \in Seq(Packets) /\ queue \in Seq(Packets)
  BY OthersTakeAway DEF Types, TypeOK, Decoder
<1>1. CASE dec'.frame = dec.frame
  BY <1>0, <1>1 DEF Gathered, Follows, SeqNum, TimeStamp
<1>2. CASE dec'.frame = << >>
  <2>1. Len(dec'.frame) = 0 /\ Elements(dec'.frame) = {}
    BY <1>2 DEF Elements
  <2> QED BY <2>1 DEF Gathered
<1>3. CASE dec.pak \in Elements(queue) /\ dec'.frame = Appended(dec.frame, dec.pak)
  <2> DEFINE g == Appended(dec.frame, dec.pak)
  <2>1. dec.pak \in Packets /\ dec.pak \in stream.packets
    BY <1>0, <1>3 DEF Elements, Arrivals
  <2>2. /\ Elements(g) \subseteq Elements(dec.frame) \cup {dec.pak}
        /\ \A i \in 1 .. Len(g) - 1 : Follows(g[i], g[i + 1])
    BY <1>0, <2>1, AppendedFollows DEF Gathered
  <2> HIDE DEF g
  <2>3. dec'.frame = g
    BY <1>3 DEF g
  <2> QED BY <1>0, <2>1, <2>2, <2>3 DEF Gathered, Follows, SeqNum, TimeStamp
<1> QED BY <1>1, <1>2, <1>3, FrameMoves

LEMMA GatheredHasNoHole ==
  ASSUME Types, Gathered
  PROVE  FrameHasNoHole
<1> SUFFICES ASSUME StampsTellFrames, NEW i \in 1 .. Len(dec.frame) - 1
             PROVE  /\ Place[dec.frame[i + 1]] = Place[dec.frame[i]] + 1
                    /\ FrameNo[dec.frame[i + 1]] = FrameNo[dec.frame[i]]
  BY DEF FrameHasNoHole
<1> DEFINE p == dec.frame[i]
           q == dec.frame[i + 1]
<1>1. dec.frame \in Seq(Packets) /\ stream.seq \in Nat
  BY StreamsTyped DEF Types, TypeOK, Decoder
<1>2. i \in DOMAIN dec.frame /\ i + 1 \in DOMAIN dec.frame
  BY <1>1
<1>3. p \in stream.packets /\ q \in stream.packets /\ p \in Packets /\ q \in Packets
  BY <1>1, <1>2 DEF Gathered, Elements
<1>4. SeqNum(q) = (SeqNum(p) + 1) % SeqMod /\ TimeStamp(q) = TimeStamp(p)
  BY DEF Gathered, Follows
<1> HIDE DEF p, q
<1>5. /\ FrameNo[p] = FrameNo[q]
      /\ Place[p] - Place[q] < SeqMod - 1 /\ Place[q] - Place[p] < SeqMod - 1
  BY <1>3, <1>4 DEF StampsTellFrames
<1>6. Place[p] \in Nat /\ Place[q] \in Nat
  BY <1>3, PacketsAssumption
<1> DEFINE s == stream.seq
           x == Place[p]
           y == Place[q]
           m == SeqMod
<1>7. (y + s) % m = (((x + s) % m) + 1) % m
  BY <1>1, <1>4, <1>6 DEF SeqNum
<1>8. s \in Nat /\ x \in Nat /\ y \in Nat /\ x - y < m - 1 /\ y - x < m - 1 /\ m \in Nat \ {0}
  BY <1>1, <1>5, <1>6, NumbersAssumption
<1> HIDE DEF s, x, y, m
<1>9. x + s \in Nat /\ y + s \in Nat /\ (x + s) - (y + s) < m - 1 /\ (y + s) - (x + s) < m - 1
  BY <1>8
<1>10. y + s = (x + s) + 1
  BY <1>7, <1>8, <1>9, NextModulo
<1>11. Place[q] = Place[p] + 1
  <2>1. y = x + 1
    BY <1>8, <1>10
  <2> QED BY <2>1 DEF x, y
<1> QED BY <1>5, <1>11 DEF p, q

(* Whatever is lost, repeated or delayed and wherever the numbers wrap, the    *)
(* decoder gets no frame with a hole and no two frames as one, as long as the  *)
(* time stamps tell the frames apart.                                          *)
THEOREM FramesHaveNoHole == Spec => []FrameHasNoHole
<1>1. Init => Gathered
  BY DEF Init, Gathered, Elements
<1>2. Types /\ Arrivals /\ Gathered /\ [Next]_vars => Gathered'
  BY GatheredStep
<1>3. Types /\ Gathered => FrameHasNoHole
  BY GatheredHasNoHole
<1> QED BY <1>1, <1>2, <1>3, SpecArrivals, PTL DEF Spec

-----------------------------------------------------------------------------
(* Packets wait in order. *)

Sorted(q) ==
  \A i, j \in 1 .. Len(q) : i <= j => Place[q[i]] <= Place[q[j]]

LEMMA SignedSmall ==
  ASSUME NEW m \in Nat \ {0}, NEW d \in Int, -d < m \div 2, d < m \div 2
  PROVE  Signed(d, m) = d
<1> DEFINE h == m \div 2
           x == d + h
<1>1. h \in Nat /\ h + h <= m
  OBVIOUS
<1>2. -d < h /\ d < h
  OBVIOUS
<1> HIDE DEF h
<1>3. x \in 0 .. m - 1
  BY <1>1, <1>2
<1>4. x % m = x
  <2> HIDE DEF x
  <2> QED BY <1>3
<1>5. Signed(d, m) = (x % m) - h
  BY DEF Signed, h
<1> QED BY <1>1, <1>4, <1>5

(* Without a wrap the difference of the numbers is that of the places. *)
LEMMA DifferenceOfPlaces ==
  ASSUME TypeOK, NoSeqWrap, NEW p \in stream.packets, NEW q \in stream.packets
  PROVE  /\ SeqNum(p) = stream.seq + Place[p]
         /\ Signed(SeqNum(p) - SeqNum(q), SeqMod) = Place[p] - Place[q]
<1> DEFINE s == stream.seq
           x == Place[p]
           y == Place[q]
<1>1. s \in Nat /\ x \in Nat /\ y \in Nat
  BY StreamsTyped, PacketsAssumption
<1>2. SeqMod \in Nat \ {0}
  BY NumbersAssumption
<1>3. s + x < SeqMod /\ s + y < SeqMod /\ x - y < SeqMod \div 2 /\ y - x < SeqMod \div 2
  BY DEF NoSeqWrap
<1> HIDE DEF s, x, y
<1>4. (s + x) % SeqMod = s + x /\ (s + y) % SeqMod = s + y
  BY <1>1, <1>2, <1>3
<1>5. SeqNum(p) = s + x /\ SeqNum(q) = s + y
  BY <1>4 DEF SeqNum, s, x, y
<1>6. (s + x) - (s + y) = x - y /\ x - y \in Int /\ -(x - y) < SeqMod \div 2
  <2>1. SeqMod \div 2 \in Int
    BY <1>2
  <2> QED BY <1>1, <1>3, <2>1
<1>7. Signed(x - y, SeqMod) = x - y
  BY <1>2, <1>3, <1>6, SignedSmall
<1> QED BY <1>5, <1>6, <1>7 DEF s, x, y

LEMMA InsertAtSorted ==
  ASSUME NEW q \in Seq(Packets), NEW p \in Packets, NEW i \in 1 .. Len(q) + 1, Sorted(q),
         \A j \in 1 .. Len(q) : /\ j < i => Place[q[j]] <= Place[p]
                                /\ j >= i => Place[p] <= Place[q[j]]
  PROVE  Sorted(InsertAt(q, i, p))
<1> DEFINE r == InsertAt(q, i, p)
           n == Len(q)
<1>1. n \in Nat /\ DOMAIN q = 1 .. n
  OBVIOUS
<1>2. /\ Len(r) = n + 1
      /\ \A j \in 1 .. n + 1 :
           r[j] = IF j < i THEN q[j] ELSE IF j = i THEN p ELSE q[j - 1]
  BY <1>1 DEF InsertAt
<1>3. i \in 1 .. n + 1
  OBVIOUS
<1>4. /\ \A k, l \in 1 .. n : k <= l => Place[q[k]] <= Place[q[l]]
      /\ \A j \in 1 .. n : /\ j < i => Place[q[j]] <= Place[p]
                           /\ j >= i => Place[p] <= Place[q[j]]
      /\ Place[p] \in Nat
  BY PacketsAssumption DEF Sorted
<1> HIDE DEF r, n
<1>5. ASSUME NEW k \in 1 .. n + 1, NEW l \in 1 .. n + 1, k <= l
      PROVE  Place[r[k]] <= Place[r[l]]
  <2>1. CASE l < i
    <3>1. k \in 1 .. n /\ l \in 1 .. n /\ r[k] = q[k] /\ r[l] = q[l]
      BY <1>1, <1>2, <1>3, <1>5, <2>1
    <3> QED BY <1>4, <1>5, <3>1
  <2>2. CASE l = i
    <3>1. r[l] = p
      BY <1>2, <2>2
    <3>2. CASE k = i
      BY <1>2, <1>4, <3>1, <3>2
    <3>3. CASE k # i
      <4>1. k \in 1 .. n /\ k < i /\ r[k] = q[k]
        BY <1>1, <1>2, <1>3, <1>5, <2>2, <3>3
      <4> QED BY <1>4, <3>1, <4>1
    <3> QED BY <3>2, <3>3
  <2>3. CASE l > i
    <3>1. l - 1 \in 1 .. n /\ l - 1 >= i /\ r[l] = q[l - 1]
      BY <1>1, <1>2, <1>3, <2>3
    <3>2. CASE k < i
      <4>1. k \in 1 .. n /\ k <= l - 1 /\ r[k] = q[k]
        BY <1>1, <1>2, <1>3, <3>1, <3>2
      <4> QED BY <1>4, <3>1, <4>1
    <3>3. CASE k = i
      BY <1>2, <1>4, <3>1, <3>3
    <3>4. CASE k > i
      <4>1. k - 1 \in 1 .. n /\ k - 1 <= l - 1
        BY <1>1, <1>3, <1>5, <2>3, <3>1, <3>4
      <4>2. r[k] = q[k - 1]
        BY <1>2, <3>4
      <4> QED BY <1>4, <3>1, <4>1, <4>2
    <3> QED BY <1>1, <1>3, <3>2, <3>3, <3>4
  <2> QED BY <1>1, <1>3, <2>1, <2>2, <2>3
<1>6. Sorted(r)
  BY <1>2, <1>5 DEF Sorted
<1> QED BY <1>6 DEF r

LEMMA AppendSorted ==
  ASSUME NEW q \in Seq(Packets), NEW p \in Packets, Sorted(q),
         \A j \in 1 .. Len(q) : Place[q[j]] <= Place[p]
  PROVE  Sorted(Append(q, p))
<1> DEFINE r == Append(q, p)
           n == Len(q)
<1>1. n \in Nat /\ Len(r) = n + 1 /\ r[n + 1] = p /\ \A j \in 1 .. n : r[j] = q[j]
  OBVIOUS
<1>2. /\ \A k, l \in 1 .. n : k <= l => Place[q[k]] <= Place[q[l]]
      /\ \A j \in 1 .. n : Place[q[j]] <= Place[p]
      /\ Place[p] \in Nat
  BY PacketsAssumption DEF Sorted
<1> HIDE DEF r, n
<1>3. ASSUME NEW k \in 1 .. n + 1, NEW l \in 1 .. n + 1, k <= l
      PROVE  Place[r[k]] <= Place[r[l]]
  <2>1. CASE l = n + 1 /\ k = n + 1
    BY <1>1, <1>2, <2>1
  <2>2. CASE l = n + 1 /\ k # n + 1
    <3>1. k \in 1 .. n
      BY <1>1, <2>2
    <3> QED BY <1>1, <1>2, <2>2, <3>1
  <2>3. CASE l # n + 1
    <3>1. k \in 1 .. n /\ l \in 1 .. n
      BY <1>1, <1>3, <2>3
    <3> QED BY <1>1, <1>2, <1>3, <3>1
  <2> QED BY <2>1, <2>2, <2>3
<1>4. Sorted(r)
  BY <1>1, <1>3 DEF Sorted
<1> QED BY <1>4 DEF r

LEMMA WithoutSorted ==
  ASSUME NEW q \in Seq(Packets), NEW x \in Elements(q), Sorted(q)
  PROVE  Sorted(Without(q, x))
<1> DEFINE r == Without(q, x)
           n == Len(q)
<1>1. n \in Nat /\ Len(r) = n - 1
  BY WithoutTakes
<1>2. PICK i \in 1 .. n : \A j \in 1 .. n - 1 : r[j] = IF j < i THEN q[j] ELSE q[j + 1]
  BY WithoutTakes
<1>3. \A k, l \in 1 .. n : k <= l => Place[q[k]] <= Place[q[l]]
  BY DEF Sorted
<1> HIDE DEF r, n
<1>4. ASSUME NEW k \in 1 .. n - 1, NEW l \in 1 .. n - 1, k <= l
      PROVE  Place[r[k]] <= Place[r[l]]
  <2>1. PICK a \in {k, k + 1} : r[k] = q[a] /\ (a = k <=> k < i)
    BY <1>2
  <2>2. PICK b \in {l, l + 1} : r[l] = q[b] /\ (b = l <=> l < i)
    BY <1>2
  <2>3. a \in 1 .. n /\ b \in 1 .. n /\ a <= b
    BY <1>1, <1>2, <1>4, <2>1, <2>2
  <2> QED BY <1>3, <2>1, <2>2, <2>3
<1>5. Sorted(r)
  BY <1>1, <1>4 DEF Sorted
<1> QED BY <1>5 DEF r

(* add_rtp_packet_to_queue keeps a list in order, if the packet is at most nine *)
(* places behind.                                                              *)
LEMMA InsertSorted ==
  ASSUME TypeOK, NoSeqWrap, stream.reorder <= 9,
         NEW q \in Seq(Packets), NEW p \in Packets, p \in stream.packets, ~Endless(q, p),
         Elements(q) \subseteq stream.packets, Sorted(q),
         \A x \in Elements(q) : Place[x] <= Place[p] + stream.reorder
  PROVE  Sorted(Insert(q, p))
<1> DEFINE n == Len(q)
           h == Head(q)
           t == q[n]
<1>1. CASE q = << >>
  <2>1. Insert(q, p) = <<p>> /\ Len(<<p>>) = 1
    BY <1>1 DEF Insert
  <2>2. Place[p] <= Place[p]
    BY PacketsAssumption
  <2> QED BY <2>1, <2>2 DEF Sorted
<1>2. ASSUME q # << >>  PROVE Sorted(Insert(q, p))
  <2>1. /\ n \in Nat /\ n >= 1 /\ DOMAIN q = 1 .. n /\ h = q[1]
        /\ h \in Elements(q) /\ t \in Elements(q)
    BY <1>2 DEF Elements
  <2>2. \A j \in 1 .. n : q[j] \in stream.packets /\ q[j] \in Packets
    BY <2>1 DEF Elements
  <2>3. h \in stream.packets /\ t \in stream.packets
    BY <2>1
  <2>4. \A j \in 1 .. n : Place[h] <= Place[q[j]] /\ Place[q[j]] <= Place[t]
    BY <2>1 DEF Sorted
  <2>5. HeadDiff(q, p) = Place[p] - Place[h] /\ TailDiff(q, p) = Place[p] - Place[t]
    BY <2>3, DifferenceOfPlaces DEF HeadDiff, TailDiff
  <2>6. Place[p] \in Nat /\ Place[h] \in Nat /\ Place[t] \in Nat /\ Place[h] <= Place[t]
    BY <2>1, <2>2, <2>4, PacketsAssumption
  <2>7. \A j \in 1 .. n : Place[q[j]] \in Nat
    BY <2>2, PacketsAssumption
  <2>8. Later(q, p) = {j \in 2 .. n : Place[q[j]] > Place[p]}
    <3>1. \A j \in 2 .. n : SeqNum(q[j]) > SeqNum(p) <=> Place[q[j]] > Place[p]
      <4>1. stream.seq \in Nat
        BY StreamsTyped
      <4>2. SUFFICES ASSUME NEW j \in 2 .. n
                     PROVE  SeqNum(q[j]) > SeqNum(p) <=> Place[q[j]] > Place[p]
        OBVIOUS
      <4>3. j \in 1 .. n
        BY <2>1
      <4>4. SeqNum(q[j]) = stream.seq + Place[q[j]] /\ SeqNum(p) = stream.seq + Place[p]
        BY <2>2, <4>3, DifferenceOfPlaces
      <4> DEFINE s == stream.seq
                 x == Place[q[j]]
                 y == Place[p]
      <4>5. s \in Nat /\ x \in Nat /\ y \in Nat
        BY <2>6, <2>7, <4>1, <4>3
      <4>6. SeqNum(q[j]) = s + x /\ SeqNum(p) = s + y
        BY <4>4
      <4> HIDE DEF s, x, y
      <4>7. SeqNum(q[j]) > SeqNum(p) <=> x > y
        BY <4>5, <4>6
      <4> QED BY <4>7 DEF x, y
    <3> QED BY <3>1 DEF Later
  <2> HIDE DEF h, t
  <2>9. CASE Duplicate(q, p)
    BY <1>2, <2>9 DEF Insert
  <2>10. CASE ~Duplicate(q, p) /\ InMiddle(q, p)
    <3> DEFINE L == Later(q, p)
               i == CHOOSE k \in L : \A j \in L : k <= j
    <3>1. L # {} /\ L \subseteq 2 .. n
      BY <1>2, <2>8, <2>10 DEF Endless
    <3>2. \E k \in L : \A j \in L : k <= j
      <4>1. L \subseteq Nat
        BY <3>1
      <4> QED BY <3>1, <4>1, LeastNumber
    <3>3. i \in L /\ \A j \in L : i <= j
      BY <3>2
    <3>4. Insert(q, p) = InsertAt(q, i, p)
      BY <1>2, <2>10 DEF Insert
    <3> HIDE DEF i, L
    <3>5. i \in 2 .. n
      BY <3>1, <3>3
    <3>6. Place[h] < Place[p]
      BY <2>5, <2>6, <2>10 DEF InMiddle
    <3>7. ASSUME NEW j \in 1 .. n, j < i  PROVE Place[q[j]] <= Place[p]
      <4>1. CASE j = 1
        BY <2>1, <2>6, <3>6, <4>1
      <4>2. CASE j # 1
        <5>1. j \in 2 .. n /\ j \notin L
          BY <2>1, <3>3, <3>5, <3>7, <4>2
        <5>2. ~(Place[q[j]] > Place[p])
          BY <2>8, <5>1 DEF L
        <5>3. Place[q[j]] \in Nat
          BY <2>7
        <5> DEFINE x == Place[q[j]]
                   y == Place[p]
        <5>4. x \in Nat /\ y \in Nat /\ ~(x > y)
          BY <2>6, <5>2, <5>3
        <5> HIDE DEF x, y
        <5>5. x <= y
          BY <5>4
        <5> QED BY <5>5 DEF x, y
      <4> QED BY <4>1, <4>2
    <3>8. ASSUME NEW j \in 1 .. n, j >= i  PROVE Place[p] <= Place[q[j]]
      <4>1. i \in 1 .. n /\ i <= j
        BY <2>1, <3>5, <3>8
      <4>2. Place[q[i]] > Place[p] /\ Place[q[i]] <= Place[q[j]]
        BY <2>8, <3>3, <4>1 DEF L, Sorted
      <4> DEFINE x == Place[q[i]]
                 y == Place[p]
                 z == Place[q[j]]
      <4>3. x \in Nat /\ y \in Nat /\ z \in Nat /\ x > y /\ x <= z
        BY <2>6, <2>7, <4>1, <4>2
      <4> HIDE DEF x, y, z
      <4>4. y <= z
        BY <4>3
      <4> QED BY <4>4 DEF y, z
    <3>9. i \in 1 .. Len(q) + 1
      BY <2>1, <3>5
    <3> QED BY <3>4, <3>7, <3>8, <3>9, InsertAtSorted
  <2>11. CASE ~Duplicate(q, p) /\ ~InMiddle(q, p) /\ Place[p] > Place[h]
    <3>1. Place[p] > Place[t]
      <4>1. TailDiff(q, p) # 0 /\ ~(HeadDiff(q, p) > 0 /\ TailDiff(q, p) < 0)
        BY <2>11 DEF InMiddle, Duplicate
      <4>2. HeadDiff(q, p) > 0
        BY <2>5, <2>6, <2>11
      <4> QED BY <2>5, <2>6, <4>1, <4>2
    <3>2. HeadDiff(q, p) \notin -9 .. -1
      BY <2>5, <2>6, <2>11
    <3>3. Insert(q, p) = Append(q, p)
      BY <1>2, <2>11, <3>2 DEF Insert
    <3>4. \A j \in 1 .. n : Place[q[j]] <= Place[p]
      BY <2>4, <2>6, <2>7, <3>1
    <3> QED BY <3>3, <3>4, AppendSorted
  <2>12. CASE ~Duplicate(q, p) /\ ~InMiddle(q, p) /\ ~(Place[p] > Place[h])
    <3>1. Place[p] < Place[h]
      BY <2>5, <2>6, <2>12 DEF Duplicate
    <3>2. Place[h] <= Place[p] + stream.reorder
      BY <2>1
    <3>3. HeadDiff(q, p) \in -9 .. -1
      <4> DEFINE x == Place[p]
                 y == Place[h]
      <4>1. stream.reorder \in Nat /\ stream.reorder <= 9
        BY StreamsTyped
      <4>2. x \in Nat /\ y \in Nat /\ x < y /\ y <= x + stream.reorder
        BY <2>6, <3>1, <3>2
      <4> HIDE DEF x, y
      <4>3. x - y \in -9 .. -1
        BY <4>1, <4>2
      <4> QED BY <2>5, <4>3 DEF x, y
    <3>4. ~(Abs(HeadDiff(q, p)) > Abs(TailDiff(q, p)))
      BY <2>5, <2>6, <3>1 DEF Abs
    <3>5. Insert(q, p) = InsertAt(q, 1, p)
      BY <1>2, <2>12, <3>3, <3>4 DEF Insert
    <3>6. 1 \in 1 .. Len(q) + 1
      OBVIOUS
    <3>7. \A j \in 1 .. n : Place[p] <= Place[q[j]]
      BY <2>4, <2>6, <2>7, <3>1
    <3>8. \A j \in 1 .. n : /\ j < 1 => Place[q[j]] <= Place[p]
                            /\ j >= 1 => Place[p] <= Place[q[j]]
      BY <3>7
    <3> QED BY <3>5, <3>6, <3>8, InsertAtSorted
  <2> QED BY <2>9, <2>10, <2>11, <2>12
<1> QED BY <1>1, <1>2

(* The list is in order, if the stream allows it. *)
ListInOrder == NoSeqWrap /\ stream.reorder <= 9 => Sorted(queue)

LEMMA ListInOrderStep ==
  ASSUME Types, Arrivals, ListInOrder, [Next]_vars
  PROVE  ListInOrder'
<1>0. stream' = stream /\ queue \in Seq(Packets)
  BY OthersTakeAway DEF Types, TypeOK
<1>1. NoSeqWrap' <=> NoSeqWrap
  BY <1>0 DEF NoSeqWrap
<1> SUFFICES ASSUME NoSeqWrap, stream.reorder <= 9 PROVE Sorted(queue')
  BY <1>0, <1>1 DEF ListInOrder, Sorted
<1>2. Sorted(queue)
  BY DEF ListInOrder
<1>3. CASE queue' = queue
  BY <1>2, <1>3
<1>4. CASE \E x \in Elements(queue) : queue' = Without(queue, x)
  BY <1>0, <1>2, <1>4, WithoutSorted
<1>5. CASE Add /\ queue' # queue
  <2>1. /\ ~Endless(queue, recv.pak) /\ queue' = Insert(queue, recv.pak)
        /\ recv.pak \in Packets /\ recv.pak # NoPacket
    BY <1>5, PacketsAssumption DEF Add, Types, ReceiverHasPacket
  <2>2. /\ recv.pak \in stream.packets /\ Elements(queue) \subseteq stream.packets
        /\ \A x \in Elements(queue) : Place[x] <= Place[recv.pak] + stream.reorder
    BY <2>1 DEF Arrivals
  <2> DEFINE p == recv.pak
  <2>3. Sorted(Insert(queue, p))
    <3>1. TypeOK /\ p \in Packets /\ ~Endless(queue, p) /\ p \in stream.packets
      BY <2>1, <2>2 DEF Types
    <3>2. \A x \in Elements(queue) : Place[x] <= Place[p] + stream.reorder
      BY <2>2
    <3> HIDE DEF p
    <3> QED BY <1>0, <1>2, <2>2, <3>1, <3>2, InsertSorted
  <2> QED BY <2>1, <2>3
<1>6. CASE \E p \in Packets : Arrive(p)
  BY <1>3, <1>6 DEF Arrive
<1> QED BY <1>3, <1>4, <1>5, <1>6, OthersTakeAway

(* However packets are lost, repeated and delayed by up to nine places, the    *)
(* list is in the order of the stream, if the stream does not pass the wrap.   *)
THEOREM PacketsInOrder == Spec => []QueueInOrder
<1>1. Init => ListInOrder
  BY DEF Init, ListInOrder, Sorted
<1>2. Types /\ Arrivals /\ ListInOrder /\ [Next]_vars => ListInOrder'
  BY ListInOrderStep
<1>3. Types /\ ListInOrder => QueueInOrder
  <2> SUFFICES ASSUME Types, Sorted(queue), NEW i \in 1 .. Len(queue) - 1
               PROVE  Place[queue[i]] <= Place[queue[i + 1]]
    BY DEF ListInOrder, QueueInOrder
  <2>1. i \in 1 .. Len(queue) /\ i + 1 \in 1 .. Len(queue) /\ i <= i + 1
    BY DEF Types, TypeOK
  <2> QED BY <2>1 DEF Sorted
<1> QED BY <1>1, <1>2, <1>3, SpecArrivals, PTL DEF Spec

-----------------------------------------------------------------------------
(* Who sleeps, and who wakes him. *)

ReadingPC == {"begin", "read", "take", "decode", "skipTake"}

(* The way of the decode thread. *)
LEMMA DecoderPath ==
  ASSUME Types, DecodeThread
  PROVE  \/ Awake /\ dec.pc = "wait" /\ dec'.pc = "parse"
         \/ Awake /\ dec.pc = "asleep" /\ dec'.pc = "top" /\ ghost'.missed = FALSE
         \/ ParseMessage /\ dec.pc \in {"parse", "top"}
              /\ dec'.pc \in {"wait", "top", "eof", "flush"}
         \/ DecoderFlush /\ dec.pc = "flush" /\ dec'.pc \in {"unlink", "wait"}
         \/ DecoderUnlink /\ dec.pc = "unlink" /\ dec'.pc \in {"unlink", "flush"}
         \/ TestEof /\ dec.pc = "eof" /\ dec'.pc = (IF bs.eof THEN "wait" ELSE "have")
         \/ HaveFrame /\ dec.pc = "have" /\ dec'.pc \in {"announce", "find"}
              /\ (dec'.pc = "announce" => queue = << >>)
         \/ FindMbit /\ dec.pc = "find" /\ dec'.pc \in {"announce", "find", "begin"}
              /\ (dec'.pc = "announce" => Elements(queue) \cap LastOfFrame = {})
         \/ Announce /\ dec.pc = "announce" /\ dec'.pc = "asleep"
         \/ /\ BeginFrame \/ ReadHead \/ TakePacket \/ DecodeFrame \/ SkipFrame \/ SkipPacket
            /\ dec.pc \in ReadingPC /\ dec'.pc \in ReadingPC \cup {"top"}
<1>0. dec \in Decoder /\ ghost \in History
  BY DEF Types, TypeOK
<1>1. CASE Awake
  BY <1>0, <1>1 DEF Awake, DStep, Decoder, History
<1>2. CASE ParseMessage
  BY <1>0, <1>2 DEF ParseMessage, DStep, Decoder
<1>3. CASE DecoderFlush
  <2> DEFINE empty == << >>
  <2>1. /\ dec.pc = "flush"
        /\ \/ dec' = [dec EXCEPT !.pc = "unlink", !.pak = Head(queue)]
           \/ dec' = [dec EXCEPT !.pc = "wait", !.frame = empty, !.seen = FALSE]
    BY <1>3 DEF DecoderFlush
  <2> HIDE DEF empty
  <2>2. dec'.pc \in {"unlink", "wait"}
    BY <1>0, <2>1 DEF Decoder
  <2> QED BY <1>3, <2>1, <2>2
<1>4. CASE DecoderUnlink
  BY <1>0, <1>4 DEF DecoderUnlink, Remove, Decoder
<1>5. CASE TestEof
  BY <1>0, <1>5 DEF TestEof, DStep, Decoder
<1>6. CASE HaveFrame
  BY <1>0, <1>6 DEF HaveFrame, DStep, Decoder
<1>7. CASE FindMbit
  BY <1>0, <1>7 DEF FindMbit, DStep, Decoder
<1>8. CASE Announce
  BY <1>0, <1>8 DEF Announce, DStep, Decoder
<1>9. CASE BeginFrame \/ ReadHead \/ TakePacket \/ DecodeFrame \/ SkipFrame \/ SkipPacket
  <2>1. dec.pc \in ReadingPC
    BY <1>9 DEF BeginFrame, ReadHead, TakePacket, DecodeFrame, SkipFrame, SkipPacket, ReadingPC
  <2> DEFINE empty == << >>
             none == 0
             n == IF dec.skips = 2 THEN 2 ELSE dec.skips + 1
             to == IF dec.pak \in LastOfFrame THEN "decode" ELSE "read"
             f == Appended(dec.frame, dec.pak)
  <2>2. CASE BeginFrame \/ ReadHead \/ DecodeFrame
    <3>1. \/ dec' = dec
          \/ dec' = [dec EXCEPT !.pc = "read", !.frame = empty]
          \/ dec' = [dec EXCEPT !.pc = "top", !.frame = empty, !.skips = none]
          \/ dec' = [dec EXCEPT !.pc = "take", !.pak = Head(queue)]
          \/ dec' = [dec EXCEPT !.pc = "top", !.frame = empty, !.seen = TRUE, !.skips = none]
      BY <2>2 DEF BeginFrame, ReadHead, DecodeFrame
    <3> HIDE DEF empty, none
    <3> QED BY <1>0, <1>9, <2>1, <3>1 DEF Decoder, ReadingPC
  <2>3. CASE TakePacket
    <3>1. dec' = dec \/ dec' = [dec EXCEPT !.pc = to, !.frame = f, !.pak = NoPacket]
      BY <2>3 DEF TakePacket, Remove
    <3>2. to \in ReadingPC
      BY DEF ReadingPC
    <3> HIDE DEF to, f
    <3>3. dec'.pc \in ReadingPC
      BY <1>0, <2>1, <3>1, <3>2 DEF Decoder
    <3> QED BY <1>9, <2>1, <3>3
  <2>4. CASE SkipFrame \/ SkipPacket
    <3>1. \/ dec' = dec
          \/ dec' = [dec EXCEPT !.pc = "top", !.frame = empty, !.skips = none]
          \/ dec' = [dec EXCEPT !.pc = "skipTake", !.frame = empty, !.pak = Head(queue),
                               !.skips = n]
          \/ dec' = [dec EXCEPT !.pc = "top", !.pak = NoPacket, !.skips = none]
          \/ dec' = [dec EXCEPT !.pak = Head(queue')]
          \/ dec' = [dec EXCEPT !.pc = "begin", !.pak = NoPacket]
      BY <2>4 DEF SkipFrame, SkipPacket, Remove
    <3> HIDE DEF empty, none, n
    <3> QED BY <1>0, <1>9, <2>1, <3>1 DEF Decoder, ReadingPC
  <2> QED BY <1>9, <2>2, <2>3, <2>4
<1> QED BY <1>1, <1>2, <1>3, <1>4, <1>5, <1>6, <1>7, <1>8, <1>9 DEF DecodeThread

(* What it does to the members of the byte stream. *)
LEMMA DecoderStream ==
  ASSUME Types, DecodeThread
  PROVE  /\ bs'.buffering = bs.buffering \/ (DecoderFlush /\ bs'.buffering = FALSE)
         /\ bs'.eof = bs.eof \/ SkipPacket
         /\ bs'.baseSet = bs.baseSet /\ bs'.base = bs.base
         /\ ~TakePacket /\ ~SkipPacket => bs'.wraps = bs.wraps
         /\ ~TakePacket => bs'.lastTs = bs.lastTs /\ bs'.realtime = bs.realtime
<1> DEFINE none == 0
           b == Clock(bs, TimeStamp(dec.pak))
           w == IF TopBit(bs.lastTs) /\ ~TopBit(TimeStamp(dec.pak)) THEN bs.wraps + 1
                ELSE bs.wraps
           ticks == w * TsMod + TimeStamp(dec.pak)
           t == IF bs.base > ticks THEN 0 ELSE ticks - bs.base
           gone == None
<1>0. bs \in StreamBase
  BY DEF Types, TypeOK
<1>1. CASE DecoderFlush
  <2>1. bs' = bs \/ bs' = [bs EXCEPT !.buffering = FALSE, !.recvd = FALSE, !.silence = gone]
    BY <1>1 DEF DecoderFlush, FlushedStream
  <2> HIDE DEF gone
  <2> QED BY <1>0, <1>1, <2>1 DEF StreamBase
<1>2. CASE TakePacket
  <2>1. bs' = bs \/ bs' = b
    BY <1>2 DEF TakePacket, Remove
  <2>2. b = [bs EXCEPT !.wraps = w, !.lastTs = TimeStamp(dec.pak), !.realtime = t]
    BY DEF Clock
  <2> HIDE DEF b, w, t
  <2>3. /\ b.buffering = bs.buffering /\ b.eof = bs.eof /\ b.baseSet = bs.baseSet
        /\ b.base = bs.base
    BY <1>0, <2>2 DEF StreamBase
  <2> QED BY <1>2, <2>1, <2>3
<1>3. CASE SkipPacket
  <2>1. bs' = bs \/ bs' = [bs EXCEPT !.wraps = none, !.eof = FALSE]
    BY <1>3 DEF SkipPacket, Remove
  <2>2. ~TakePacket
    BY <1>3 DEF SkipPacket, TakePacket
  <2> HIDE DEF none
  <2> QED BY <1>0, <1>3, <2>1, <2>2 DEF StreamBase
<1>4. CASE ~DecoderFlush /\ ~TakePacket /\ ~SkipPacket
  <2>1. bs' = bs
    BY <1>4 DEF DecodeThread, Awake, ParseMessage, DecoderUnlink, TestEof, HaveFrame,
       FindMbit, Announce, BeginFrame, ReadHead, DecodeFrame, SkipFrame, Remove
  <2> QED BY <2>1
<1> QED BY <1>1, <1>2, <1>3, <1>4

(* What the receive thread notes in the history. *)
LEMMA ReceiverNotes ==
  ASSUME Types, ReceiveThread
  PROVE  /\ ghost'.missed =
              (ghost.missed \/ (Add /\ ~Endless(queue, recv.pak) /\ dec.pc = "announce"))
         /\ ghost'.early =
              (ghost.early \/ (TellDecoder /\ ~media.rtpBuffering /\ ctl.pc # "playing"))
         /\ ghost.jumped => ghost'.jumped
         /\ ghost'.ended = ghost.ended /\ ghost'.steady = ghost.steady
         /\ ghost'.last = ghost.last /\ ghost'.recounts = ghost.recounts
         /\ ~DecideBuffering => ghost'.first = ghost.first
         /\ dec'.pc = dec.pc /\ ctl' = ctl
<1>0. ghost \in History /\ dec \in Decoder /\ recv \in Receiver
  BY DEF Types, TypeOK
<1>a. dec'.pc = dec.pc /\ ctl' = ctl
  <2> DEFINE empty == << >>
  <2>1. CASE ReceiverFlush
    <3>1. dec' = dec \/ dec' = [dec EXCEPT !.frame = empty]
      BY <2>1 DEF ReceiverFlush
    <3> HIDE DEF empty
    <3>2. dec'.pc = dec.pc
      BY <1>0, <3>1 DEF Decoder
    <3> QED BY <2>1, <3>2 DEF ReceiverFlush
  <2>2. Timeout \/ CheckBuffering \/ PostStart \/ Periodic => dec' = dec /\ ctl' = ctl
    BY Zenon DEF Timeout, CheckBuffering, PostStart, Periodic
  <2>3. (\E p \in Packets : Arrive(p)) \/ ReceiverUnlink => dec' = dec /\ ctl' = ctl
    BY Zenon DEF Arrive, ReceiverUnlink
  <2>4. Add \/ LookAtEnds \/ DecideBuffering \/ TellDecoder \/ PrimeDecoder =>
          dec' = dec /\ ctl' = ctl
    BY Zenon DEF Add, LookAtEnds, DecideBuffering, TellDecoder, PrimeDecoder
  <2> QED BY <2>1, <2>2, <2>3, <2>4 DEF ReceiveThread
<1>b. ghost.missed \in BOOLEAN /\ ghost.early \in BOOLEAN /\ ghost.jumped \in BOOLEAN
  BY <1>0 DEF History
<1>c. recv.pc # "add" => ~Add
  BY DEF Add
<1>d. recv.pc # "tell" => ~TellDecoder
  BY DEF TellDecoder
<1>1. CASE \/ Timeout \/ CheckBuffering \/ PostStart \/ Periodic \/ ReceiverFlush
            \/ ReceiverUnlink \/ LookAtEnds \/ PrimeDecoder
  <2>1. ghost' = ghost
    BY <1>1 DEF Timeout, CheckBuffering, PostStart, Periodic, ReceiverFlush, ReceiverUnlink,
       LookAtEnds, PrimeDecoder
  <2>2. recv.pc # "add" /\ recv.pc # "tell"
    BY <1>1 DEF Timeout, CheckBuffering, PostStart, Periodic, ReceiverFlush, ReceiverUnlink,
       LookAtEnds, PrimeDecoder, Follow, RStep
  <2> QED BY <1>a, <1>b, <1>c, <1>d, <2>1, <2>2
<1>2. ASSUME NEW p \in Packets, Arrive(p)
      PROVE  /\ ghost'.missed = ghost.missed /\ ghost'.early = ghost.early
             /\ ghost.jumped => ghost'.jumped
             /\ ghost'.ended = ghost.ended /\ ghost'.steady = ghost.steady
             /\ ghost'.last = ghost.last /\ ghost'.first = ghost.first
             /\ ghost'.recounts = ghost.recounts
             /\ ~Add /\ ~TellDecoder
  <2> DEFINE now == ghost.jumped \/ (~media.paused /\ TimeJumped(p))
  <2>1. ghost' = [ghost EXCEPT !.jumped = now] /\ recv.pc = "recv"
    BY <1>2 DEF Arrive
  <2>2. ghost.jumped => now
    OBVIOUS
  <2> HIDE DEF now
  <2> QED BY <1>0, <1>c, <1>d, <2>1, <2>2 DEF History
<1>3. CASE Add
  <2> DEFINE late == ghost.missed \/ dec.pc = "announce"
  <2>1. ~TellDecoder
    BY <1>3, <1>d DEF Add
  <2>2. CASE Endless(queue, recv.pak)
    <3>1. ghost' = ghost
      BY <1>3, <2>2 DEF Add
    <3> QED BY <1>a, <1>b, <2>1, <2>2, <3>1
  <2>3. CASE ~Endless(queue, recv.pak)
    <3>1. ghost' = [ghost EXCEPT !.missed = late]
      BY <1>3, <2>3 DEF Add
    <3> HIDE DEF late
    <3>2. /\ ghost'.missed = late /\ ghost'.early = ghost.early
          /\ ghost'.jumped = ghost.jumped
          /\ ghost'.ended = ghost.ended /\ ghost'.steady = ghost.steady
          /\ ghost'.last = ghost.last /\ ghost'.first = ghost.first
          /\ ghost'.recounts = ghost.recounts
      BY <1>0, <3>1 DEF History
    <3> QED BY <1>3, <1>a, <1>b, <2>1, <2>3, <3>2 DEF late
  <2> QED BY <2>2, <2>3
<1>4. CASE DecideBuffering
  <2> DEFINE f == IF bs.baseSet THEN ghost.first ELSE FrameNo[recv.look]
  <2>1. ghost' = ghost \/ ghost' = [ghost EXCEPT !.first = f]
    BY <1>4 DEF DecideBuffering
  <2> HIDE DEF f
  <2>2. /\ ghost'.missed = ghost.missed /\ ghost'.early = ghost.early
        /\ ghost'.jumped = ghost.jumped
        /\ ghost'.ended = ghost.ended /\ ghost'.steady = ghost.steady
        /\ ghost'.last = ghost.last /\ ghost'.recounts = ghost.recounts
    BY <1>0, <2>1 DEF History
  <2>3. ~Add /\ ~TellDecoder
    BY <1>4 DEF DecideBuffering, Add, TellDecoder
  <2> QED BY <1>4, <1>a, <1>b, <2>2, <2>3
<1>5. CASE TellDecoder
  <2> DEFINE now == ghost.early \/ ctl.pc # "playing"
  <2>1. ~Add
    BY <1>5 DEF TellDecoder, Add
  <2>2. CASE media.rtpBuffering
    <3>1. ghost' = ghost
      BY <1>5, <2>2 DEF TellDecoder
    <3> QED BY <1>a, <1>b, <2>1, <2>2, <3>1
  <2>3. CASE ~media.rtpBuffering
    <3>1. ghost' = [ghost EXCEPT !.early = now]
      BY <1>5, <2>3 DEF TellDecoder
    <3> HIDE DEF now
    <3>2. /\ ghost'.missed = ghost.missed /\ ghost'.early = now
          /\ ghost'.jumped = ghost.jumped
          /\ ghost'.ended = ghost.ended /\ ghost'.steady = ghost.steady
          /\ ghost'.last = ghost.last /\ ghost'.first = ghost.first
          /\ ghost'.recounts = ghost.recounts
      BY <1>0, <3>1 DEF History
    <3> QED BY <1>5, <1>a, <1>b, <2>1, <2>3, <3>2 DEF now
  <2> QED BY <2>2, <2>3
<1>6. CASE \E p \in Packets : Arrive(p)
  BY <1>2, <1>6, <1>a, <1>b
<1> QED BY <1>1, <1>3, <1>4, <1>5, <1>6 DEF ReceiveThread

(* A decode thread that is about to sleep has seen no marker bit, unless a     *)
(* packet came since.                                                          *)
NoMarker == dec.pc = "announce" /\ ~ghost.missed => Elements(queue) \cap LastOfFrame = {}

(* Only the receive thread completes the buffering, and it asks first. *)
DecidesOnce == recv.pc \in {"mark", "head", "tail", "base"} => ~bs.buffering

(* While a complete frame waits for a decode thread that sleeps, the receive   *)
(* thread is on its way to wake it.                                            *)
WakeUpComing ==
  /\ dec.pc = "asleep" /\ media.waiting /\ media.sem = 0 /\ FrameAtTail(queue)
  /\ bs.buffering /\ ~ghost.missed
  => /\ recv.pc \notin {"recv", "mark", "head", "tail", "base", "periodic"}
     /\ recv.pc = "prime" => recv.look = queue[Len(queue)]

Wakeful == NoMarker /\ DecidesOnce /\ WakeUpComing

LEMMA ReceiverWakes ==
  ASSUME Types, Wakeful, ReceiveThread
  PROVE  Wakeful'
<1> USE DEF Wakeful
<1>0. recv \in Receiver /\ bs \in StreamBase /\ media \in Media
  BY DEF Types, TypeOK
<1>1. /\ dec'.pc = dec.pc /\ (~ghost'.missed => ~ghost.missed)
      /\ Add /\ ~Endless(queue, recv.pak) /\ dec.pc = "announce" => ghost'.missed
  BY ReceiverNotes
<1>2. CASE Timeout \/ \E p \in Packets : Arrive(p)
  <2>1. UNCHANGED <<queue, bs, media>> /\ recv.pc = "recv" /\ recv'.pc \in {"periodic", "flush", "add"}
    <3>1. ASSUME NEW p \in Packets, Arrive(p)
          PROVE  /\ UNCHANGED <<queue, bs, media>> /\ recv.pc = "recv"
                 /\ recv'.pc \in {"periodic", "flush", "add"}
      BY <1>0, <3>1 DEF Arrive, Receiver
    <3>2. Timeout => UNCHANGED <<queue, bs, media>> /\ recv.pc = "recv" /\ recv'.pc = "periodic"
      BY <1>0 DEF Timeout, RStep, Receiver
    <3> QED BY <1>2, <3>1, <3>2
  <2> QED BY <1>1, <2>1 DEF NoMarker, DecidesOnce, WakeUpComing
<1>3. CASE ReceiverFlush \/ ReceiverUnlink
  <2>1. recv'.pc \in {"flush", "unlink", "add"} /\ recv.pc # "add"
    BY <1>0, <1>3 DEF ReceiverFlush, ReceiverUnlink, Receiver
  <2>2. Elements(queue') \subseteq Elements(queue)
    <3>1. queue' = queue \/ (recv.freed \in Elements(queue) /\ queue' = Without(queue, recv.freed))
      BY <1>3 DEF ReceiverFlush, ReceiverUnlink
    <3> QED BY <3>1, WithoutTakes DEF Types, TypeOK
  <2> QED BY <1>1, <2>1, <2>2 DEF NoMarker, DecidesOnce, WakeUpComing
<1>4. CASE Add
  <2>1. recv'.pc \in {"loop", "check"}
    BY <1>0, <1>4 DEF Add, Receiver
  <2>2. Endless(queue, recv.pak) => queue' = queue
    BY <1>4 DEF Add
  <2> QED BY <1>1, <1>4, <2>1, <2>2 DEF NoMarker, DecidesOnce, WakeUpComing
<1>5. CASE CheckBuffering
  <2>1. /\ UNCHANGED <<queue, bs, media>>
        /\ \/ recv'.pc = "tell" /\ bs.buffering
           \/ recv'.pc \in {"periodic", "mark"} /\ ~bs.buffering
    BY <1>5, TellMoves DEF Types
  <2> QED BY <1>1, <2>1 DEF NoMarker, DecidesOnce, WakeUpComing
<1>6. CASE LookAtEnds \/ DecideBuffering
  <2>1. /\ UNCHANGED <<queue, media>>
        /\ recv.pc \in {"mark", "head", "tail", "base", "next"}
        /\ recv.pc # "base" => bs' = bs
        /\ recv' = recv => bs' = bs
    BY <1>6, LookMoves DEF Types
  <2>2. \/ recv' = recv
        \/ recv'.pc \in {"next", "tell"}
        \/ recv'.pc \in {"head", "tail", "base"} /\ recv.pc \in {"mark", "head", "tail"}
        \/ recv'.pc = "periodic" /\ ~bs.buffering /\ recv.pc # "base"
    <3>1. CASE recv.pc = "next" /\ recv' # recv
      <4>1. LookAtEnds
        BY <1>6, <3>1, LookMoves DEF Types
      <4>2. recv' = Loaded(IF bs.buffering THEN "tell" ELSE "periodic", NoPacket)
        BY <3>1, <4>1 DEF LookAtEnds, Follow
      <4>3. /\ Loaded("tell", NoPacket).pc = "tell"
            /\ Loaded("periodic", NoPacket).pc = "periodic"
        BY LoadedTypes DEF Types, TypeOK, RecvPC
      <4> QED BY <3>1, <4>2, <4>3
    <3>2. CASE recv.pc = "base" /\ recv' # recv
      <4>1. DecideBuffering
        BY <1>6, <3>2, LookMoves DEF Types
      <4>2. recv' = Loaded("next", HeadPointer(queue))
        BY <3>2, <4>1 DEF DecideBuffering
      <4>3. HeadPointer(queue) \in Packets \cup {NoPacket}
        BY EndPointers DEF Types, TypeOK
      <4>4. recv'.pc = "next"
        BY <4>2, <4>3, LoadedTypes DEF Types, TypeOK, RecvPC
      <4> QED BY <4>4
    <3>3. CASE recv.pc \in {"mark", "head", "tail"} /\ recv' # recv
      <4>1. recv'.pc \in {"head", "tail", "base", "next", "tell", "periodic"}
        BY <1>6, <3>3, LookMoves DEF Types
      <4> QED BY <3>3, <4>1 DEF DecidesOnce
    <3> QED BY <2>1, <3>1, <3>2, <3>3
  <2> QED BY <1>1, <2>1, <2>2 DEF NoMarker, DecidesOnce, WakeUpComing
<1>7. CASE TellDecoder
  <2>1. /\ UNCHANGED <<queue, bs>> /\ recv.pc = "tell"
        /\ \/ recv'.pc = "post"
           \/ recv'.pc = "periodic" /\ UNCHANGED media /\ (media.waiting => queue = << >>)
           \/ recv'.pc = "prime" /\ recv'.look = TailPointer(queue) /\ queue # << >>
    BY <1>7, TellMoves DEF Types
  <2>2. queue # << >> => TailPointer(queue) = queue[Len(queue)]
    BY DEF TailPointer
  <2> QED BY <1>1, <2>1, <2>2 DEF NoMarker, DecidesOnce, WakeUpComing, FrameAtTail
<1>10. CASE PrimeDecoder
  <2>1. /\ UNCHANGED <<queue, bs>> /\ recv.pc = "prime"
        /\ \/ recv' = recv /\ UNCHANGED media
           \/ recv'.pc = "periodic" /\ recv.look \in Elements(queue)
    <3>1. /\ UNCHANGED <<queue, bs>> /\ recv.pc = "prime"
          /\ \/ recv' = recv /\ UNCHANGED media
             \/ recv' = Loaded("periodic", NoPacket) /\ recv.look \in Elements(queue)
      BY <1>10 DEF PrimeDecoder, Follow
    <3>2. Loaded("periodic", NoPacket).pc = "periodic"
      BY LoadedTypes DEF Types, TypeOK, RecvPC
    <3> QED BY <3>1, <3>2
  <2>2. /\ media' = IF recv.look \in Elements(queue) \cap LastOfFrame THEN Primed(media)
                    ELSE media
    BY <1>10 DEF PrimeDecoder
  <2>3. Primed(media).waiting = FALSE
    BY <1>0 DEF Primed, Media
  <2>4. CASE recv.look \in LastOfFrame
    BY <1>1, <2>1, <2>2, <2>3, <2>4 DEF NoMarker, DecidesOnce, WakeUpComing
  <2>5. CASE recv.look \notin LastOfFrame
    <3>1. media' = media
      BY <2>2, <2>5
    <3> QED BY <1>1, <2>1, <2>5, <3>1 DEF NoMarker, DecidesOnce, WakeUpComing, FrameAtTail
  <2> QED BY <2>4, <2>5
<1>8. CASE PostStart
  <2>1. UNCHANGED <<queue, bs>> /\ recv.pc = "post" /\ recv'.pc = "periodic"
    BY <1>0, <1>8 DEF PostStart, RStep, Receiver
  <2>2. media'.sem # 0
    <3>1. media.sem \in Nat /\ media'.sem = media.sem + 1
      BY <1>0, <1>8 DEF PostStart, Media
    <3> QED BY <3>1
  <2> QED BY <1>1, <2>1, <2>2 DEF NoMarker, DecidesOnce, WakeUpComing
<1>9. CASE Periodic
  <2>1. UNCHANGED queue /\ recv.pc = "periodic" /\ recv'.pc = "recv"
    BY <1>0, <1>9 DEF Periodic, RStep, Receiver
  <2>2. bs'.buffering = bs.buffering
    BY <1>0, <1>9 DEF Periodic, AfterPeriod, StreamBase
  <2>3. media'.waiting => media.waiting /\ media'.sem = media.sem
    BY <1>0, <1>9 DEF Periodic, TakeRtpMessage, Primed, Media
  <2> QED BY <1>1, <2>1, <2>2, <2>3 DEF NoMarker, DecidesOnce, WakeUpComing
<1> QED BY <1>2, <1>3, <1>4, <1>5, <1>6, <1>7, <1>8, <1>9, <1>10 DEF ReceiveThread

LEMMA DecoderWakes ==
  ASSUME Types, Wakeful, DecodeThread
  PROVE  Wakeful'
<1> USE DEF Wakeful
<1>1. recv' = recv
  BY DecoderLeaves
<1>2. DecidesOnce'
  BY <1>1, DecoderStream DEF DecidesOnce
<1>3. dec'.pc = "announce" => queue' = queue /\ Elements(queue) \cap LastOfFrame = {}
  <2> SUFFICES ASSUME dec'.pc = "announce"
               PROVE  queue' = queue /\ Elements(queue) \cap LastOfFrame = {}
    OBVIOUS
  <2>1. \/ HaveFrame /\ queue = << >>
        \/ FindMbit /\ Elements(queue) \cap LastOfFrame = {}
    BY DecoderPath DEF ReadingPC
  <2>2. queue = << >> => Elements(queue) = {}
    BY DEF Elements
  <2> QED BY <2>1, <2>2 DEF HaveFrame, FindMbit
<1>4. NoMarker'
  BY <1>3 DEF NoMarker
<1>5. CASE dec'.pc # "asleep"
  BY <1>2, <1>4, <1>5 DEF WakeUpComing
<1>6. CASE dec'.pc = "asleep"
  <2>1. Announce /\ dec.pc = "announce"
    BY <1>6, DecoderPath DEF ReadingPC
  <2>2. queue' = queue /\ ghost' = ghost
    BY <2>1 DEF Announce
  <2>3. FrameAtTail(queue) => Elements(queue) \cap LastOfFrame # {}
    <3>1. queue # << >> => queue[Len(queue)] \in Elements(queue)
      BY DEF Elements, Types, TypeOK
    <3> QED BY <3>1 DEF FrameAtTail
  <2>4. ghost'.missed \/ ~FrameAtTail(queue')
    BY <2>1, <2>2, <2>3 DEF NoMarker
  <2> QED BY <1>2, <1>4, <2>4 DEF WakeUpComing
<1> QED BY <1>5, <1>6

(* What the controller leaves alone. *)
LEMMA ControllerLeaves ==
  ASSUME Types, Controller
  PROVE  /\ UNCHANGED <<stream, arrived, queue, recv, crash>>
         /\ dec'.pc = dec.pc /\ dec'.frame \in {dec.frame, << >>}
         /\ media'.waiting = media.waiting /\ media'.rtpBuffering = media.rtpBuffering
         /\ ghost'.missed = ghost.missed /\ ghost'.early = ghost.early
         /\ ghost'.jumped = ghost.jumped /\ ghost'.ended = ghost.ended
         /\ ghost'.last = ghost.last /\ ghost'.first = ghost.first
         /\ ghost'.recounts = ghost.recounts
         /\ ~PauseStream => bs' = bs /\ ghost'.steady = ghost.steady
         /\ PauseStream => bs' = ResetStream(bs) /\ ghost'.steady = FALSE
         /\ ~PostPause => media'.sem = media.sem
<1>0. dec \in Decoder /\ media \in Media /\ ghost \in History
  BY DEF Types, TypeOK
<1>1. CASE PauseStream
  <2> DEFINE empty == << >>
  <2>1. /\ dec' = [dec EXCEPT !.frame = empty] /\ ghost' = [ghost EXCEPT !.steady = FALSE]
        /\ UNCHANGED <<stream, arrived, queue, recv, crash, media>> /\ bs' = ResetStream(bs)
    BY <1>1 DEF PauseStream
  <2> HIDE DEF empty
  <2>2. dec'.pc = dec.pc /\ dec'.frame = empty
    BY <1>0, <2>1 DEF Decoder
  <2>3. /\ ghost'.missed = ghost.missed /\ ghost'.early = ghost.early
        /\ ghost'.jumped = ghost.jumped /\ ghost'.ended = ghost.ended
        /\ ghost'.last = ghost.last /\ ghost'.first = ghost.first
        /\ ghost'.steady = FALSE /\ ghost'.recounts = ghost.recounts
    BY <1>0, <2>1 DEF History
  <2> QED BY <1>1, <2>1, <2>2, <2>3 DEF empty
<1>2. CASE ~PauseStream
  <2>1. UNCHANGED <<stream, arrived, queue, recv, crash, dec, ghost, bs>>
    BY <1>2 DEF Controller, DoPause, PauseReceiver, PauseDecoder, PostPause, Mute, Play
  <2>2. /\ media'.waiting = media.waiting /\ media'.rtpBuffering = media.rtpBuffering
        /\ ~PostPause => media'.sem = media.sem
    BY <1>0, <1>2 DEF Controller, DoPause, PauseReceiver, PauseDecoder, PostPause, Mute, Play,
       Media
  <2> QED BY <1>2, <2>1, <2>2
<1> QED BY <1>1, <1>2

LEMMA ControllerWakes ==
  ASSUME Types, Wakeful, Controller
  PROVE  Wakeful'
<1>1. bs'.buffering => bs.buffering
  <2>1. ResetStream(bs).buffering = FALSE
    <3> DEFINE none == 0
               gone == None
    <3>1. ResetStream(bs) = [bs EXCEPT !.wraps = none, !.eof = FALSE, !.buffering = FALSE,
               !.baseSet = FALSE, !.recvd = FALSE, !.silence = gone, !.lastRecv = gone]
      BY DEF ResetStream
    <3> HIDE DEF none, gone
    <3> QED BY <3>1 DEF Types, TypeOK, StreamBase
  <2> QED BY <2>1, ControllerLeaves
<1>2. media'.sem = 0 => media.sem = 0
  <2>1. PostPause => media'.sem # 0
    <3>1. media.sem \in Nat /\ (PostPause => media'.sem = media.sem + 1)
      BY DEF PostPause, Types, TypeOK, Media
    <3> QED BY <3>1
  <2> QED BY <2>1, ControllerLeaves
<1> QED BY <1>1, <1>2, ControllerLeaves
        DEF Wakeful, NoMarker, DecidesOnce, WakeUpComing

(* Whatever the threads do at the same time, the decode thread sleeps on a      *)
(* complete frame only if that came between its test and its announcement.      *)
THEOREM SleepIsMissedOnce == Spec => []SleepsOnFrameOnlyIfMissed
<1>1. Init => Wakeful
  BY DEF Init, Wakeful, NoMarker, DecidesOnce, WakeUpComing
<1>2. Types /\ Wakeful /\ UNCHANGED vars => Wakeful'
  BY DEF vars, Wakeful, NoMarker, DecidesOnce, WakeUpComing, FrameAtTail
<1>3. Types /\ Wakeful /\ [Next]_vars => Wakeful'
  BY <1>2, ReceiverWakes, DecoderWakes, ControllerWakes DEF Next
<1>4. Wakeful => SleepsOnFrameOnlyIfMissed
  BY DEF Wakeful, WakeUpComing, SleepsOnFrameOnlyIfMissed
<1> QED BY <1>1, <1>3, <1>4, SpecArrivals, PTL DEF Spec

-----------------------------------------------------------------------------
(* Who starts the decoding. *)

ReceiverOwes == IF recv.pc = "post" THEN 1 ELSE 0
ControllerOwes == IF ctl.pc = "post" THEN 1 ELSE 0
DecoderLooks == IF dec.pc \in {"parse", "top"} THEN 1 ELSE 0

(* Every message that waits has a post of the semaphore to come or a look at   *)
(* the queue under way.                                                        *)
SemCovers ==
  Len(media.decodeQueue) <=
    media.sem + ReceiverOwes + ControllerOwes + DecoderLooks

(* The START for the present buffering has been sent, and no pause has come. *)
Started == media.rtpBuffering /\ media.rtpMsgs = 0 /\ ~ghost.early

StartedInPlay == Started => ctl.pc = "playing"

StartIsLast ==
  Started /\ media.decodeQueue # << >> =>
    media.decodeQueue[Len(media.decodeQueue)] = "START"

(* The flush for an earlier pause comes before the START is read. *)
FlushIsFirst == Started /\ dec.pc \in {"flush", "unlink"} => media.decodeQueue # << >>

(* Once it has been read, only the end of the stream stops the decoding. *)
Decodes ==
  Started /\ media.decodeQueue = << >> /\ dec.pc \in {"wait", "parse"} =>
    ghost.ended /\ (bs.eof \/ ghost.jumped)

StartInv == SemCovers /\ StartedInPlay /\ StartIsLast /\ FlushIsFirst /\ Decodes

LEMMA StartKept ==
  ASSUME Types, StartInv, media' \in Media, media'.decodeQueue = media.decodeQueue,
         media'.sem + ReceiverOwes' >= media.sem + ReceiverOwes,
         dec'.pc = dec.pc, ctl' = ctl, Started' => Started,
         bs.eof => bs'.eof \/ ghost'.jumped,
         ghost.jumped => ghost'.jumped, ghost.ended => ghost'.ended
  PROVE  StartInv'
<1>1. media.sem \in Nat /\ media'.sem \in Nat /\ Len(media.decodeQueue) \in Nat
  BY DEF Types, TypeOK, Media
<1>2. ControllerOwes' = ControllerOwes /\ DecoderLooks' = DecoderLooks
  BY DEF ControllerOwes, DecoderLooks
<1>3. SemCovers'
  <2> DEFINE n == Len(media.decodeQueue)
             a == ReceiverOwes
             c == ControllerOwes
             d == DecoderLooks
             e == ReceiverOwes'
             x == media.sem
             y == media'.sem
  <2>1. a \in Nat /\ c \in Nat /\ d \in Nat /\ e \in Nat
    BY DEF ReceiverOwes, ControllerOwes, DecoderLooks
  <2>2. n <= x + a + c + d /\ y + e >= x + a /\ n \in Nat /\ x \in Nat /\ y \in Nat
    BY <1>1 DEF StartInv, SemCovers
  <2>3. n <= y + e + c + d => SemCovers'
    BY <1>2 DEF SemCovers
  <2> HIDE DEF n, a, c, d, e, x, y
  <2>4. n <= y + e + c + d
    BY <2>1, <2>2
  <2> QED BY <2>3, <2>4
<1>4. StartedInPlay' /\ StartIsLast' /\ FlushIsFirst' /\ Decodes'
  BY DEF StartInv, StartedInPlay, StartIsLast, FlushIsFirst, Decodes
<1> QED BY <1>3, <1>4 DEF StartInv

(* What bytestream_primed and the next message leave alone. *)
LEMMA PrimedKeeps ==
  ASSUME NEW m \in Media
  PROVE  /\ Primed(m).decodeQueue = m.decodeQueue /\ Primed(m).rtpMsgs = m.rtpMsgs
         /\ Primed(m).rtpBuffering = m.rtpBuffering
         /\ Primed(m).sem \in Nat /\ m.sem \in Nat /\ Primed(m).sem >= m.sem
<1> DEFINE S == Seq({"START", "PAUSE"})
<1>1. m \in [rtpBuffering : BOOLEAN, paused : BOOLEAN, waiting : BOOLEAN, sem : Nat,
             decodeQueue : S, rtpMsgs : Nat]
  BY DEF Media
<1> HIDE DEF S
<1> QED BY <1>1 DEF Primed

LEMMA MessageKeeps ==
  ASSUME NEW m \in Media
  PROVE  /\ TakeRtpMessage(m).decodeQueue = m.decodeQueue
         /\ TakeRtpMessage(m).sem = m.sem
         /\ TakeRtpMessage(m) = m \/ TakeRtpMessage(m).rtpBuffering = FALSE
<1> DEFINE S == Seq({"START", "PAUSE"})
<1>1. m \in [rtpBuffering : BOOLEAN, paused : BOOLEAN, waiting : BOOLEAN, sem : Nat,
             decodeQueue : S, rtpMsgs : Nat]
  BY DEF Media
<1> HIDE DEF S
<1> QED BY <1>1 DEF TakeRtpMessage

LEMMA ReceiverStarts ==
  ASSUME Types, FlushOnlyAfterJump, StartInv, ReceiveThread
  PROVE  StartInv'
<1>0. /\ recv \in Receiver /\ bs \in StreamBase /\ media \in Media
      /\ media' \in Media /\ bs' \in StreamBase
      /\ media.sem \in Nat /\ ghost.early \in BOOLEAN
  BY ReceiverTypes DEF Types, TypeOK, Media, History
<1>1. /\ dec'.pc = dec.pc /\ ctl' = ctl
      /\ (ghost.jumped => ghost'.jumped) /\ ghost'.ended = ghost.ended
      /\ ghost'.early =
           (ghost.early \/ (TellDecoder /\ ~media.rtpBuffering /\ ctl.pc # "playing"))
  BY ReceiverNotes
<1>2. ~ghost'.early => ~ghost.early
  BY <1>1
<1>3. /\ recv.pc = "post" => ReceiverOwes = 1
      /\ recv.pc # "post" => ReceiverOwes = 0
      /\ recv'.pc = "post" => ReceiverOwes' = 1
      /\ recv'.pc # "post" => ReceiverOwes' = 0
  BY DEF ReceiverOwes
<1>4. CASE media' = media /\ recv.pc # "post" /\ recv'.pc # "post" /\ ~ReceiverFlush
           /\ bs'.eof = bs.eof
  <2>1. Started' => Started
    BY <1>2, <1>4 DEF Started
  <2>2. media'.sem + ReceiverOwes' >= media.sem + ReceiverOwes
    BY <1>0, <1>3, <1>4
  <2> QED BY <1>0, <1>1, <1>4, <2>1, <2>2, StartKept
<1>5. CASE Timeout
  BY <1>0, <1>4, <1>5 DEF Timeout, RStep, Receiver, ReceiverFlush
<1>6. ASSUME NEW p \in Packets, Arrive(p)  PROVE StartInv'
  BY <1>0, <1>4, <1>6 DEF Arrive, Receiver, ReceiverFlush
<1>7. CASE ReceiverFlush
  <2>1. media' = media /\ recv.pc = "flush" /\ recv'.pc \in {"unlink", "add"}
    BY <1>0, <1>7 DEF ReceiverFlush, Receiver
  <2>2. ghost'.jumped
    BY <1>1, <2>1 DEF FlushOnlyAfterJump
  <2>3. Started' => Started
    BY <1>2, <2>1 DEF Started
  <2>4. media'.sem + ReceiverOwes' >= media.sem + ReceiverOwes
    BY <1>0, <1>3, <2>1
  <2> QED BY <1>0, <1>1, <2>1, <2>2, <2>3, <2>4, StartKept
<1>8. CASE ReceiverUnlink
  BY <1>0, <1>4, <1>8 DEF ReceiverUnlink, Receiver, ReceiverFlush
<1>9. CASE Add
  BY <1>0, <1>4, <1>9 DEF Add, Receiver, StreamBase, ReceiverFlush
<1>10. CASE CheckBuffering
  <2>1. /\ UNCHANGED <<bs, media>> /\ recv.pc = "check"
        /\ recv'.pc \in {"tell", "periodic", "mark"}
    BY <1>10, TellMoves DEF Types
  <2> QED BY <1>4, <2>1 DEF ReceiverFlush
<1>11. CASE LookAtEnds \/ DecideBuffering
  <2>1. media' = media /\ recv.pc \in LookPC /\ recv'.pc \in LookPC \cup {"tell", "periodic"}
    <3>1. recv.pc \in {"mark", "head", "tail", "next", "base"}
      BY <1>11, LookMoves DEF Types
    <3> QED BY <1>11, <3>1, LookMoves DEF Types, LookPC
  <2>2. bs'.eof = bs.eof
    <3> DEFINE ts == IF bs.baseSet THEN bs.base ELSE TimeStamp(recv.look)
    <3>1. bs' = bs \/ bs' = [bs EXCEPT !.buffering = TRUE, !.baseSet = TRUE, !.base = ts]
      BY <1>11 DEF LookAtEnds, DecideBuffering
    <3> HIDE DEF ts
    <3> QED BY <1>0, <3>1 DEF StreamBase
  <2> QED BY <1>4, <2>1, <2>2 DEF ReceiverFlush, LookPC
<1>15. CASE PrimeDecoder
  <2>1. /\ bs' = bs /\ recv.pc = "prime" /\ recv'.pc \in {"prime", "periodic"}
        /\ media' \in {media, Primed(media)}
    <3>1. /\ bs' = bs /\ recv.pc = "prime"
          /\ recv' = recv \/ recv' = Loaded("periodic", NoPacket)
          /\ media' \in {media, Primed(media)}
      BY <1>15 DEF PrimeDecoder, Follow
    <3>2. Loaded("periodic", NoPacket).pc = "periodic"
      BY LoadedTypes DEF Types, TypeOK, RecvPC
    <3> QED BY <3>1, <3>2
  <2>2. /\ media'.decodeQueue = media.decodeQueue /\ media'.rtpBuffering = media.rtpBuffering
        /\ media'.rtpMsgs = media.rtpMsgs
        /\ media'.sem \in Nat /\ media'.sem >= media.sem
    BY <1>0, <2>1, PrimedKeeps
  <2>3. Started' => Started
    BY <1>2, <2>2 DEF Started
  <2>4. media'.sem + ReceiverOwes' >= media.sem + ReceiverOwes
    <3>1. ReceiverOwes' = 0 /\ ReceiverOwes = 0
      BY <1>3, <2>1
    <3> DEFINE x == media.sem
               y == media'.sem
    <3>2. x \in Nat /\ y \in Nat /\ y >= x
      BY <1>0, <2>2
    <3> HIDE DEF x, y
    <3>3. y + 0 >= x + 0
      BY <3>2
    <3> QED BY <3>1, <3>3 DEF x, y
  <2> QED BY <1>0, <1>1, <2>1, <2>2, <2>3, <2>4, StartKept
<1>12. CASE TellDecoder
  <2>1. bs' = bs /\ recv.pc = "tell"
    BY <1>12 DEF TellDecoder
  <2>2. CASE media.rtpBuffering
    <3>1. media' = media /\ recv'.pc \in {"periodic", "prime"}
      BY <1>12, <2>2, TellMoves DEF Types
    <3> QED BY <1>4, <2>1, <3>1 DEF ReceiverFlush
  <2>3. CASE ~media.rtpBuffering
    <3> DEFINE S == {"START", "PAUSE"}
               msgs == media.decodeQueue
               more == Append(msgs, "START")
    <3>1. /\ media' = [media EXCEPT !.rtpBuffering = TRUE, !.decodeQueue = more]
          /\ recv' = [recv EXCEPT !.pc = "post"]
      BY <1>12, <2>3 DEF TellDecoder
    <3>2. msgs \in Seq(S) /\ "START" \in S
      BY <1>0 DEF Media
    <3> HIDE DEF S
    <3>3. /\ Len(more) = Len(msgs) + 1 /\ Len(msgs) \in Nat /\ more # << >>
          /\ more[Len(more)] = "START"
      BY <3>2
    <3> HIDE DEF msgs, more
    <3>4. /\ media'.decodeQueue = more /\ media'.sem = media.sem /\ recv'.pc = "post"
      BY <1>0, <3>1 DEF Media, Receiver
    <3>5. SemCovers'
      <4> DEFINE c == ControllerOwes
                 d == DecoderLooks
      <4>1. c \in Nat /\ d \in Nat
        BY DEF ControllerOwes, DecoderLooks
      <4>a. ControllerOwes' = c /\ DecoderLooks' = d
        BY <1>1 DEF ControllerOwes, DecoderLooks
      <4>2. Len(msgs) <= media.sem + 0 + c + d
        BY <1>3, <2>1 DEF StartInv, SemCovers, msgs
      <4>3. Len(more) <= media.sem + 1 + c + d => SemCovers'
        BY <1>3, <3>4, <4>a DEF SemCovers
      <4> DEFINE n == Len(msgs)
                 x == media.sem
      <4>4. Len(more) = n + 1 /\ n \in Nat /\ x \in Nat /\ n <= x + 0 + c + d
        BY <1>0, <3>3, <4>2
      <4> HIDE DEF c, d, n, x
      <4>5. n + 1 <= x + 1 + c + d
        BY <4>1, <4>4
      <4> QED BY <4>3, <4>4, <4>5 DEF x
    <3>6. Started' => ctl'.pc = "playing"
      BY <1>0, <1>1, <1>12, <2>3 DEF Started
    <3> QED BY <3>3, <3>4, <3>5, <3>6
            DEF StartInv, StartedInPlay, StartIsLast, FlushIsFirst, Decodes
  <2> QED BY <2>2, <2>3
<1>13. CASE PostStart
  <2>1. bs' = bs /\ recv.pc = "post" /\ recv'.pc = "periodic"
    BY <1>0, <1>13 DEF PostStart, RStep, Receiver
  <2>2. /\ media'.decodeQueue = media.decodeQueue /\ media'.rtpBuffering = media.rtpBuffering
        /\ media'.rtpMsgs = media.rtpMsgs /\ media'.sem = media.sem + 1
    BY <1>0, <1>13 DEF PostStart, Media
  <2>3. Started' => Started
    BY <1>2, <2>2 DEF Started
  <2>4. media'.sem + ReceiverOwes' >= media.sem + ReceiverOwes
    BY <1>0, <1>3, <2>1, <2>2
  <2> QED BY <1>0, <1>1, <2>1, <2>2, <2>3, <2>4, StartKept
<1>14. CASE Periodic
  <2>1. recv.pc = "periodic" /\ recv'.pc = "recv"
    BY <1>0, <1>14 DEF Periodic, RStep, Receiver
  <2>2. bs.eof => bs'.eof
    BY <1>0, <1>14 DEF Periodic, AfterPeriod, StreamBase
  <2>3. PICK m \in {media, Primed(media)} : media' = TakeRtpMessage(m)
    BY <1>14 DEF Periodic
  <2>4. /\ m \in Media /\ m.decodeQueue = media.decodeQueue
        /\ m.rtpBuffering = media.rtpBuffering
        /\ m.rtpMsgs = media.rtpMsgs /\ m.sem \in Nat /\ m.sem >= media.sem
    BY <1>0, <2>3, MemberTypes, PrimedKeeps
  <2>5. /\ media'.decodeQueue = media.decodeQueue /\ media'.sem = m.sem
        /\ media' = m \/ media'.rtpBuffering = FALSE
    BY <2>3, <2>4, MessageKeeps
  <2>6. Started' => Started
    BY <1>2, <2>4, <2>5 DEF Started
  <2>7. media'.sem + ReceiverOwes' >= media.sem + ReceiverOwes
    <3>1. ReceiverOwes' = 0 /\ ReceiverOwes = 0
      BY <1>3, <2>1
    <3> DEFINE x == media.sem
               y == media'.sem
    <3>2. x \in Nat /\ y \in Nat /\ y >= x
      BY <1>0, <2>4, <2>5
    <3> HIDE DEF x, y
    <3>3. y + 0 >= x + 0
      BY <3>2
    <3> QED BY <3>1, <3>3 DEF x, y
  <2> QED BY <1>0, <1>1, <2>2, <2>5, <2>6, <2>7, StartKept
<1> QED BY <1>5, <1>6, <1>7, <1>8, <1>9, <1>10, <1>11, <1>12, <1>13, <1>14,
        <1>15 DEF ReceiveThread


(* What the decode thread notes in the history. *)
LEMMA DecoderNotes ==
  ASSUME Types, DecodeThread
  PROVE  /\ ghost'.early = ghost.early /\ ghost'.first = ghost.first
         /\ ghost'.ended = IF TestEof THEN ghost.ended \/ bs.eof ELSE ghost.ended
         /\ ~TakePacket => ghost'.last = ghost.last /\ ghost'.recounts = ghost.recounts
         /\ ~TakePacket /\ ~SkipPacket => ghost'.steady = ghost.steady
<1> DEFINE seen == ghost.ended \/ bs.eof
           by == IF dec.skips > 0 THEN "skip" ELSE "frame"
           f == FrameNo[dec.pak]
           keeps == ghost.steady /\ f < stream.jump /\ Near(f)
           more == IF ghost.last # None /\ GoesBack(ghost.last, f) THEN ghost.recounts + 1
                   ELSE ghost.recounts
           right == ghost.steady /\ bs.wraps = 0
<1>0. ghost \in History
  BY DEF Types, TypeOK
<1>1. CASE ReadHead
  <2>1. ghost' = ghost \/ ghost' = [ghost EXCEPT !.bailed = by]
    BY <1>1 DEF ReadHead
  <2>2. ~TestEof
    BY <1>1 DEF ReadHead, TestEof, DStep
  <2> HIDE DEF by
  <2> QED BY <1>0, <2>1, <2>2 DEF History
<1>2. CASE TestEof
  <2>1. ghost' = [ghost EXCEPT !.ended = seen]
    BY <1>2 DEF TestEof
  <2> HIDE DEF seen
  <2>2. ghost'.ended = seen
    BY <1>0, <2>1 DEF History
  <2>3. /\ ghost'.early = ghost.early /\ ghost'.first = ghost.first
        /\ ghost'.last = ghost.last /\ ghost'.steady = ghost.steady
        /\ ghost'.recounts = ghost.recounts
    BY <1>0, <2>1 DEF History
  <2> QED BY <1>2, <2>2, <2>3 DEF seen
<1>3. CASE TakePacket
  <2>1. \/ ghost' = ghost
        \/ ghost' = [ghost EXCEPT !.last = f, !.steady = keeps, !.recounts = more]
    BY <1>3 DEF TakePacket, Remove, Remember
  <2>2. ~TestEof
    BY <1>3 DEF TakePacket, TestEof, DStep
  <2> HIDE DEF f, keeps, more
  <2> QED BY <1>0, <1>3, <2>1, <2>2 DEF History
<1>4. CASE SkipPacket
  <2>1. ghost' = ghost \/ ghost' = [ghost EXCEPT !.steady = right]
    BY <1>4 DEF SkipPacket, Remove
  <2>2. ~TestEof
    BY <1>4 DEF SkipPacket, TestEof, DStep
  <2> HIDE DEF right
  <2> QED BY <1>0, <1>4, <2>1, <2>2 DEF History
<1>5. CASE Awake
  <2>1. ghost' = ghost \/ ghost' = [ghost EXCEPT !.missed = FALSE]
    BY <1>5 DEF Awake
  <2>2. ~TestEof
    BY <1>5 DEF Awake, TestEof, DStep
  <2> QED BY <1>0, <2>1, <2>2 DEF History
<1>6. CASE ~ReadHead /\ ~TestEof /\ ~TakePacket /\ ~SkipPacket /\ ~Awake
  <2>1. ghost' = ghost
    BY <1>6 DEF DecodeThread, ParseMessage, DecoderFlush, DecoderUnlink, HaveFrame,
       FindMbit, Announce, BeginFrame, DecodeFrame, SkipFrame, Remove
  <2> QED BY <1>6, <2>1
<1> QED BY <1>1, <1>2, <1>3, <1>4, <1>5, <1>6

(* A step that takes no message and does not end the decoding. *)
LEMMA StartStays ==
  ASSUME Types, StartInv, recv' = recv, ctl' = ctl,
         media'.decodeQueue = media.decodeQueue,
         media'.sem + DecoderLooks' >= media.sem + DecoderLooks,
         media'.sem \in Nat, Started' => Started,
         dec'.pc \in {"flush", "unlink"} => dec.pc \in {"flush", "unlink"},
         dec'.pc \in {"wait", "parse"} =>
           \/ /\ dec.pc \in {"wait", "parse"}
              /\ bs'.eof = bs.eof /\ ghost'.jumped = ghost.jumped /\ ghost'.ended = ghost.ended
           \/ Started => media.decodeQueue # << >>
           \/ ghost'.ended /\ bs'.eof
  PROVE  StartInv'
<1>1. SemCovers'
  <2> DEFINE n == Len(media.decodeQueue)
             a == ReceiverOwes
             c == ControllerOwes
             d == DecoderLooks
             e == DecoderLooks'
             x == media.sem
             y == media'.sem
  <2>1. a \in Nat /\ c \in Nat /\ d \in Nat /\ e \in Nat
    BY DEF ReceiverOwes, ControllerOwes, DecoderLooks
  <2>2. n <= x + a + c + d /\ y + e >= x + d /\ n \in Nat /\ x \in Nat /\ y \in Nat
    BY DEF StartInv, SemCovers, Types, TypeOK, Media
  <2>3. ReceiverOwes' = a /\ ControllerOwes' = c
    BY DEF ReceiverOwes, ControllerOwes
  <2>4. n <= y + a + c + e => SemCovers'
    BY <2>3 DEF SemCovers
  <2> HIDE DEF n, a, c, d, e, x, y
  <2>5. n <= y + a + c + e
    BY <2>1, <2>2
  <2> QED BY <2>4, <2>5
<1>2. StartedInPlay' /\ StartIsLast'
  BY DEF StartInv, StartedInPlay, StartIsLast
<1>3. FlushIsFirst' /\ Decodes'
  BY DEF StartInv, FlushIsFirst, Decodes
<1> QED BY <1>1, <1>2, <1>3 DEF StartInv


(* What is left of the messages when the first has been taken. *)
LEMMA RestOfMessages ==
  ASSUME NEW S, NEW q \in Seq(S), q # << >>
  PROVE  /\ Tail(q) \in Seq(S) /\ Len(q) \in Nat /\ Len(Tail(q)) \in Nat
         /\ Len(q) = Len(Tail(q)) + 1
         /\ Tail(q) # << >> => Tail(q)[Len(Tail(q))] = q[Len(q)]
         /\ Tail(q) = << >> => Head(q) = q[Len(q)]
<1>1. /\ Tail(q) \in Seq(S) /\ Len(q) \in Nat /\ Len(q) > 0
      /\ Len(Tail(q)) = Len(q) - 1 /\ Head(q) = q[1]
      /\ \A i \in 1 .. Len(q) - 1 : Tail(q)[i] = q[i + 1]
  BY HeadTailProperties, EmptySeq
<1> DEFINE r == Tail(q)
           n == Len(q)
           m == Len(r)
<1>2. r = << >> <=> m = 0
  BY <1>1, EmptySeq
<1>3. n \in Nat /\ m \in Nat /\ m = n - 1 /\ r \in Seq(S)
  BY <1>1
<1>4. \A i \in 1 .. n - 1 : r[i] = q[i + 1]
  BY <1>1
<1>5. ASSUME r # << >> PROVE r[m] = q[n]
  <2>1. m \in 1 .. n - 1 /\ m + 1 = n
    <3> HIDE DEF r, n, m
    <3> QED BY <1>2, <1>3, <1>5
  <2> QED BY <1>4, <2>1
<1>6. ASSUME r = << >> PROVE Head(q) = q[n]
  <2>1. n = 1
    <3> HIDE DEF r, n, m
    <3> QED BY <1>2, <1>3, <1>6
  <2> QED BY <1>1, <2>1
<1>7. n = m + 1
  <2> HIDE DEF r, n, m
  <2> QED BY <1>3
<1> QED BY <1>3, <1>5, <1>6, <1>7

LEMMA DecoderStarts ==
  ASSUME Types, StartInv, DecodeThread, media' \in Media
  PROVE  StartInv'
<1>0. media \in Media /\ media.sem \in Nat /\ media'.sem \in Nat
  BY DEF Types, TypeOK, Media
<1>1. recv' = recv /\ ctl' = ctl /\ ghost'.jumped = ghost.jumped /\ ghost'.early = ghost.early
  BY DecoderLeaves, DecoderNotes
<1>2. /\ dec.pc \in {"parse", "top"} => DecoderLooks = 1
      /\ dec.pc \notin {"parse", "top"} => DecoderLooks = 0
      /\ dec'.pc \in {"parse", "top"} => DecoderLooks' = 1
      /\ dec'.pc \notin {"parse", "top"} => DecoderLooks' = 0
  BY DEF DecoderLooks
<1>3. CASE Awake
  <2>1. /\ \/ dec.pc = "wait" /\ dec'.pc = "parse"
           \/ dec.pc = "asleep" /\ dec'.pc = "top"
    BY <1>3, DecoderPath DEF Awake, DStep, ParseMessage, DecoderFlush, DecoderUnlink, TestEof,
       HaveFrame, FindMbit, Announce, ReadingPC
  <2>2. /\ media'.decodeQueue = media.decodeQueue /\ media'.rtpBuffering = media.rtpBuffering
        /\ media'.rtpMsgs = media.rtpMsgs /\ media'.sem = media.sem - 1
    <3> DEFINE S == Seq({"START", "PAUSE"})
               n == media.sem - 1
    <3>1. media \in [rtpBuffering : BOOLEAN, paused : BOOLEAN, waiting : BOOLEAN, sem : Nat,
                     decodeQueue : S, rtpMsgs : Nat]
      BY <1>0 DEF Media
    <3>2. \/ media' = [media EXCEPT !.sem = n]
          \/ media' = [media EXCEPT !.sem = n, !.waiting = FALSE]
      BY <1>3 DEF Awake
    <3> HIDE DEF S, n
    <3>3. /\ media'.decodeQueue = media.decodeQueue /\ media'.rtpBuffering = media.rtpBuffering
          /\ media'.rtpMsgs = media.rtpMsgs /\ media'.sem = n
      BY <3>1, <3>2
    <3> QED BY <3>3 DEF n
  <2>3. bs' = bs /\ ghost'.ended = ghost.ended
    BY <1>3, <2>1, DecoderNotes DEF Awake, TestEof, DStep
  <2>4. DecoderLooks' = 1 /\ DecoderLooks = 0
    BY <1>2, <2>1
  <2>5. media'.sem + DecoderLooks' >= media.sem + DecoderLooks
    <3> DEFINE x == media.sem
               y == media'.sem
    <3>1. x \in Nat /\ y = x - 1
      BY <1>0, <2>2
    <3> HIDE DEF x, y
    <3>2. y + 1 >= x + 0
      BY <3>1
    <3> QED BY <2>4, <3>2 DEF x, y
  <2>6. Started' => Started
    BY <1>1, <2>2 DEF Started
  <2>7. dec'.pc \notin {"flush", "unlink"}
    BY <2>1
  <2>8. dec'.pc \in {"wait", "parse"} => dec.pc \in {"wait", "parse"}
    BY <2>1
  <2> QED BY <1>0, <1>1, <2>2, <2>3, <2>5, <2>6, <2>7, <2>8, StartStays
<1>4. CASE ParseMessage /\ media.decodeQueue = << >>
  <2>1. /\ media' = media /\ bs' = bs /\ ghost' = ghost
        /\ \/ dec.pc = "parse" /\ dec'.pc = "wait"
           \/ dec.pc = "top" /\ dec'.pc = "eof"
    BY <1>4 DEF ParseMessage, DStep, Types, TypeOK, Decoder
  <2>2. Len(media.decodeQueue) = 0
    BY <1>4
  <2>3. SemCovers'
    <3> DEFINE a == ReceiverOwes'
               c == ControllerOwes'
               d == DecoderLooks'
               x == media.sem
    <3>1. a \in Nat /\ c \in Nat /\ d \in Nat /\ x \in Nat
      BY <1>0 DEF ReceiverOwes, ControllerOwes, DecoderLooks
    <3>2. 0 <= x + a + c + d => SemCovers'
      BY <2>1, <2>2 DEF SemCovers
    <3> HIDE DEF a, c, d, x
    <3>3. 0 <= x + a + c + d
      BY <3>1
    <3> QED BY <3>2, <3>3
  <2>4. Started' => Started
    BY <2>1 DEF Started
  <2>5. StartedInPlay' /\ StartIsLast'
    BY <1>1, <2>1, <2>4 DEF StartInv, StartedInPlay, StartIsLast
  <2>6. FlushIsFirst' /\ Decodes'
    BY <2>1, <2>4 DEF StartInv, FlushIsFirst, Decodes
  <2> QED BY <2>3, <2>5, <2>6 DEF StartInv
<1>5. CASE ParseMessage /\ media.decodeQueue # << >>
  <2> DEFINE S == {"START", "PAUSE"}
             q == media.decodeQueue
             r == Tail(q)
  <2>1. q \in Seq(S)
    BY <1>0 DEF Media
  <2>2. /\ Len(q) \in Nat /\ Len(r) \in Nat /\ Len(q) = Len(r) + 1
        /\ r # << >> => r[Len(r)] = q[Len(q)]
        /\ r = << >> => Head(q) = q[Len(q)]
    <3> HIDE DEF S, q
    <3>1. q # << >>
      BY <1>5 DEF q
    <3> QED BY <2>1, <3>1, RestOfMessages
  <2>3. media' = [media EXCEPT !.decodeQueue = r] /\ bs' = bs /\ ghost' = ghost
    BY <1>5 DEF ParseMessage
  <2>4. /\ dec.pc \in {"parse", "top"} /\ dec'.pc \in {"flush", "top", "eof"}
        /\ dec'.pc = "flush" => Head(q) = "PAUSE"
    BY <1>5 DEF ParseMessage, DStep, Types, TypeOK, Decoder
  <2>5. /\ media'.decodeQueue = r /\ media'.sem = media.sem
        /\ media'.rtpBuffering = media.rtpBuffering /\ media'.rtpMsgs = media.rtpMsgs
    <3> DEFINE T == Seq(S)
    <3>1. media \in [rtpBuffering : BOOLEAN, paused : BOOLEAN, waiting : BOOLEAN, sem : Nat,
                     decodeQueue : T, rtpMsgs : Nat]
      BY <1>0 DEF Media
    <3> HIDE DEF T, r
    <3> QED BY <2>3, <3>1
  <2>6. Started' => Started
    BY <1>1, <2>5 DEF Started
  <2>7. SemCovers'
    <3> DEFINE a == ReceiverOwes
               c == ControllerOwes
               d == DecoderLooks'
               x == media.sem
               m == Len(q)
               n == Len(r)
    <3>1. a \in Nat /\ c \in Nat /\ d \in Nat /\ x \in Nat
      BY <1>0 DEF ReceiverOwes, ControllerOwes, DecoderLooks
    <3>2. m <= x + a + c + 1
      BY <1>2, <2>4 DEF StartInv, SemCovers
    <3>3. ReceiverOwes' = a /\ ControllerOwes' = c
      BY <1>1 DEF ReceiverOwes, ControllerOwes
    <3>4. n <= x + a + c + d => SemCovers'
      BY <2>5, <3>3 DEF SemCovers
    <3>5. m \in Nat /\ n \in Nat /\ m = n + 1
      BY <2>2
    <3> HIDE DEF a, c, d, x, m, n
    <3>6. n <= x + a + c + d
      BY <3>1, <3>2, <3>5
    <3> QED BY <3>4, <3>6
  <2>8. StartedInPlay'
    BY <1>1, <2>6 DEF StartInv, StartedInPlay
  <2>9. Started => q[Len(q)] = "START"
    BY <1>5 DEF StartInv, StartIsLast
  <2> HIDE DEF q, r
  <2>10. StartIsLast'
    BY <2>2, <2>5, <2>6, <2>9 DEF StartIsLast
  <2>11. FlushIsFirst' /\ Decodes'
    BY <2>2, <2>4, <2>5, <2>6, <2>9 DEF FlushIsFirst, Decodes
  <2> QED BY <2>7, <2>8, <2>10, <2>11 DEF StartInv
<1>6. CASE ~Awake /\ ~ParseMessage
  <2>1. /\ media'.decodeQueue = media.decodeQueue /\ media'.rtpBuffering = media.rtpBuffering
        /\ media'.rtpMsgs = media.rtpMsgs /\ media'.sem = media.sem
    <3> DEFINE S == Seq({"START", "PAUSE"})
    <3>1. media \in [rtpBuffering : BOOLEAN, paused : BOOLEAN, waiting : BOOLEAN, sem : Nat,
                     decodeQueue : S, rtpMsgs : Nat]
      BY <1>0 DEF Media
    <3>2. media' = media \/ media' = [media EXCEPT !.waiting = TRUE]
      BY <1>6 DEF DecodeThread, DecoderFlush, DecoderUnlink, TestEof, HaveFrame, FindMbit,
         Announce, BeginFrame, ReadHead, TakePacket, DecodeFrame, SkipFrame, SkipPacket, Remove
    <3> HIDE DEF S
    <3> QED BY <3>1, <3>2
  <2>2. Started' => Started
    BY <1>1, <2>1 DEF Started
  <2>3. /\ \/ DecoderFlush /\ dec.pc = "flush" /\ dec'.pc \in {"unlink", "wait"}
           \/ dec.pc = "unlink" /\ dec'.pc \in {"unlink", "flush"}
           \/ TestEof /\ dec.pc = "eof" /\ dec'.pc = (IF bs.eof THEN "wait" ELSE "have")
           \/ /\ dec.pc \notin {"parse", "top", "flush", "unlink", "wait"}
              /\ dec'.pc \notin {"wait", "parse", "flush", "unlink"}
    BY <1>6, DecoderPath DEF ReadingPC
  <2>4. DecoderLooks = 0 /\ DecoderLooks' \in {0, 1}
    BY <1>2, <2>3
  <2>5. media'.sem + DecoderLooks' >= media.sem + DecoderLooks
    <3> DEFINE x == media.sem
               d == DecoderLooks'
    <3>1. x \in Nat /\ d \in {0, 1} /\ media'.sem = x
      BY <1>0, <2>1, <2>4
    <3> HIDE DEF x, d
    <3>2. x + d >= x + 0
      BY <3>1
    <3> QED BY <2>4, <3>1, <3>2 DEF x, d
  <2>6. dec'.pc \in {"flush", "unlink"} => dec.pc \in {"flush", "unlink"}
    BY <2>3
  <2>7. ASSUME dec'.pc \in {"wait", "parse"}
        PROVE  (Started => media.decodeQueue # << >>) \/ (ghost'.ended /\ bs'.eof)
    <3>1. CASE DecoderFlush
      <4>1. dec.pc = "flush"
        BY <3>1 DEF DecoderFlush
      <4> QED BY <4>1 DEF StartInv, FlushIsFirst
    <3>2. CASE TestEof /\ bs.eof
      <4>1. ghost'.ended
        BY <3>2, DecoderNotes
      <4>2. bs' = bs
        BY <3>2 DEF TestEof
      <4> QED BY <3>2, <4>1, <4>2
    <3> QED BY <2>3, <2>7, <3>1, <3>2
  <2> QED BY <1>0, <1>1, <2>1, <2>2, <2>5, <2>6, <2>7, StartStays
<1> QED BY <1>3, <1>4, <1>5, <1>6


LEMMA ControllerStarts ==
  ASSUME Types, StartInv, Controller, media' \in Media
  PROVE  StartInv'
<1> DEFINE S == Seq({"START", "PAUSE"})
           q == media.decodeQueue
           more == Append(q, "PAUSE")
           one == media.rtpMsgs + 1
           posted == media.sem + 1
<1>0. /\ media \in [rtpBuffering : BOOLEAN, paused : BOOLEAN, waiting : BOOLEAN, sem : Nat,
                    decodeQueue : S, rtpMsgs : Nat]
      /\ media.sem \in Nat /\ media'.sem \in Nat /\ media.rtpMsgs \in Nat
      /\ ctl \in [pc : ControlPC, pauses : Nat]
  BY DEF Types, TypeOK, Media
<1>a. Len(q) \in Nat /\ Len(more) = Len(q) + 1
  BY <1>0
<1>1. /\ recv' = recv /\ dec'.pc = dec.pc
      /\ ghost'.early = ghost.early /\ ghost'.ended = ghost.ended
      /\ ghost'.jumped = ghost.jumped
  BY ControllerLeaves
<1>2. ReceiverOwes' = ReceiverOwes /\ DecoderLooks' = DecoderLooks
  BY <1>1 DEF ReceiverOwes, DecoderLooks
<1>3. /\ ctl.pc = "post" => ControllerOwes = 1
      /\ ctl.pc # "post" => ControllerOwes = 0
      /\ ctl'.pc = "post" => ControllerOwes' = 1
      /\ ctl'.pc # "post" => ControllerOwes' = 0
  BY DEF ControllerOwes
<1> HIDE DEF S
<1>4. ~Started'
  <2>1. CASE PauseReceiver
    <3>1. media' = [media EXCEPT !.rtpMsgs = one]
      BY <2>1 DEF PauseReceiver
    <3> HIDE DEF one
    <3>2. media'.rtpMsgs = one
      BY <1>0, <3>1
    <3>3. one # 0
      BY <1>0 DEF one
    <3> QED BY <3>2, <3>3 DEF Started
  <2>2. CASE ~PauseReceiver
    <3>1. ~Started
      BY <2>2 DEF StartInv, StartedInPlay, Controller, DoPause, PauseStream, PauseDecoder,
         PostPause, Mute, Play, CStep
    <3>2. \/ media' = media
          \/ media' = [media EXCEPT !.decodeQueue = more]
          \/ media' = [media EXCEPT !.sem = posted]
          \/ media' = [media EXCEPT !.paused = TRUE]
          \/ media' = [media EXCEPT !.paused = FALSE]
      BY <2>2 DEF Controller, DoPause, PauseStream, PauseDecoder, PostPause, Mute, Play
    <3> HIDE DEF more, posted
    <3>3. media'.rtpBuffering = media.rtpBuffering /\ media'.rtpMsgs = media.rtpMsgs
      BY <1>0, <3>2
    <3> QED BY <1>1, <3>1, <3>3 DEF Started
  <2> QED BY <2>1, <2>2
<1>5. \/ media'.decodeQueue = q /\ media'.sem = media.sem
           /\ ctl.pc # "post" /\ ctl'.pc # "post"
      \/ media'.decodeQueue = more /\ media'.sem = media.sem
           /\ ctl.pc # "post" /\ ctl'.pc = "post"
      \/ media'.decodeQueue = q /\ media'.sem = posted
           /\ ctl.pc = "post" /\ ctl'.pc # "post"
  <2>1. CASE PauseReceiver \/ PauseStream \/ Mute \/ Play
    <3> DEFINE n == ctl.pauses + 1
    <3>1. /\ \/ media' = [media EXCEPT !.rtpMsgs = one]
             \/ media' = media
             \/ media' = [media EXCEPT !.paused = TRUE]
             \/ media' = [media EXCEPT !.paused = FALSE]
          /\ ctl.pc # "post"
      BY <2>1 DEF PauseReceiver, PauseStream, Mute, Play, CStep
    <3>2. ctl'.pc # "post"
      BY <1>0, <2>1 DEF PauseReceiver, PauseStream, Mute, Play, CStep
    <3> HIDE DEF one
    <3>3. media'.decodeQueue = q /\ media'.sem = media.sem
      BY <1>0, <3>1
    <3> QED BY <3>1, <3>2, <3>3
  <2>2. CASE PauseDecoder
    <3>1. media' = [media EXCEPT !.decodeQueue = more] /\ ctl.pc # "post" /\ ctl'.pc = "post"
      BY <1>0, <2>2 DEF PauseDecoder, CStep
    <3> HIDE DEF more
    <3>2. media'.decodeQueue = more /\ media'.sem = media.sem
      BY <1>0, <3>1
    <3> QED BY <3>1, <3>2
  <2>3. CASE PostPause
    <3>1. media' = [media EXCEPT !.sem = posted] /\ ctl.pc = "post" /\ ctl'.pc # "post"
      BY <1>0, <2>3 DEF PostPause, CStep
    <3> HIDE DEF posted
    <3>2. media'.decodeQueue = q /\ media'.sem = posted
      BY <1>0, <3>1
    <3> QED BY <3>1, <3>2
  <2> QED BY <2>1, <2>2, <2>3 DEF Controller, DoPause
<1>6. SemCovers'
  <2> DEFINE n == Len(q)
             m == Len(media'.decodeQueue)
             x == media.sem
             y == media'.sem
             a == ReceiverOwes
             d == DecoderLooks
             c == ControllerOwes
             e == ControllerOwes'
  <2>1. /\ a \in Nat /\ d \in Nat /\ n \in Nat /\ x \in Nat
        /\ n <= x + a + c + d
    BY <1>0, <1>a DEF ReceiverOwes, DecoderLooks, StartInv, SemCovers
  <2>2. m <= y + a + e + d => SemCovers'
    BY <1>2 DEF SemCovers
  <2>3. \/ m = n /\ y = x /\ c = 0 /\ e = 0
        \/ m = n + 1 /\ y = x /\ c = 0 /\ e = 1
        \/ m = n /\ y = x + 1 /\ c = 1 /\ e = 0
    BY <1>3, <1>5, <1>a
  <2> HIDE DEF n, m, x, y, a, d, c, e
  <2>4. m <= y + a + e + d
    BY <2>1, <2>3
  <2> QED BY <2>2, <2>4
<1> QED BY <1>4, <1>6 DEF StartInv, StartedInPlay, StartIsLast, FlushIsFirst, Decodes

(* Whatever pauses and jumps come between, a START reaches the decode thread,   *)
(* once enough is buffered, and no PAUSE behind it.                             *)
THEOREM BufferingStarts == Spec => []BufferedIsStarted
<1>1. Init => StartInv
  <2>1. Init => Started = FALSE /\ Len(media.decodeQueue) = 0 /\ media.sem = 0
    BY DEF Init, Started
  <2>2. Init => ReceiverOwes = 0 /\ ControllerOwes = 0 /\ DecoderLooks = 0
    BY DEF Init, ReceiverOwes, ControllerOwes, DecoderLooks
  <2> QED BY <2>1, <2>2
          DEF StartInv, SemCovers, StartedInPlay, StartIsLast, FlushIsFirst, Decodes
<1>2. Types /\ StartInv /\ UNCHANGED vars => StartInv'
  BY DEF vars, StartInv, SemCovers, StartedInPlay, StartIsLast, FlushIsFirst, Decodes,
     Started, ReceiverOwes, ControllerOwes, DecoderLooks
<1>3. Types' => media' \in Media
  BY DEF Types, TypeOK
<1>4. Types /\ Types' /\ FlushOnlyAfterJump /\ StartInv /\ [Next]_vars => StartInv'
  BY <1>2, <1>3, ReceiverStarts, DecoderStarts, ControllerStarts DEF Next
<1>5. Types /\ StartInv => BufferedIsStarted
  <2> SUFFICES ASSUME Types, StartInv, bs.buffering, media.rtpBuffering, ~bs.eof,
                      ctl.pc = "playing", media.rtpMsgs = 0, recv.pc = "recv",
                      dec.pc = "wait", media.sem = 0, ~ghost.early
               PROVE  ghost.ended /\ ghost.jumped
    BY DEF BufferedIsStarted, Types, TypeOK, History
  <2>1. Started
    BY DEF Started
  <2>2. ReceiverOwes = 0 /\ ControllerOwes = 0 /\ DecoderLooks = 0
    BY DEF ReceiverOwes, ControllerOwes, DecoderLooks
  <2>3. media.decodeQueue = << >>
    <3>1. Len(media.decodeQueue) <= 0
      BY <2>2 DEF StartInv, SemCovers
    <3>2. media.decodeQueue \in Seq({"START", "PAUSE"})
      BY DEF Types, TypeOK, Media
    <3> QED BY <3>1, <3>2, EmptySeq
  <2> QED BY <2>1, <2>3 DEF StartInv, Decodes
<1>6. Types /\ LiveInv => FlushOnlyAfterJump
  BY DEF LiveInv
<1> QED BY <1>1, <1>4, <1>5, <1>6, SpecLive, PTL DEF Spec


-----------------------------------------------------------------------------
(* The clock. *)

(* What the top bits tell of two times half a cycle apart at most: the cycles   *)
(* between them, but for one where the time goes back over the wrap or over     *)
(* the middle of a cycle.                                                       *)
LEMMA TopBitsTellCycle ==
  ASSUME NEW m \in Nat \ {0}, NEW a \in Nat, NEW b \in Nat,
         b <= a + m \div 2, a <= b + m \div 2
  PROVE  LET falls == a % m >= m \div 2 /\ ~(b % m >= m \div 2)
             back == b \div m < a \div m \/ (b \div m = a \div m /\ falls)
         IN  (IF falls THEN 1 ELSE 0) = b \div m - a \div m + (IF back THEN 1 ELSE 0)
<1> DEFINE ka == a \div m
           kb == b \div m
           ra == a % m
           rb == b % m
           h == m \div 2
           d == kb - ka
           md == m * d
           falls == ra >= h /\ ~(rb >= h)
           back == kb < ka \/ (kb = ka /\ falls)
<1>1. /\ ka \in Int /\ ra \in 0 .. m - 1 /\ a = m * ka + ra
      /\ kb \in Int /\ rb \in 0 .. m - 1 /\ b = m * kb + rb
  OBVIOUS
<1>2. h \in Nat /\ 2 * h <= m /\ h < m
  OBVIOUS
<1>4. d \in Int /\ md \in Int /\ md = m * kb - m * ka
  BY <1>1
<1>5. b - a = md + rb - ra
  <2> DEFINE x == m * ka
             y == m * kb
  <2>1. x \in Int /\ y \in Int
    BY <1>1
  <2>2. a = x + ra /\ b = y + rb /\ md = y - x /\ ra \in Int /\ rb \in Int
    BY <1>1, <1>4
  <2> HIDE DEF x, y, ra, rb, md
  <2> QED BY <2>1, <2>2
<1>8. b - a <= h /\ a - b <= h
  BY <1>2
<1>6. d >= -1
  <2> SUFFICES ASSUME d <= -2 PROVE FALSE
    BY <1>4
  <2>1. md <= -(2 * m)
    <3> HIDE DEF d
    <3> QED BY <1>4, d <= -2 DEF md
  <2> HIDE DEF md, d, ra, rb, ka, kb, h
  <2> QED BY <1>1, <1>2, <1>4, <1>5, <1>8, <2>1
<1>7. d <= 1
  <2> SUFFICES ASSUME d >= 2 PROVE FALSE
    BY <1>4
  <2>1. md >= 2 * m
    <3> HIDE DEF d
    <3> QED BY <1>4, d >= 2 DEF md
  <2> HIDE DEF md, d, ra, rb, ka, kb, h
  <2> QED BY <1>1, <1>2, <1>4, <1>5, <1>8, <2>1
<1>9. d = kb - ka /\ d \in {-1, 0, 1}
  BY <1>4, <1>6, <1>7
<1>10. (IF falls THEN 1 ELSE 0) = d + (IF back THEN 1 ELSE 0)
  <2>1. CASE d = 0
    <3> HIDE DEF ka, kb, ra, rb, h, d
    <3>1. kb = ka
      BY <1>1, <1>9, <2>1
    <3>2. back <=> falls
      BY <3>1, <1>1
    <3> QED BY <2>1, <3>2
  <2>2. CASE d = 1
    <3>1. md = m
      BY <2>2
    <3> HIDE DEF md, d, ra, rb, ka, kb, h
    <3>2. b - a = m + rb - ra
      BY <1>1, <1>5, <3>1
    <3>3. falls
      BY <1>1, <1>2, <1>8, <3>2
    <3>4. ~back
      BY <1>1, <1>9, <2>2
    <3> QED BY <2>2, <3>3, <3>4
  <2>3. CASE d = -1
    <3>1. md = -m
      BY <2>3
    <3> HIDE DEF md, d, ra, rb, ka, kb, h
    <3>2. b - a = rb - ra - m
      BY <1>1, <1>5, <3>1
    <3>3. ~falls
      BY <1>1, <1>2, <1>8, <3>2
    <3>4. back
      BY <1>1, <1>9, <2>3
    <3> QED BY <2>3, <3>3, <3>4
  <2> QED BY <1>9, <2>1, <2>2, <2>3
<1> QED BY <1>9, <1>10

(* The base of the clock is the time of the first frame. *)
BaseIsFirst ==
  ghost.first # None /\ ghost.first < stream.jump =>
    bs.base = (BaseTs + ghost.first) % TsMod

(* As long as all is steady the base is set once, before a frame is taken. *)
FirstKept ==
  ghost.steady /\ ~ghost.jumped =>
    /\ bs.baseSet <=> ghost.first # None
    /\ ghost.last # None => ghost.first # None /\ ghost.first < stream.jump
    /\ ghost.last = None => bs.wraps = 0 /\ bs.lastTs = 0 /\ ghost.recounts = 0

HasLast == dec.pc = "decode" => ghost.last # None

(* The wraps counted are the sender's and those counted again. *)
ClockRight ==
  ghost.steady /\ ~ghost.jumped /\ ghost.last # None =>
    /\ bs.lastTs = (BaseTs + ghost.last) % TsMod
    /\ bs.wraps = Cycle(ghost.last) - Cycle(ghost.first) + ghost.recounts
    /\ LET ticks == ghost.last - ghost.first + TsMod * ghost.recounts
       IN  bs.realtime = IF ticks < 0 THEN 0 ELSE ticks

ClockInv == BaseIsFirst /\ FirstKept /\ HasLast /\ ClockRight

(* What the receive thread does to the members of the clock. *)
LEMMA ReceiverStream ==
  ASSUME Types, ReceiveThread, ~ReceiverFlush
  PROVE  /\ bs'.lastTs = bs.lastTs /\ bs'.wraps = bs.wraps /\ bs'.realtime = bs.realtime
         /\ \/ /\ bs'.base = bs.base /\ bs'.baseSet = bs.baseSet
               /\ ghost'.first = ghost.first
            \/ /\ bs.baseSet = FALSE /\ bs'.baseSet = TRUE
               /\ \E p \in Packets : bs'.base = TimeStamp(p) /\ ghost'.first = FrameNo[p]
<1>0. bs \in StreamBase /\ ghost \in History /\ queue \in Seq(Packets)
  BY DEF Types, TypeOK
<1>1. CASE DecideBuffering
  <2> DEFINE h == recv.look
             t == IF bs.baseSet THEN bs.base ELSE TimeStamp(h)
             f == IF bs.baseSet THEN ghost.first ELSE FrameNo[h]
  <2>1. \/ bs' = bs /\ ghost' = ghost
        \/ /\ bs.baseSet \/ h \in Elements(queue)
           /\ bs' = [bs EXCEPT !.buffering = TRUE, !.baseSet = TRUE, !.base = t]
           /\ ghost' = [ghost EXCEPT !.first = f]
    BY <1>1 DEF DecideBuffering
  <2>2. CASE bs' = bs /\ ghost' = ghost
    BY <2>2
  <2>3. CASE /\ bs.baseSet \/ h \in Elements(queue)
             /\ bs' = [bs EXCEPT !.buffering = TRUE, !.baseSet = TRUE, !.base = t]
             /\ ghost' = [ghost EXCEPT !.first = f]
    <3>1. ~bs.baseSet => h \in Packets
      BY <1>0, <2>3 DEF Elements
    <3>2. bs.baseSet => t = bs.base /\ f = ghost.first
      OBVIOUS
    <3>3. ~bs.baseSet => t = TimeStamp(h) /\ f = FrameNo[h]
      OBVIOUS
    <3> HIDE DEF h, t, f
    <3>4. /\ bs'.lastTs = bs.lastTs /\ bs'.wraps = bs.wraps /\ bs'.realtime = bs.realtime
          /\ bs'.base = t /\ bs'.baseSet = TRUE /\ ghost'.first = f
          /\ bs.baseSet \in BOOLEAN
      BY <1>0, <2>3 DEF StreamBase, History
    <3> QED BY <3>1, <3>2, <3>3, <3>4
  <2> QED BY <2>1, <2>2, <2>3
<1>2. CASE Add
  <2> DEFINE t == TimeStamp(recv.pak)
  <2>1. bs' = bs \/ bs' = [bs EXCEPT !.recvd = TRUE, !.lastRecv = t]
    BY <1>2 DEF Add
  <2>2. ~DecideBuffering
    BY <1>2 DEF Add, DecideBuffering
  <2> HIDE DEF t
  <2> QED BY <1>0, <2>1, <2>2, ReceiverNotes DEF StreamBase
<1>3. CASE Periodic
  <2> DEFINE gone == None
             none == 0
             more == bs.silence + 1
  <2>1. \/ bs' = bs
        \/ bs' = [bs EXCEPT !.recvd = FALSE, !.silence = gone]
        \/ bs' = [bs EXCEPT !.silence = none]
        \/ bs' = [bs EXCEPT !.eof = TRUE]
        \/ bs' = [bs EXCEPT !.silence = more]
    BY <1>3 DEF Periodic, AfterPeriod
  <2>2. ~DecideBuffering
    BY <1>3 DEF Periodic, RStep, DecideBuffering
  <2> HIDE DEF gone, none, more
  <2> QED BY <1>0, <2>1, <2>2, ReceiverNotes DEF StreamBase
<1>4. CASE ~DecideBuffering /\ ~Add /\ ~Periodic
  <2>1. bs' = bs
    BY <1>4, Zenon DEF ReceiveThread, Timeout, Arrive, ReceiverUnlink, CheckBuffering,
       LookAtEnds, TellDecoder, PrimeDecoder, PostStart
  <2> QED BY <1>4, <2>1, ReceiverNotes
<1> QED BY <1>1, <1>2, <1>3, <1>4

(* A time stamp before the jump. *)
LEMMA StampBeforeJump ==
  ASSUME TypeOK, NEW p \in Packets, FrameNo[p] < stream.jump
  PROVE  TimeStamp(p) = (BaseTs + FrameNo[p]) % TsMod
<1>1. FrameNo[p] \in Nat /\ stream.jump \in Nat /\ BaseTs \in Nat
  BY StreamsTyped, PacketsAssumption, NumbersAssumption
<1>2. ~(FrameNo[p] >= stream.jump)
  <2> DEFINE f == FrameNo[p]
             j == stream.jump
  <2>1. f \in Nat /\ j \in Nat /\ f < j
    BY <1>1
  <2> HIDE DEF f, j
  <2>2. ~(f >= j)
    BY <2>1
  <2> QED BY <2>2 DEF f, j
<1>3. BaseTs + FrameNo[p] + 0 = BaseTs + FrameNo[p]
  BY <1>1
<1> QED BY <1>2, <1>3 DEF TimeStamp

LEMMA ReceiverClock ==
  ASSUME Types, FlushOnlyAfterJump, ClockInv, ReceiveThread
  PROVE  ClockInv'
<1>0. ghost \in History /\ bs \in StreamBase /\ stream' = stream
  BY OthersTakeAway DEF Types, TypeOK, Next
<1>1. /\ ghost'.steady = ghost.steady /\ ghost'.last = ghost.last /\ dec'.pc = dec.pc
      /\ ghost'.recounts = ghost.recounts
      /\ ghost.jumped => ghost'.jumped
  BY ReceiverNotes
<1>2. HasLast'
  BY <1>1 DEF ClockInv, HasLast
<1>3. CASE ReceiverFlush
  <2>1. ghost'.jumped
    BY <1>1, <1>3 DEF FlushOnlyAfterJump, ReceiverFlush
  <2>2. bs'.base = bs.base /\ ghost'.first = ghost.first
    <3>1. ~DecideBuffering
      BY <1>3 DEF ReceiverFlush, DecideBuffering
    <3> DEFINE none == 0
               gone == None
    <3>2. \/ bs' = bs
          \/ bs' = [bs EXCEPT !.wraps = none, !.eof = FALSE, !.buffering = FALSE,
               !.baseSet = FALSE, !.recvd = FALSE, !.silence = gone, !.lastRecv = gone]
      BY <1>3 DEF ReceiverFlush, ResetStream
    <3> HIDE DEF none, gone
    <3>3. bs'.base = bs.base
      BY <1>0, <3>2 DEF StreamBase
    <3> QED BY <3>1, <3>3, ReceiverNotes
  <2> QED BY <1>0, <1>2, <2>1, <2>2 DEF ClockInv, BaseIsFirst, FirstKept, ClockRight
<1>4. CASE ~ReceiverFlush /\ bs'.base = bs.base /\ bs'.baseSet = bs.baseSet
           /\ ghost'.first = ghost.first
  <2>1. bs'.lastTs = bs.lastTs /\ bs'.wraps = bs.wraps /\ bs'.realtime = bs.realtime
    BY <1>4, ReceiverStream
  <2> QED BY <1>0, <1>1, <1>2, <1>4, <2>1 DEF ClockInv, BaseIsFirst, FirstKept, ClockRight
<1>5. ASSUME ~ReceiverFlush, bs.baseSet = FALSE, bs'.baseSet = TRUE, NEW p \in Packets,
             bs'.base = TimeStamp(p), ghost'.first = FrameNo[p]
      PROVE  ClockInv'
  <2>1. bs'.lastTs = bs.lastTs /\ bs'.wraps = bs.wraps /\ bs'.realtime = bs.realtime
    BY <1>5, ReceiverStream
  <2>2. FrameNo[p] \in Nat /\ FrameNo[p] # None
    BY PacketsAssumption DEF None
  <2>3. BaseIsFirst'
    BY <1>0, <1>5, StampBeforeJump DEF BaseIsFirst, Types
  <2>4. ghost'.steady /\ ~ghost'.jumped =>
          /\ ghost'.last = None /\ bs'.wraps = 0 /\ bs'.lastTs = 0 /\ ghost'.recounts = 0
    BY <1>1, <1>5, <2>1 DEF ClockInv, FirstKept
  <2>5. FirstKept' /\ ClockRight'
    BY <1>5, <2>2, <2>4 DEF FirstKept, ClockRight
  <2> QED BY <1>2, <2>3, <2>5 DEF ClockInv
<1> QED BY <1>3, <1>4, <1>5, ReceiverStream


(* What a frame does to the clock, if it keeps the history steady. *)
LEMMA FrameOnClock ==
  ASSUME Types, ClockInv, NEW p \in Packets, bs' = Clock(bs, TimeStamp(p)), stream' = stream,
         ghost'.last = FrameNo[p], ghost'.first = ghost.first, ghost'.jumped = ghost.jumped,
         ghost'.recounts = IF ghost.last # None /\ GoesBack(ghost.last, FrameNo[p])
                           THEN ghost.recounts + 1 ELSE ghost.recounts,
         ghost'.steady => ghost.steady /\ FrameNo[p] < stream.jump /\ Near(FrameNo[p])
  PROVE  BaseIsFirst' /\ FirstKept' /\ ClockRight'
<1> DEFINE f == FrameNo[p]
           ts == TimeStamp(p)
           w == IF TopBit(bs.lastTs) /\ ~TopBit(ts) THEN bs.wraps + 1 ELSE bs.wraps
           ticks == w * TsMod + ts
           t == IF bs.base > ticks THEN 0 ELSE ticks - bs.base
           r == IF ghost.last # None /\ GoesBack(ghost.last, f) THEN ghost.recounts + 1
                ELSE ghost.recounts
<1>0. /\ bs \in StreamBase /\ ghost \in History
      /\ bs.wraps \in Nat /\ bs.lastTs \in Nat /\ bs.base \in Nat
      /\ f \in Nat /\ f # None /\ ghost.recounts \in Nat
      /\ ghost.first \in Nat \cup {None} /\ ghost.last \in Nat \cup {None}
      /\ BaseTs \in Nat /\ TsMod \in Nat \ {0} /\ stream.jump \in Nat
  BY PacketsAssumption, NumbersAssumption, StreamsTyped
     DEF Types, TypeOK, StreamBase, History, None
<1>1. bs' = [bs EXCEPT !.wraps = w, !.lastTs = ts, !.realtime = t]
  BY DEF Clock
<1>2. /\ bs'.wraps = w /\ bs'.lastTs = ts /\ bs'.realtime = t
      /\ bs'.base = bs.base /\ bs'.baseSet = bs.baseSet
  <2> HIDE DEF w, ts, t
  <2> QED BY <1>0, <1>1 DEF StreamBase
<1>3. BaseIsFirst'
  BY <1>2 DEF ClockInv, BaseIsFirst
<1>4. ASSUME ghost'.steady, ~ghost'.jumped
      PROVE  ghost.first # None /\ ghost.first < stream.jump /\ bs.baseSet
  <2>1. CASE ghost.last = None
    BY <1>4, <2>1 DEF ClockInv, FirstKept, Near
  <2>2. CASE ghost.last # None
    BY <1>4, <2>2 DEF ClockInv, FirstKept
  <2> QED BY <2>1, <2>2
<1>5. FirstKept'
  BY <1>0, <1>2, <1>4 DEF FirstKept
<1>6. ASSUME ghost'.steady, ~ghost'.jumped
      PROVE  /\ ts = (BaseTs + f) % TsMod
             /\ w = Cycle(f) - Cycle(ghost.first) + r
             /\ t = LET d == f - ghost.first + TsMod * r IN IF d < 0 THEN 0 ELSE d
  <2> DEFINE a == ghost.first
             b == bs.base
             x == BaseTs + a
             z == BaseTs + f
             h == TsMod \div 2
             y == w * TsMod
             mr == TsMod * r
  <2>1. ts = z % TsMod
    BY <1>6, StampBeforeJump DEF Types
  <2>2. a \in Nat /\ b = x % TsMod
    BY <1>0, <1>4, <1>6 DEF ClockInv, BaseIsFirst
  <2>3. x \in Nat /\ z \in Nat /\ h \in Nat /\ z - x = f - a
    <3> HIDE DEF a, f
    <3> QED BY <1>0, <2>2 DEF f
  <2>4. r \in Nat /\ w \in Nat
    BY <1>0
  <2>5. w = Cycle(f) - Cycle(a) + r
    <3>1. CASE ghost.last = None
      <4>1. Cycle(f) = Cycle(a) /\ bs.wraps = 0 /\ bs.lastTs = 0 /\ r = 0
        BY <1>6, <3>1 DEF ClockInv, FirstKept, Near
      <4>2. ~(TopBit(bs.lastTs) /\ ~TopBit(ts))
        <5>1. ts \in Nat
          <6> HIDE DEF ts, z
          <6> QED BY <1>0, <2>1, <2>3
        <5> HIDE DEF h, ts
        <5>2. 0 >= h => ts >= h
          BY <2>3, <5>1
        <5> QED BY <4>1, <5>2 DEF TopBit, h
      <4>3. w = 0
        BY <4>1, <4>2
      <4>4. Cycle(f) - Cycle(a) = 0
        <5>1. Cycle(a) \in Int
          <6> HIDE DEF x
          <6>1. x \div TsMod \in Int
            BY <1>0, <2>3
          <6> QED BY <6>1 DEF Cycle, x
        <5> QED BY <4>1, <5>1
      <4> HIDE DEF w, r, f, a
      <4> QED BY <4>1, <4>3, <4>4
    <3>2. CASE ghost.last # None
      <4> DEFINE l == ghost.last
                 v == BaseTs + l
                 falls == v % TsMod >= h /\ ~(z % TsMod >= h)
                 back == z \div TsMod < v \div TsMod \/ (z \div TsMod = v \div TsMod /\ falls)
                 kx == x \div TsMod
                 kv == v \div TsMod
                 kz == z \div TsMod
                 n == ghost.recounts
                 u == bs.wraps
      <4>1. l \in Nat /\ f \in l - h .. l + h
        BY <1>0, <1>6, <3>2 DEF Near
      <4>2. v \in Nat /\ z <= v + h /\ v <= z + h
        <5> HIDE DEF l, f, h
        <5> QED BY <1>0, <2>3, <4>1 DEF f
      <4>3. (IF falls THEN 1 ELSE 0) = kz - kv + (IF back THEN 1 ELSE 0)
        <5> DEFINE m == TsMod
        <5>1. m \in Nat \ {0} /\ v \in Nat /\ z \in Nat
          BY <1>0, <2>3, <4>2
        <5>2. z <= v + m \div 2 /\ v <= z + m \div 2
          BY <4>2
        <5> HIDE DEF m, v, z
        <5> QED BY <5>1, <5>2, TopBitsTellCycle DEF m
      <4>4. bs.lastTs = v % TsMod /\ u = kv - kx + n
        BY <1>6, <3>2 DEF ClockInv, ClockRight, Cycle
      <4>5. w = IF falls THEN u + 1 ELSE u
        BY <2>1, <4>4 DEF TopBit
      <4>6. r = IF back THEN n + 1 ELSE n
        BY <3>2 DEF GoesBack, Cycle, TopBit
      <4>7. kx \in Int /\ kv \in Int /\ kz \in Int /\ n \in Nat /\ u \in Nat
        <5> HIDE DEF x, v, z
        <5> QED BY <1>0, <2>3, <4>2
      <4>8. Cycle(f) = kz /\ Cycle(a) = kx
        BY DEF Cycle
      <4> HIDE DEF falls, back, kx, kv, kz, w, r, n, u, f, a
      <4>9. w = kz - kx + r
        BY <4>3, <4>4, <4>5, <4>6, <4>7
      <4> QED BY <4>8, <4>9
    <3> QED BY <3>1, <3>2
  <2>6. y + ts - b = f - a + mr
    <3> DEFINE m == TsMod
               kx == x \div m
               kz == z \div m
               rx == x % m
               rz == z % m
    <3>1. w = kz - kx + r /\ m \in Nat \ {0}
      BY <1>0, <2>5 DEF Cycle
    <3>2. ts = rz /\ b = rx /\ x \in Nat /\ z \in Nat /\ z - x = f - a
      BY <2>1, <2>2, <2>3
    <3>a. x \in Nat /\ z \in Nat /\ m \in Nat \ {0}
      BY <3>1, <3>2
    <3> HIDE DEF x, z, w, r, m, ts, b
    <3>b. kx \in Int /\ rx \in Int /\ x = m * kx + rx
      BY <3>a
    <3>c. kz \in Int /\ rz \in Int /\ z = m * kz + rz
      BY <3>a
    <3>3. /\ kx \in Int /\ rx \in Int /\ x = m * kx + rx
          /\ kz \in Int /\ rz \in Int /\ z = m * kz + rz
      BY <3>b, <3>c
    <3> HIDE DEF kx, kz, rx, rz
    <3>4. w * m = m * kz - m * kx + m * r
      BY <2>4, <3>1, <3>3
    <3> DEFINE cx == m * kx
               cz == m * kz
               cr == m * r
               cw == w * m
    <3>5. /\ cx \in Int /\ cz \in Int /\ cr \in Int
          /\ cw = cz - cx + cr /\ x = cx + rx /\ z = cz + rz
      BY <2>4, <3>1, <3>3, <3>4
    <3> HIDE DEF cx, cz, cr, cw
    <3>6. cw + rz - rx = z - x + cr
      BY <3>3, <3>5
    <3>7. cw + ts - b = f - a + cr
      <4> HIDE DEF f, a
      <4> QED BY <3>2, <3>6
    <3>8. y = cw /\ mr = cr
      BY DEF cw, cr, m
    <3> HIDE DEF y, mr, f, a
    <3> QED BY <3>7, <3>8
  <2>7. t = LET d == f - a + mr IN IF d < 0 THEN 0 ELSE d
    <3>1. b \in Nat /\ ticks = y + ts
      BY <1>0
    <3>2. y \in Nat /\ ts \in Nat /\ mr \in Nat
      <4>1. ts \in Nat
        <5> HIDE DEF ts, z
        <5> QED BY <1>0, <2>1, <2>3
      <4> HIDE DEF w, r, ts
      <4> QED BY <1>0, <2>4, <4>1
    <3>3. t = IF b > ticks THEN 0 ELSE ticks - b
      OBVIOUS
    <3> HIDE DEF a, b, y, ts, f, w, t, ticks, mr
    <3> QED BY <1>0, <2>2, <2>6, <3>1, <3>2, <3>3 DEF f
  <2> QED BY <2>1, <2>5, <2>7
<1>7. ClockRight'
  <2> HIDE DEF w, ts, t
  <2>1. ghost'.recounts = r
    OBVIOUS
  <2> HIDE DEF r
  <2> QED BY <1>2, <1>6, <2>1 DEF ClockRight, Cycle
<1> QED BY <1>3, <1>5, <1>7


LEMMA DecoderClock ==
  ASSUME Types, Types', ClockInv, DecodeThread
  PROVE  ClockInv'
<1>0. /\ ghost \in History /\ bs \in StreamBase /\ dec \in Decoder /\ stream' = stream
      /\ ghost'.jumped = ghost.jumped /\ ghost'.first = ghost.first
      /\ bs'.baseSet = bs.baseSet /\ bs'.base = bs.base
  BY OthersTakeAway, DecoderLeaves, DecoderNotes, DecoderStream DEF Types, TypeOK, Next
<1>1. CASE TakePacket
  <2> DEFINE p == dec.pak
             to == IF p \in LastOfFrame THEN "decode" ELSE "read"
             fr == Appended(dec.frame, p)
             f == FrameNo[p]
             keeps == ghost.steady /\ f < stream.jump /\ Near(f)
             more == IF ghost.last # None /\ GoesBack(ghost.last, f) THEN ghost.recounts + 1
                     ELSE ghost.recounts
  <2>1. CASE UNCHANGED <<dec, bs, ghost>>
    BY <1>0, <2>1 DEF ClockInv, BaseIsFirst, FirstKept, HasLast, ClockRight
  <2>2. CASE p \notin LastOfFrame /\ UNCHANGED <<bs, ghost>>
             /\ dec' = [dec EXCEPT !.pc = to, !.frame = fr, !.pak = NoPacket]
    <3>1. to = "read"
      BY <2>2
    <3> HIDE DEF to, fr
    <3>2. dec'.pc = "read"
      BY <1>0, <2>2, <3>1 DEF Decoder
    <3> QED BY <1>0, <2>2, <3>2 DEF ClockInv, BaseIsFirst, FirstKept, HasLast, ClockRight
  <2>3. CASE p \in LastOfFrame /\ bs' = Clock(bs, TimeStamp(p))
             /\ ghost' = [ghost EXCEPT !.last = f, !.steady = keeps, !.recounts = more]
    <3>1. p \in Packets /\ f \in Nat /\ f # None
      BY <2>3, PacketsAssumption DEF None
    <3> HIDE DEF f, keeps, more
    <3>2. ghost'.last = f /\ ghost'.steady = keeps /\ ghost'.recounts = more
      BY <1>0, <2>3 DEF History
    <3>3. BaseIsFirst' /\ FirstKept' /\ ClockRight'
      <4>1. /\ keeps => ghost.steady /\ FrameNo[p] < stream.jump /\ Near(FrameNo[p])
            /\ more = IF ghost.last # None /\ GoesBack(ghost.last, FrameNo[p])
                      THEN ghost.recounts + 1 ELSE ghost.recounts
        BY DEF keeps, more, f
      <4>2. ghost'.last = FrameNo[p] /\ bs' = Clock(bs, TimeStamp(p))
        BY <2>3, <3>2 DEF f
      <4> HIDE DEF p
      <4> QED BY <1>0, <3>1, <3>2, <4>1, <4>2, FrameOnClock
    <3>4. HasLast'
      BY <3>1, <3>2 DEF HasLast
    <3> QED BY <3>3, <3>4 DEF ClockInv
  <2> QED BY <1>1, <2>1, <2>2, <2>3 DEF TakePacket, Remove, Remember
<1>2. CASE ~TakePacket
  <2>1. /\ ghost'.last = ghost.last /\ bs'.lastTs = bs.lastTs /\ bs'.realtime = bs.realtime
        /\ ghost'.recounts = ghost.recounts
        /\ ghost'.steady /\ ~ghost'.jumped => ghost.steady /\ bs'.wraps = bs.wraps
    <3>1. CASE SkipPacket
      <4> DEFINE right == ghost.steady /\ bs.wraps = 0
                 none == 0
      <4>1. \/ ghost' = ghost /\ bs' = bs
            \/ ghost' = [ghost EXCEPT !.steady = right]
                 /\ bs' = [bs EXCEPT !.wraps = none, !.eof = FALSE]
        BY <3>1 DEF SkipPacket, Remove
      <4>2. CASE ghost' = ghost /\ bs' = bs
        BY <1>0, <4>2
      <4>3. CASE ghost' = [ghost EXCEPT !.steady = right]
                 /\ bs' = [bs EXCEPT !.wraps = none, !.eof = FALSE]
        <5> HIDE DEF right, none
        <5>1. ghost'.steady = right /\ bs'.wraps = none
          BY <1>0, <4>3 DEF History, StreamBase
        <5>2. right => ghost.steady /\ bs.wraps = none
          BY DEF right, none
        <5> QED BY <1>2, <5>1, <5>2, DecoderNotes, DecoderStream
      <4> QED BY <1>2, <4>1, <4>2, <4>3, DecoderNotes, DecoderStream
    <3>2. CASE ~SkipPacket
      BY <1>2, <3>2, DecoderNotes, DecoderStream
    <3> QED BY <3>1, <3>2
  <2>2. dec'.pc = "decode" => dec.pc = "decode"
    <3>1. dec.pc # "decode" => dec'.pc # "decode"
      <4> DEFINE empty == << >>
                 none == 0
      <4>1. CASE BeginFrame \/ ReadHead \/ DecodeFrame
        <5>1. \/ dec' = dec
              \/ dec' = [dec EXCEPT !.pc = "read", !.frame = empty]
              \/ dec' = [dec EXCEPT !.pc = "top", !.frame = empty, !.skips = none]
              \/ dec' = [dec EXCEPT !.pc = "take", !.pak = Head(queue)]
              \/ dec.pc = "decode"
          BY <4>1 DEF BeginFrame, ReadHead, DecodeFrame
        <5> HIDE DEF empty, none
        <5> QED BY <1>0, <5>1 DEF Decoder
      <4>2. CASE SkipFrame
        BY <4>2 DEF SkipFrame
      <4>3. CASE SkipPacket
        <5>1. \/ dec' = dec
              \/ dec' = [dec EXCEPT !.pc = "top", !.pak = NoPacket, !.skips = none]
              \/ dec' = [dec EXCEPT !.pak = Head(queue')]
              \/ dec' = [dec EXCEPT !.pc = "begin", !.pak = NoPacket]
          BY <4>3 DEF SkipPacket, Remove
        <5> HIDE DEF none
        <5> QED BY <1>0, <5>1 DEF Decoder
      <4> QED BY <1>2, <4>1, <4>2, <4>3, DecoderPath DEF ReadingPC
    <3> QED BY <3>1
  <2>3. HasLast'
    BY <2>1, <2>2 DEF ClockInv, HasLast
  <2>4. BaseIsFirst'
    BY <1>0 DEF ClockInv, BaseIsFirst
  <2>5. FirstKept' /\ ClockRight'
    BY <1>0, <2>1 DEF ClockInv, FirstKept, ClockRight
  <2> QED BY <2>3, <2>4, <2>5 DEF ClockInv
<1> QED BY <1>1, <1>2

LEMMA ControllerClock ==
  ASSUME Types, ClockInv, Controller
  PROVE  ClockInv'
<1>1. /\ stream' = stream /\ dec'.pc = dec.pc
      /\ ghost'.jumped = ghost.jumped /\ ghost'.last = ghost.last /\ ghost'.first = ghost.first
      /\ ghost'.recounts = ghost.recounts
      /\ ~PauseStream => bs' = bs /\ ghost'.steady = ghost.steady
      /\ PauseStream => bs' = ResetStream(bs) /\ ghost'.steady = FALSE
  BY ControllerLeaves
<1>2. bs'.base = bs.base
  <2> DEFINE none == 0
             gone == None
  <2>1. ResetStream(bs) = [bs EXCEPT !.wraps = none, !.eof = FALSE, !.buffering = FALSE,
             !.baseSet = FALSE, !.recvd = FALSE, !.silence = gone, !.lastRecv = gone]
    BY DEF ResetStream
  <2> HIDE DEF none, gone
  <2>2. ResetStream(bs).base = bs.base
    BY <2>1 DEF Types, TypeOK, StreamBase
  <2> QED BY <1>1, <2>2
<1>3. BaseIsFirst' /\ HasLast'
  BY <1>1, <1>2 DEF ClockInv, BaseIsFirst, HasLast
<1>4. FirstKept' /\ ClockRight'
  BY <1>1 DEF ClockInv, FirstKept, ClockRight
<1> QED BY <1>3, <1>4 DEF ClockInv

(* Across any number of wraps of the time stamps, and whatever the base, the    *)
(* presentation time is the sender's and one cycle more for each late frame     *)
(* that put the clock back over a wrap or the middle of a cycle: it is right    *)
(* only if there was none.  No frame is more than half a cycle from the one     *)
(* before and none was skipped after a wrap.                                    *)
THEOREM ClockIsRight == Spec => []TimeIsRight
<1>1. Init => ClockInv
  BY DEF Init, ClockInv, BaseIsFirst, FirstKept, HasLast, ClockRight
<1>2. Types /\ ClockInv /\ UNCHANGED vars => ClockInv'
  BY DEF vars, ClockInv, BaseIsFirst, FirstKept, HasLast, ClockRight
<1>3. Types /\ Types' /\ FlushOnlyAfterJump /\ ClockInv /\ [Next]_vars => ClockInv'
  BY <1>2, ReceiverClock, DecoderClock, ControllerClock DEF Next
<1>4. Types /\ ClockInv => TimeIsRight
  <2> SUFFICES ASSUME Types, ClockInv, dec.pc = "decode", ghost.steady, ~ghost.jumped
               PROVE  LET ticks == ghost.last - ghost.first + TsMod * ghost.recounts
                      IN  bs.realtime = IF ticks < 0 THEN 0 ELSE ticks
    BY DEF TimeIsRight
  <2>1. ghost.last # None
    BY DEF ClockInv, HasLast
  <2> QED BY <2>1 DEF ClockInv, ClockRight
<1>5. Types /\ LiveInv => FlushOnlyAfterJump
  BY DEF LiveInv
<1> QED BY <1>1, <1>3, <1>4, <1>5, SpecLive, PTL DEF Spec
=============================================================================
