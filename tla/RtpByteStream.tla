---------------------------- MODULE RtpByteStream ----------------------------
(***************************************************************************)
(* An on-demand RTP stream in the player (rtp_bytestream.cpp,              *)
(* player_media_rtp.cpp and the part of player_media_decode.cpp that reads *)
(* from it).  The receive thread puts packets in order into a doubly       *)
(* linked list, the decode thread takes them out frame by frame, and the   *)
(* controller pauses and resumes both.  The list has a mutex; the members  *)
(* m_head, m_tail, m_buffering, m_eof and the rest are read and written by *)
(* all three without it.                                                   *)
(*                                                                         *)
(* The list is a sequence from m_head to m_tail.  A packet is a block of   *)
(* memory: a packet that the network duplicates is two of them, with the   *)
(* same place in the stream.  A section under the mutex is one step; a     *)
(* pointer read before the section and used in it is two.                  *)
(***************************************************************************)
EXTENDS Integers, Sequences

CONSTANTS
  Packets,      \* blocks of memory the network may deliver
  NoPacket,     \* a null pointer
  Place,        \* place of a packet in the stream of the sender
  FrameNo,      \* the frame it belongs to
  LastOfFrame,  \* the packets that carry the marker bit
  SeqMod,       \* 2^16: RTP sequence numbers wrap
  TsMod,        \* 2^32: RTP time stamps wrap; scaled down for TLC
  BaseTs,       \* time stamp of the first frame; one tick per frame
  JumpSize,     \* size of a jump of the time stamps
  JumpLimit,    \* 2 * m_timescale: a jump the receiver flushes its queue for
  RangeEnd,     \* get_max_playtime()
  Streams       \* what may be played, see StreamType

(* packets: those the sender sends; seq: the number of its first; jump: the    *)
(* frame at which its time stamps jump; bufferTime: m_rtp_buffer_time.       *)
(* Bounds: reorder, how far behind a later packet one may arrive; pauses, how *)
(* often the user pauses.                                                    *)
StreamType ==
  [packets : SUBSET Packets, seq : Nat, jump : Nat, bufferTime : Nat,
   reorder : Nat, pauses : Nat]

ASSUME PacketsAssumption ==
  /\ NoPacket \notin Packets
  /\ Place \in [Packets -> Nat]
  /\ FrameNo \in [Packets -> Nat]
  /\ LastOfFrame \subseteq Packets
ASSUME NumbersAssumption ==
  /\ SeqMod \in Nat \ {0} /\ Streams \subseteq StreamType
  /\ TsMod \in Nat \ {0} /\ BaseTs \in Nat
  /\ JumpSize \in Nat /\ JumpLimit \in Nat
  /\ RangeEnd \in Nat

VARIABLES
  stream,   \* the stream that is played
  arrived,  \* packets the network has delivered
  queue,    \* the list from m_head to m_tail
  bs,       \* the other members of CRtpByteStreamBase
  media,    \* the members of CPlayerMedia, its queues and semaphore
  recv,     \* receive thread: where it is and its packet
  dec,      \* decode thread: where it is, its packet and m_buffer
  ctl,      \* controller: where it is, pauses so far
  crash,    \* "no", or the pointer the program has used: a "freed" packet or a
            \* "null" pointer, or either in a "look" at the ends of the list
  ghost     \* history for the properties, see Remember

vars == <<stream, arrived, queue, bs, media, recv, dec, ctl, crash, ghost>>

None == -1

RecvPC == {"recv", "flush", "unlink", "add", "loop", "check", "mark", "head", "tail",
           "base", "next", "tell", "prime", "post", "periodic"}
DecodePC == {"wait", "parse", "flush", "unlink", "top", "eof", "have", "find",
             "announce", "asleep", "begin", "read", "take", "decode", "skipTake"}
ControlPC == {"playing", "reset", "send", "post", "mute", "paused"}

StreamBase ==
  [buffering : BOOLEAN, eof : BOOLEAN, recvd : BOOLEAN,
   silence : Nat \cup {None}, lastRecv : Nat \cup {None}, baseSet : BOOLEAN,
   base : Nat, lastTs : Nat, wraps : Nat, realtime : Nat]
Media ==
  [rtpBuffering : BOOLEAN, paused : BOOLEAN, waiting : BOOLEAN, sem : Nat,
   decodeQueue : Seq({"START", "PAUSE"}), rtpMsgs : Nat]
Receiver ==
  [pc : RecvPC, pak : Packets \cup {NoPacket}, freed : Packets \cup {NoPacket},
   look : Packets \cup {NoPacket}, headTs : Nat]
Decoder ==
  [pc : DecodePC, pak : Packets \cup {NoPacket}, frame : Seq(Packets),
   seen : BOOLEAN, skips : 0 .. 2]
History ==
  [jumped : BOOLEAN, missed : BOOLEAN, early : BOOLEAN, steady : BOOLEAN,
   ended : BOOLEAN, first : Nat \cup {None}, last : Nat \cup {None}, recounts : Nat,
   bailed : {"no", "skip", "frame"}]

-----------------------------------------------------------------------------
(* Numbers. *)

Signed(d, mod) == ((d + mod \div 2) % mod) - mod \div 2

Abs(d) == IF d < 0 THEN -d ELSE d

Elements(q) == {q[i] : i \in DOMAIN q}

SeqNum(p) == (stream.seq + Place[p]) % SeqMod

TimeStamp(p) ==
  (BaseTs + FrameNo[p] + (IF FrameNo[p] >= stream.jump THEN JumpSize ELSE 0)) % TsMod

TopBit(ts) == ts >= TsMod \div 2

-----------------------------------------------------------------------------
(* The list of packets. *)

HeadDiff(q, p) == Signed(SeqNum(p) - SeqNum(Head(q)), SeqMod)
TailDiff(q, p) == Signed(SeqNum(p) - SeqNum(q[Len(q)]), SeqMod)

Duplicate(q, p) == HeadDiff(q, p) = 0 \/ TailDiff(q, p) = 0
InMiddle(q, p) == HeadDiff(q, p) > 0 /\ TailDiff(q, p) < 0

(* Mutant: the search begins one packet too late. *)
LaterSkipping(q, p) == {i \in 3 .. Len(q) : SeqNum(q[i]) > SeqNum(p)}

(* Where the search for a later packet, from the second one on, may stop: it *)
(* compares the numbers as integers.                                         *)
Later(q, p) == {i \in 2 .. Len(q) : SeqNum(q[i]) > SeqNum(p)}

(* The search finds nothing and goes round the list for ever. *)
Endless(q, p) == q # << >> /\ InMiddle(q, p) /\ Later(q, p) = {}

InsertAt(q, i, p) ==
  [j \in 1 .. Len(q) + 1 |-> IF j < i THEN q[j] ELSE IF j = i THEN p ELSE q[j - 1]]

(* Mutant: the search stops at the first packet that is not later. *)
InsertEarly(q, p) ==
  IF q = << >> THEN <<p>>
  ELSE IF Duplicate(q, p) THEN q
  ELSE IF InMiddle(q, p) THEN InsertAt(q, 2, p)
  ELSE IF Abs(HeadDiff(q, p)) > Abs(TailDiff(q, p)) \/ HeadDiff(q, p) \notin -9 .. -1
       THEN Append(q, p)
  ELSE InsertAt(q, 1, p)

(* Mutant: a duplicate takes the place of the packet at the head. *)
InsertReplacing(q, p) ==
  IF q = << >> THEN <<p>>
  ELSE IF Duplicate(q, p) THEN [q EXCEPT ![1] = p]
  ELSE IF InMiddle(q, p)
       THEN InsertAt(q, CHOOSE i \in Later(q, p) : \A j \in Later(q, p) : i <= j, p)
  ELSE IF Abs(HeadDiff(q, p)) > Abs(TailDiff(q, p)) \/ HeadDiff(q, p) \notin -9 .. -1
       THEN Append(q, p)
  ELSE InsertAt(q, 1, p)

(* add_rtp_packet_to_queue: a duplicate of the head or the tail is freed;    *)
(* a packet that lies outside goes to the nearer end, to the head only if it *)
(* is less than ten behind.                                                  *)
Insert(q, p) ==
  IF q = << >> THEN <<p>>
  ELSE IF Duplicate(q, p) THEN q
  ELSE IF InMiddle(q, p)
       THEN InsertAt(q, CHOOSE i \in Later(q, p) : \A j \in Later(q, p) : i <= j, p)
  ELSE IF Abs(HeadDiff(q, p)) > Abs(TailDiff(q, p)) \/ HeadDiff(q, p) \notin -9 .. -1
       THEN Append(q, p)
  ELSE InsertAt(q, 1, p)

Without(q, p) ==
  LET i == CHOOSE k \in DOMAIN q : q[k] = p
  IN  [j \in 1 .. Len(q) - 1 |-> IF j < i THEN q[j] ELSE q[j + 1]]

-----------------------------------------------------------------------------
(* The byte stream's own operations. *)

(* CRtpByteStreamBase::reset with init; the last time stamp survives. *)
ResetStream(b) ==
  [b EXCEPT !.wraps = 0, !.eof = FALSE, !.buffering = FALSE, !.baseSet = FALSE,
            !.recvd = FALSE, !.silence = None, !.lastRecv = None]

(* What flush_rtp_packets does after the last packet. *)
FlushedStream(b) == [b EXCEPT !.buffering = FALSE, !.recvd = FALSE, !.silence = None]

(* Mutant: the wrap is not counted. *)
ClockNoWrap(b, ts) == [b EXCEPT !.lastTs = ts, !.realtime = IF b.base > ts THEN 0 ELSE ts - b.base]

(* rtp_ts_to_msec of an on-demand stream that starts at 0. *)
Clock(b, ts) ==
  LET wraps == IF TopBit(b.lastTs) /\ ~TopBit(ts) THEN b.wraps + 1 ELSE b.wraps
      ticks == wraps * TsMod + ts
  IN  [b EXCEPT !.wraps = wraps, !.lastTs = ts,
                !.realtime = IF b.base > ticks THEN 0 ELSE ticks - b.base]

(* The comparison of check_buffering.  The difference is unsigned: across    *)
(* the wrap it is huge.                                                      *)
Buffered(head, tail) ==
  IF head > tail THEN TopBit(head) # TopBit(tail) ELSE tail - head >= stream.bufferTime

(* rtp_periodic after a period without a packet (silence counts the periods  *)
(* since the timer was started) or with one.                                 *)
AfterPeriod(b) ==
  IF ~b.buffering THEN b
  ELSE IF b.recvd THEN [b EXCEPT !.recvd = FALSE, !.silence = None]
  ELSE IF b.silence = None THEN [b EXCEPT !.silence = 0]
  ELSE IF b.eof THEN b
  ELSE IF b.realtime + b.silence >= RangeEnd THEN [b EXCEPT !.eof = TRUE]
  ELSE [b EXCEPT !.silence = @ + 1]

Init ==
  /\ stream \in Streams
  /\ arrived = {} /\ queue = << >>
  /\ bs = [buffering |-> FALSE, eof |-> FALSE, recvd |-> FALSE, silence |-> None,
           lastRecv |-> None, baseSet |-> FALSE, base |-> 0, lastTs |-> 0,
           wraps |-> 0, realtime |-> 0]
  /\ media = [rtpBuffering |-> FALSE, paused |-> FALSE, waiting |-> FALSE, sem |-> 0,
              decodeQueue |-> << >>, rtpMsgs |-> 0]
  /\ recv = [pc |-> "recv", pak |-> NoPacket, freed |-> NoPacket, look |-> NoPacket,
             headTs |-> 0]
  /\ dec = [pc |-> "wait", pak |-> NoPacket, frame |-> << >>,
            seen |-> FALSE, skips |-> 0]
  /\ ctl = [pc |-> "playing", pauses |-> 0]
  /\ crash = "no"
  /\ ghost = [jumped |-> FALSE, missed |-> FALSE, early |-> FALSE, steady |-> TRUE,
              ended |-> FALSE, first |-> None, last |-> None, recounts |-> 0, bailed |-> "no"]

-----------------------------------------------------------------------------
(* The receive thread. *)

RStep(from, to) == recv.pc = from /\ recv' = [recv EXCEPT !.pc = to]

(* The mutex is free: sections under it are one step, except a search that   *)
(* does not end.                                                             *)
Unlocked == recv.pc # "loop"

(* rtp_recv times out. *)
Timeout ==
  /\ RStep("recv", "periodic")
  /\ UNCHANGED <<stream, arrived, queue, bs, media, dec, ctl, crash, ghost>>

TimeJumped(p) ==
  /\ bs.lastRecv # None
  /\ Abs(Signed(TimeStamp(p) - bs.lastRecv, TsMod)) > JumpLimit

(* A packet arrives, out of order within the bound; it is dropped while    *)
(* the medium is paused, and a jump of its time stamp flushes the queue.     *)
Arrive(p) ==
  /\ recv.pc = "recv" /\ p \in stream.packets \ arrived
  /\ \A q \in arrived : Place[q] <= Place[p] + stream.reorder
  /\ arrived' = arrived \cup {p}
  /\ recv' = [recv EXCEPT !.pc = IF media.paused THEN "periodic"
                                 ELSE IF TimeJumped(p) THEN "flush" ELSE "add",
                          !.pak = IF media.paused THEN NoPacket ELSE p]
  /\ ghost' = [ghost EXCEPT !.jumped = @ \/ (~media.paused /\ TimeJumped(p))]
  /\ UNCHANGED <<stream, queue, bs, media, dec, ctl, crash>>

(* flush_rtp_packets by the receive thread: m_head is read without the       *)
(* mutex, and unlinked and freed under it; then everything is reset.         *)
ReceiverFlush ==
  /\ recv.pc = "flush"
  /\ \/ /\ queue # << >>
        /\ recv' = [recv EXCEPT !.pc = "unlink", !.freed = Head(queue)]
        /\ UNCHANGED <<bs, dec>>
     \/ /\ queue = << >>
        /\ recv' = [recv EXCEPT !.pc = "add"]
        /\ bs' = ResetStream(bs)
        /\ dec' = [dec EXCEPT !.frame = << >>]
  /\ UNCHANGED <<stream, arrived, queue, media, ctl, crash, ghost>>

ReceiverUnlink ==
  /\ recv.pc = "unlink"
  /\ recv' = [recv EXCEPT !.pc = "flush", !.freed = NoPacket]
  /\ IF recv.freed \in Elements(queue)
     THEN queue' = Without(queue, recv.freed) /\ UNCHANGED crash
     ELSE crash' = "freed" /\ UNCHANGED queue
  /\ UNCHANGED <<stream, arrived, bs, media, dec, ctl, ghost>>

(* add_rtp_packet_to_queue, under the mutex. *)
Add ==
  /\ recv.pc = "add"
  /\ IF Endless(queue, recv.pak)
     THEN /\ recv' = [recv EXCEPT !.pc = "loop"]
          /\ UNCHANGED <<queue, bs, ghost>>
     ELSE /\ recv' = [recv EXCEPT !.pc = "check", !.pak = NoPacket]
          /\ queue' = Insert(queue, recv.pak)
          /\ bs' = [bs EXCEPT !.recvd = TRUE, !.lastRecv = TimeStamp(recv.pak)]
          /\ ghost' = [ghost EXCEPT !.missed = @ \/ dec.pc = "announce"]
  /\ UNCHANGED <<stream, arrived, media, dec, ctl, crash>>

(* check_buffering, and recv_callback after it, look at the ends of the list *)
(* without the mutex: one step loads m_head or m_tail, a later one follows   *)
(* it, and by then the decode thread may have freed the packet, or emptied   *)
(* the list before the pointer was loaded.                                   *)
HeadPointer(q) == IF q = << >> THEN NoPacket ELSE Head(q)
TailPointer(q) == IF q = << >> THEN NoPacket ELSE q[Len(q)]

Loaded(to, p) == [recv EXCEPT !.pc = to, !.look = p, !.headTs = 0]

(* The receive thread follows the pointer it has loaded; after is what       *)
(* becomes of it then.                                                       *)
Follow(from, after) ==
  /\ recv.pc = from
  /\ IF recv.look \in Elements(queue) THEN recv' = after /\ UNCHANGED crash
     ELSE crash' = "look" /\ UNCHANGED recv

(* The list is not empty: check_rtp_frame_complete_for_payload_type will     *)
(* look at the tail.                                                         *)
CheckBuffering ==
  /\ recv.pc = "check"
  /\ recv' = IF bs.buffering THEN [recv EXCEPT !.pc = "tell"]
             ELSE IF queue = << >> THEN [recv EXCEPT !.pc = "periodic"]
             ELSE Loaded("mark", TailPointer(queue))
  /\ UNCHANGED <<stream, arrived, queue, bs, media, dec, ctl, crash, ghost>>

(* The marker bit of the tail, the time stamps of head and tail, and, when   *)
(* the buffering is complete, the number of the head.  (A log message that   *)
(* looks at both ends once more is left out.)                                *)
LookAtEnds ==
  /\ \/ Follow("mark", IF recv.look \in LastOfFrame THEN Loaded("head", HeadPointer(queue))
                        ELSE Loaded("periodic", NoPacket))
     \/ Follow("head", [Loaded("tail", TailPointer(queue)) EXCEPT !.headTs = TimeStamp(recv.look)])
     \/ Follow("tail", IF Buffered(recv.headTs, TimeStamp(recv.look))
                       THEN Loaded("base", HeadPointer(queue)) ELSE Loaded("periodic", NoPacket))
     \/ Follow("next", Loaded(IF bs.buffering THEN "tell" ELSE "periodic", NoPacket))
  /\ UNCHANGED <<stream, arrived, queue, bs, media, dec, ctl, ghost>>

(* Enough is buffered.  The head is looked at once more if it is to give the *)
(* base of the time stamps.                                                  *)
DecideBuffering ==
  /\ recv.pc = "base"
  /\ \/ /\ ~bs.baseSet /\ recv.look \notin Elements(queue)
        /\ crash' = "look" /\ UNCHANGED <<recv, bs, ghost>>
     \/ /\ bs.baseSet \/ recv.look \in Elements(queue)
        /\ recv' = Loaded("next", HeadPointer(queue))
        /\ bs' = [bs EXCEPT !.buffering = TRUE, !.baseSet = TRUE,
                            !.base = IF bs.baseSet THEN @ ELSE TimeStamp(recv.look)]
        /\ ghost' = [ghost EXCEPT !.first = IF bs.baseSet THEN @ ELSE FrameNo[recv.look]]
        /\ UNCHANGED crash
  /\ UNCHANGED <<stream, arrived, queue, media, dec, ctl>>

(* bytestream_primed *)
Primed(m) == IF m.waiting THEN [m EXCEPT !.waiting = FALSE, !.sem = @ + 1] ELSE m

(* Mutant: a decode thread that waits is not primed. *)
TellDecoderStart ==
  /\ recv.pc = "tell"
  /\ IF ~media.rtpBuffering
     THEN /\ media' = [media EXCEPT !.rtpBuffering = TRUE,
                                    !.decodeQueue = Append(@, "START")]
          /\ recv' = [recv EXCEPT !.pc = "post"]
          /\ ghost' = [ghost EXCEPT !.early = @ \/ ctl.pc # "playing"]
     ELSE recv' = [recv EXCEPT !.pc = "periodic"] /\ UNCHANGED <<media, ghost>>
  /\ UNCHANGED <<stream, arrived, queue, bs, dec, ctl, crash>>

(* CPlayerMedia::recv_callback: the first time start_decoding, later a look  *)
(* at the tail if the decode thread waits.                                   *)
TellDecoder ==
  /\ recv.pc = "tell"
  /\ IF ~media.rtpBuffering
     THEN /\ media' = [media EXCEPT !.rtpBuffering = TRUE,
                                    !.decodeQueue = Append(@, "START")]
          /\ recv' = [recv EXCEPT !.pc = "post"]
          /\ ghost' = [ghost EXCEPT !.early = @ \/ ctl.pc # "playing"]
     ELSE /\ recv' = IF media.waiting /\ queue # << >> THEN Loaded("prime", TailPointer(queue))
                     ELSE [recv EXCEPT !.pc = "periodic"]
          /\ UNCHANGED <<media, ghost>>
  /\ UNCHANGED <<stream, arrived, queue, bs, dec, ctl, crash>>

(* A frame is complete at the tail: bytestream_primed. *)
PrimeDecoder ==
  /\ Follow("prime", Loaded("periodic", NoPacket))
  /\ media' = IF recv.look \in Elements(queue) \cap LastOfFrame THEN Primed(media) ELSE media
  /\ UNCHANGED <<stream, arrived, queue, bs, dec, ctl, ghost>>

(* send_message posts the semaphore after it has let go of the queue. *)
PostStart ==
  /\ RStep("post", "periodic")
  /\ media' = [media EXCEPT !.sem = @ + 1]
  /\ UNCHANGED <<stream, arrived, queue, bs, dec, ctl, crash, ghost>>

(* Mutant: the message does not begin a new buffering. *)
TakeRtpMessageIgnored(m) == IF m.rtpMsgs = 0 THEN m ELSE [m EXCEPT !.rtpMsgs = @ - 1]

(* Mutant: the message is taken without a look whether there is one. *)
TakeRtpMessageBlindly(m) == [m EXCEPT !.rtpMsgs = @ - 1, !.rtpBuffering = FALSE]

(* The top of recv_thread: a MSG_PAUSE_SESSION has rtp_start begin a new     *)
(* buffering.                                                                *)
TakeRtpMessage(m) ==
  IF m.rtpMsgs = 0 THEN m ELSE [m EXCEPT !.rtpMsgs = @ - 1, !.rtpBuffering = FALSE]

(* Mutant: the end of the stream is noted and the decoder not told. *)
PeriodicSilent ==
  /\ RStep("periodic", "recv")
  /\ bs' = AfterPeriod(bs)
  /\ media' = TakeRtpMessage(media)
  /\ UNCHANGED <<stream, arrived, queue, dec, ctl, crash, ghost>>

(* CPlayerMedia::rtp_periodic after each rtp_recv: at the end of the stream  *)
(* the decode thread is woken, in every period.  Then the next message.      *)
Periodic ==
  /\ RStep("periodic", "recv")
  /\ bs' = AfterPeriod(bs)
  /\ media' = TakeRtpMessage(IF bs'.eof THEN Primed(media) ELSE media)
  /\ UNCHANGED <<stream, arrived, queue, dec, ctl, crash, ghost>>

ReceiveThread ==
  /\ crash = "no"
  /\ \/ Timeout \/ (\E p \in Packets : Arrive(p))
     \/ ReceiverFlush \/ ReceiverUnlink \/ Add \/ CheckBuffering \/ LookAtEnds
     \/ DecideBuffering \/ TellDecoder \/ PrimeDecoder \/ PostStart \/ Periodic

-----------------------------------------------------------------------------
(* The decode thread. *)

DStep(from, to) == dec.pc = from /\ dec' = [dec EXCEPT !.pc = to]

(* The outer SDL_SemWait, and that of wait_on_bytestream. *)
Awake ==
  /\ media.sem > 0
  /\ \/ DStep("wait", "parse") /\ media' = [media EXCEPT !.sem = @ - 1]
        /\ UNCHANGED ghost
     \/ DStep("asleep", "top")
        /\ media' = [media EXCEPT !.sem = @ - 1, !.waiting = FALSE]
        /\ ghost' = [ghost EXCEPT !.missed = FALSE]
  /\ UNCHANGED <<stream, arrived, queue, bs, recv, ctl, crash>>

(* parse_decode_message, after the outer wait and at the top of the inner    *)
(* loop.  A PAUSE flushes the packets and ends the decoding.                 *)
ParseMessage ==
  /\ LET msgs == media.decodeQueue IN
     \/ /\ msgs = << >>
        /\ DStep("parse", "wait") \/ DStep("top", "eof")
        /\ UNCHANGED media
     \/ /\ msgs # << >> /\ media' = [media EXCEPT !.decodeQueue = Tail(msgs)]
        /\ IF Head(msgs) = "PAUSE" THEN DStep("parse", "flush") \/ DStep("top", "flush")
                                   ELSE DStep("parse", "top") \/ DStep("top", "eof")
  /\ UNCHANGED <<stream, arrived, queue, bs, recv, ctl, crash, ghost>>

DecoderFlush ==
  /\ dec.pc = "flush"
  /\ \/ /\ queue # << >>
        /\ dec' = [dec EXCEPT !.pc = "unlink", !.pak = Head(queue)]
        /\ UNCHANGED bs
     \/ /\ queue = << >>
        /\ dec' = [dec EXCEPT !.pc = "wait", !.frame = << >>, !.seen = FALSE]
        /\ bs' = FlushedStream(bs)
  /\ UNCHANGED <<stream, arrived, queue, media, recv, ctl, crash, ghost>>

(* remove_packet_rtp_queue of the packet read before; what follows is next.  *)
Remove(next) ==
  /\ Unlocked
  /\ IF dec.pak \in Elements(queue)
     THEN queue' = Without(queue, dec.pak) /\ UNCHANGED crash /\ next
     ELSE crash' = "freed" /\ UNCHANGED <<queue, dec, bs, ghost>>
  /\ UNCHANGED <<stream, arrived, media, recv, ctl>>

DecoderUnlink ==
  /\ dec.pc = "unlink"
  /\ Remove(/\ dec' = [dec EXCEPT !.pc = "flush", !.pak = NoPacket]
            /\ UNCHANGED <<bs, ghost>>)

(* At the end of the byte stream the decoding is over. *)
TestEof ==
  /\ DStep("eof", IF bs.eof THEN "wait" ELSE "have")
  /\ ghost' = [ghost EXCEPT !.ended = @ \/ bs.eof]
  /\ UNCHANGED <<stream, arrived, queue, bs, media, recv, ctl, crash>>

(* have_frame: find_mbit looks at m_head and then, under the mutex, for a   *)
(* marker bit in the list, beginning with m_head whatever it is now.         *)
HaveFrame ==
  /\ DStep("have", IF queue = << >> THEN "announce" ELSE "find")
  /\ UNCHANGED <<stream, arrived, queue, bs, media, recv, ctl, crash, ghost>>

(* Mutant: any packet will do, as in the audio byte stream. *)
FindMbitOfAudio ==
  /\ dec.pc = "find" /\ Unlocked
  /\ IF queue = << >> THEN crash' = "null" /\ UNCHANGED dec
     ELSE DStep("find", "begin") /\ UNCHANGED crash
  /\ UNCHANGED <<stream, arrived, queue, bs, media, recv, ctl, ghost>>

FindMbit ==
  /\ dec.pc = "find" /\ Unlocked
  /\ IF queue = << >> THEN crash' = "null" /\ UNCHANGED dec
     ELSE /\ DStep("find", IF Elements(queue) \cap LastOfFrame # {} THEN "begin"
                           ELSE "announce")
          /\ UNCHANGED crash
  /\ UNCHANGED <<stream, arrived, queue, bs, media, recv, ctl, ghost>>

(* wait_on_bytestream up to its SDL_SemWait. *)
Announce ==
  /\ DStep("announce", "asleep")
  /\ media' = [media EXCEPT !.waiting = TRUE]
  /\ UNCHANGED <<stream, arrived, queue, bs, recv, ctl, crash, ghost>>

(* start_next_frame reads the number of the head, then the head again for    *)
(* each packet, until it has taken one with the marker bit.                  *)
BeginFrame ==
  /\ dec.pc = "begin"
  /\ IF queue = << >> THEN crash' = "null" /\ UNCHANGED dec
     ELSE dec' = [dec EXCEPT !.pc = "read", !.frame = << >>] /\ UNCHANGED crash
  /\ UNCHANGED <<stream, arrived, queue, bs, media, recv, ctl, ghost>>

ReadHead ==
  /\ dec.pc = "read"
  /\ IF queue = << >>
     THEN /\ dec' = [dec EXCEPT !.pc = "top", !.frame = << >>, !.skips = 0]
          /\ ghost' = [ghost EXCEPT !.bailed = IF dec.skips > 0 THEN "skip" ELSE "frame"]
     ELSE /\ dec' = [dec EXCEPT !.pc = "take", !.pak = Head(queue)]
          /\ UNCHANGED ghost
  /\ UNCHANGED <<stream, arrived, queue, bs, media, recv, ctl, crash>>

Follows(p, q) == SeqNum(q) = (SeqNum(p) + 1) % SeqMod /\ TimeStamp(q) = TimeStamp(p)

(* Mutant: after a gap the bytes before it are kept. *)
AppendedBlindly(frame, p) == Append(frame, p)

(* A packet that does not follow the one before drops what was gathered. *)
Appended(frame, p) ==
  IF frame # << >> /\ Follows(frame[Len(frame)], p) THEN Append(frame, p) ELSE <<p>>

(* History of the clock: a frame whose time stamp goes back over the wrap, or *)
(* from the upper half of a cycle to the lower, has a wrap counted that the   *)
(* sender did not make, then or with the next frame.  The clock can be told   *)
(* as long as no frame is more than half a cycle from the one before, none    *)
(* lies behind a jump, the first is of the cycle the base was taken from, and *)
(* no wrap has been forgotten.                                                *)
Cycle(f) == (BaseTs + f) \div TsMod

GoesBack(from, to) ==
  \/ Cycle(to) < Cycle(from)
  \/ Cycle(to) = Cycle(from) /\ TopBit((BaseTs + from) % TsMod) /\ ~TopBit((BaseTs + to) % TsMod)

Near(f) ==
  IF ghost.last = None
  THEN ghost.first # None /\ ghost.first < stream.jump /\ Cycle(f) = Cycle(ghost.first)
  ELSE f \in ghost.last - TsMod \div 2 .. ghost.last + TsMod \div 2

Remember(f) ==
  ghost' = [ghost EXCEPT
    !.last = f, !.steady = @ /\ f < stream.jump /\ Near(f),
    !.recounts = IF ghost.last # None /\ GoesBack(ghost.last, f) THEN @ + 1 ELSE @]

TakePacket ==
  /\ dec.pc = "take"
  /\ LET p == dec.pak IN
     Remove(/\ dec' = [dec EXCEPT !.pc = IF p \in LastOfFrame THEN "decode" ELSE "read",
                                  !.frame = Appended(@, p), !.pak = NoPacket]
            /\ IF p \in LastOfFrame
               THEN bs' = Clock(bs, TimeStamp(p)) /\ Remember(FrameNo[p])
               ELSE UNCHANGED <<bs, ghost>>)

(* The plugin decodes the frame and used_bytes_for_frame empties the buffer; *)
(* who skips does so at least twice.                                         *)
DecodeFrame ==
  /\ dec.pc = "decode" /\ (dec.skips # 1 \/ bs.eof)
  /\ dec' = [dec EXCEPT !.pc = "top", !.frame = << >>, !.seen = TRUE,
                      !.skips = 0]
  /\ UNCHANGED <<stream, arrived, queue, bs, media, recv, ctl, crash, ghost>>

(* A frame that is not the first is late, and skip_next_frame is called, or  *)
(* called again: it drops the packets with the time stamp of the head.       *)
SkipFrame ==
  /\ dec.pc = "decode" /\ (dec.seen \/ dec.skips > 0)
  /\ dec' = IF queue = << >>
            THEN [dec EXCEPT !.pc = "top", !.frame = << >>, !.skips = 0]
            ELSE [dec EXCEPT !.pc = "skipTake", !.frame = << >>, !.pak = Head(queue),
                             !.skips = IF @ = 2 THEN 2 ELSE @ + 1]
  /\ UNCHANGED <<stream, arrived, queue, bs, media, recv, ctl, crash, ghost>>

(* Then it calls init, which forgets the wraps and the end of the stream,    *)
(* and start_next_frame.                                                     *)
SkipPacket ==
  /\ dec.pc = "skipTake"
  /\ Remove(
       \/ /\ queue' = << >>
          /\ dec' = [dec EXCEPT !.pc = "top", !.pak = NoPacket, !.skips = 0]
          /\ UNCHANGED <<bs, ghost>>
       \/ /\ queue' # << >> /\ TimeStamp(Head(queue')) = TimeStamp(dec.pak)
          /\ dec' = [dec EXCEPT !.pak = Head(queue')]
          /\ UNCHANGED <<bs, ghost>>
       \/ /\ queue' # << >> /\ TimeStamp(Head(queue')) # TimeStamp(dec.pak)
          /\ dec' = [dec EXCEPT !.pc = "begin", !.pak = NoPacket]
          /\ bs' = [bs EXCEPT !.wraps = 0, !.eof = FALSE]
          /\ ghost' = [ghost EXCEPT !.steady = @ /\ bs.wraps = 0])

DecodeThread ==
  /\ crash = "no"
  /\ \/ Awake \/ ParseMessage \/ DecoderFlush \/ DecoderUnlink \/ TestEof \/ HaveFrame
     \/ FindMbit \/ Announce \/ BeginFrame \/ ReadHead \/ TakePacket \/ DecodeFrame
     \/ SkipFrame \/ SkipPacket

-----------------------------------------------------------------------------
(* The controller: do_pause in its order, and do_play. *)

CStep(from, to) == ctl.pc = from /\ ctl' = [ctl EXCEPT !.pc = to]

PauseReceiver ==
  /\ ctl.pc = "playing" /\ ctl.pauses < stream.pauses
  /\ ctl' = [pc |-> "reset", pauses |-> ctl.pauses + 1]
  /\ media' = [media EXCEPT !.rtpMsgs = @ + 1]
  /\ UNCHANGED <<stream, arrived, queue, bs, recv, dec, crash, ghost>>

(* pause of the byte stream is its reset. *)
PauseStream ==
  /\ CStep("reset", "send")
  /\ bs' = ResetStream(bs)
  /\ dec' = [dec EXCEPT !.frame = << >>]
  /\ ghost' = [ghost EXCEPT !.steady = FALSE]
  /\ UNCHANGED <<stream, arrived, queue, media, recv, crash>>

PauseDecoder ==
  /\ CStep("send", "post")
  /\ media' = [media EXCEPT !.decodeQueue = Append(@, "PAUSE")]
  /\ UNCHANGED <<stream, arrived, queue, bs, recv, dec, crash, ghost>>

PostPause ==
  /\ CStep("post", "mute")
  /\ media' = [media EXCEPT !.sem = @ + 1]
  /\ UNCHANGED <<stream, arrived, queue, bs, recv, dec, crash, ghost>>

(* From here on packets are dropped. *)
Mute ==
  /\ CStep("mute", "paused")
  /\ media' = [media EXCEPT !.paused = TRUE]
  /\ UNCHANGED <<stream, arrived, queue, bs, recv, dec, crash, ghost>>

(* do_play of a stream sends no message to the decode thread: the receive    *)
(* thread will when enough is buffered.                                      *)
Play ==
  /\ CStep("paused", "playing")
  /\ media' = [media EXCEPT !.paused = FALSE]
  /\ UNCHANGED <<stream, arrived, queue, bs, recv, dec, crash, ghost>>

DoPause == PauseStream \/ PauseDecoder \/ PostPause \/ Mute

Controller ==
  /\ crash = "no"
  /\ PauseReceiver \/ DoPause \/ Play

Next == ReceiveThread \/ DecodeThread \/ Controller

(* The threads run, and a pause that is under way is completed; the user and *)
(* the network do what they like: rtp_recv returns in any case.              *)
Spec ==
  /\ Init /\ [][Next]_vars
  /\ WF_vars(ReceiveThread) /\ WF_vars(DecodeThread) /\ WF_vars(crash = "no" /\ DoPause)

-----------------------------------------------------------------------------
(* Properties. *)

(* Every variable has its type. *)
TypeOK ==
  /\ stream \in Streams
  /\ arrived \subseteq Packets
  /\ queue \in Seq(Packets)
  /\ bs \in StreamBase
  /\ media \in Media
  /\ recv \in Receiver
  /\ dec \in Decoder
  /\ ctl \in [pc : ControlPC, pauses : Nat]
  /\ crash \in {"no", "freed", "null", "look"}
  /\ ghost \in History

Straddles(q) == q # << >> /\ SeqNum(Head(q)) > SeqNum(q[Len(q)])

(* The stream does not pass the wrap of its sequence numbers, and is not so    *)
(* long that half a cycle lies between two packets.                          *)
NoSeqWrap ==
  \A p \in stream.packets :
    /\ stream.seq + Place[p] < SeqMod
    /\ \A q \in stream.packets : Place[p] - Place[q] < SeqMod \div 2

(* In a stream that does not pass the wrap of its sequence numbers the       *)
(* packets wait in the order of the stream, however they were repeated, and  *)
(* delayed by no more than nine places (rtp_bytestream.cpp:63-121).          *)
QueueInOrder ==
  NoSeqWrap /\ stream.reorder <= 9 =>
    \A i \in 1 .. Len(queue) - 1 : Place[queue[i]] <= Place[queue[i + 1]]

(* The search for the place of a packet ends, unless the queue straddles the *)
(* wrap of the sequence numbers; if it does not end the receive thread keeps *)
(* the mutex and the decode thread stops at its next packet                  *)
(* (rtp_bytestream.cpp:79-81).                                               *)
SearchEnds == recv.pc = "loop" => Straddles(queue)

(* Although three threads read m_head without the mutex, no thread uses a    *)
(* freed packet or an empty list where it takes packets out, as long as the  *)
(* time stamps do not jump: only then the receive thread flushes             *)
(* (rtp_bytestream.cpp:436-449, 580-618, 933).  Where the receive thread     *)
(* looks at the ends of the list it may, but only if the decode thread       *)
(* flushes at the same time for a pause: otherwise the decode thread idles   *)
(* or sleeps during the look (375-417, 677; player_media_rtp.cpp:301-304).   *)
PointersAreLive ==
  /\ crash \in {"freed", "null"} => ghost.jumped
  /\ crash = "look" => ghost.jumped \/ ctl.pauses > 0

(* "This should never happen - rtp bytestream is incomplete and active"      *)
(* (rtp_bytestream.cpp:940): start_next_frame finds its frame whole when     *)
(* have_frame has found a marker bit; only skip_next_frame, which does not   *)
(* look, or a flush by the receive thread brings it to a frame that is not.  *)
CompleteUnlessSkipped == ghost.bailed = "frame" => ghost.jumped

(* Packets with the same time stamp are of one frame, and a frame has fewer  *)
(* packets than there are sequence numbers.                                  *)
StampsTellFrames ==
  \A p, q \in stream.packets :
    TimeStamp(p) = TimeStamp(q) =>
      FrameNo[p] = FrameNo[q] /\ Place[p] - Place[q] < SeqMod - 1

(* The decoder never gets bytes of two frames, or of a frame with a hole in  *)
(* it, as one frame, whatever was lost, repeated or delayed (948-990).       *)
FrameHasNoHole ==
  dec.pc = "decode" /\ StampsTellFrames =>
    \A i \in 1 .. Len(dec.frame) - 1 :
      /\ Place[dec.frame[i + 1]] = Place[dec.frame[i]] + 1
      /\ FrameNo[dec.frame[i + 1]] = FrameNo[dec.frame[i]]

(* The presentation time of a frame is that of the sender across the wraps   *)
(* of the time stamps, but for one cycle too many each time a late frame put *)
(* the clock back over the wrap or over the middle of a cycle, and as long   *)
(* as no frame was skipped after a wrap (rtp_ts_to_msec, 695-741).           *)
TimeIsRight ==
  dec.pc = "decode" /\ ghost.steady /\ ~ghost.jumped =>
    LET ticks == ghost.last - ghost.first + TsMod * ghost.recounts
    IN  bs.realtime = IF ticks < 0 THEN 0 ELSE ticks

FrameAtTail(q) == q # << >> /\ q[Len(q)] \in LastOfFrame

(* A decode thread sleeps on a complete frame at the tail only if that came  *)
(* between its test and its announcement (player_media_decode.cpp:219-223).  *)
SleepsOnFrameOnlyIfMissed ==
  /\ dec.pc = "asleep" /\ media.waiting /\ media.sem = 0 /\ FrameAtTail(queue)
  /\ bs.buffering /\ recv.pc = "recv" /\ ctl.pc = "playing"
  => ghost.missed

(* Once the buffering is complete the decode thread decodes, unless the      *)
(* packet that completed it came while do_pause was under way, or a jump     *)
(* began the buffering again when the end of the stream had been seen:       *)
(* m_rtp_buffering is still set then and no START is sent                    *)
(* (player_media_rtp.cpp:295-309).                                           *)
BufferedIsStarted ==
  /\ bs.buffering /\ media.rtpBuffering /\ ~bs.eof /\ ctl.pc = "playing"
  /\ media.rtpMsgs = 0 /\ recv.pc = "recv"
  /\ dec.pc = "wait" /\ media.sem = 0
  => ghost.early \/ (ghost.ended /\ ghost.jumped)

(* The end of the stream ends the decoding, wherever the decode thread       *)
(* sleeps and even if a skip forgets the end ("it kicks the decoder task, to *)
(* finish off", player_media_rtp.cpp:70-71), unless a jump of the time       *)
(* stamps begins a new buffering.                                            *)
EofEndsDecoding ==
  bs.eof ~> (dec.pc = "wait" \/ ghost.jumped \/ recv.pc = "loop" \/ crash # "no")
=============================================================================
