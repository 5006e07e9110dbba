--------------------------- MODULE MCRtpByteStream ---------------------------
(* Four frames in six packets; packet 6 is a second copy of packet 1. *)
EXTENDS RtpByteStream

MCPackets == 0 .. 6
MCNoPacket == -1
MCPlace == [p \in MCPackets |-> IF p = 6 THEN 1 ELSE p]
MCFrameNo == [p \in MCPackets |-> <<0, 0, 1, 2, 3, 3, 0>>[p + 1]]
MCLastOfFrame == {1, 2, 3, 5, 6}

(* Packets 1 to 5 make four frames. *)
MCWhole ==
  [packets |-> 1 .. 5, seq |-> 0, jump |-> 9, bufferTime |-> 1, reorder |-> 0, pauses |-> 0]

(* Three frames and a copy across both wraps; a jump of the time stamps; four *)
(* frames; a pause.                                                           *)
MCStreams ==
  {[packets |-> {0, 1, 2, 3, 6}, seq |-> 65534, jump |-> 9, bufferTime |-> 1,
    reorder |-> 1, pauses |-> 0],
   [packets |-> 0 .. 5, seq |-> 0, jump |-> 2, bufferTime |-> 1, reorder |-> 1, pauses |-> 0],
   MCWhole,
   [packets |-> 1 .. 2, seq |-> 0, jump |-> 9, bufferTime |-> 0, reorder |-> 0, pauses |-> 1]}
=============================================================================
