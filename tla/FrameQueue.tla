----------------------------- MODULE FrameQueue -----------------------------
(***************************************************************************)
(* What the decoder and the screen are promised by the ring of             *)
(* CTimedSync (player/src/timed_sync.cpp): a bounded first-in first-out    *)
(* queue of frames, and a screen that changes to the frame that left the   *)
(* queue last.  The place of that frame may be given to the frame that is  *)
(* put next into a queue with but one place left: from then on the screen  *)
(* may be ahead by the length of the queue, or be left blank.              *)
(***************************************************************************)
EXTENDS Integers, Sequences

CONSTANTS Capacity, NoFrame

VARIABLES
  queue,    \* the frames put and not yet taken, oldest first
  put,      \* how many frames have been put; also the number of the next one
  last,     \* the frame taken last
  screen,   \* the frame on the screen
  overtaken \* a frame has got the place of the one taken last

vars == <<queue, put, last, screen, overtaken>>

Init ==
  queue = << >> /\ put = 0 /\ last = NoFrame /\ screen = NoFrame /\ overtaken = FALSE

Put ==
  /\ Len(queue) < Capacity
  /\ queue' = Append(queue, put)
  /\ put' = put + 1
  /\ UNCHANGED <<last, screen, overtaken>>

Take ==
  /\ queue # << >>
  /\ last' = Head(queue)
  /\ queue' = Tail(queue)
  /\ UNCHANGED <<put, screen, overtaken>>

Overtake ==
  /\ Len(queue) = Capacity - 1 /\ last # NoFrame
  /\ overtaken' = TRUE
  /\ UNCHANGED <<queue, put, last, screen>>

Show ==
  /\ \/ screen' = last
     \/ overtaken /\ screen' \in {last + Capacity, NoFrame}
  /\ UNCHANGED <<queue, put, last, overtaken>>

Next == Put \/ Take \/ Overtake \/ Show

Spec == Init /\ [][Next]_vars
=============================================================================
