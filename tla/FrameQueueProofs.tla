------------------------- MODULE FrameQueueProofs -------------------------
(***************************************************************************)
(* The steps of the queue of frames in terms of numbers: a queue that      *)
(* holds the frames from number t on.  The proof that the ring of          *)
(* CTimedSync implements the queue needs no sequences then.                *)
(***************************************************************************)
EXTENDS FrameQueue, SequenceTheorems, TLAPS

(* The n frames from number t on. *)
Window(t, n) == [k \in 1 .. n |-> t + k - 1]

LEMMA WindowIsSequence ==
  ASSUME NEW t \in Nat, NEW n \in Nat
  PROVE  Window(t, n) \in Seq(Nat) /\ Len(Window(t, n)) = n
<1>1. \A k \in 1 .. n : t + k - 1 \in Nat
  OBVIOUS
<1> QED BY <1>1 DEF Window

LEMMA EmptyWindow ==
  ASSUME NEW t \in Nat
  PROVE  Window(t, 0) = << >>
BY WindowIsSequence, EmptySeq

(* One frame more is a frame put. *)
LEMMA WindowPut ==
  ASSUME NEW t \in Nat, NEW n \in Nat, n < Capacity, put = t + n, put' = put + 1,
         queue = Window(t, n), queue' = Window(t, n + 1),
         UNCHANGED <<last, screen, overtaken>>
  PROVE  Put
<1>1. Window(t, n) \in Seq(Nat) /\ Len(Window(t, n)) = n
  BY WindowIsSequence
<1>2. Window(t, n + 1) \in Seq(Nat) /\ Len(Window(t, n + 1)) = n + 1
  BY WindowIsSequence
<1>3. /\ Append(Window(t, n), t + n) \in Seq(Nat)
      /\ Len(Append(Window(t, n), t + n)) = n + 1
      /\ \A k \in 1 .. n : Append(Window(t, n), t + n)[k] = Window(t, n)[k]
      /\ Append(Window(t, n), t + n)[n + 1] = t + n
  BY <1>1, AppendProperties
<1>4. \A k \in 1 .. n + 1 : Window(t, n + 1)[k] = Append(Window(t, n), t + n)[k]
  <2> SUFFICES ASSUME NEW k \in 1 .. n + 1
               PROVE  Window(t, n + 1)[k] = Append(Window(t, n), t + n)[k]
    OBVIOUS
  <2>1. Window(t, n + 1)[k] = t + k - 1
    BY DEF Window
  <2>2. CASE k \in 1 .. n
    BY <1>3, <2>1, <2>2 DEF Window
  <2>3. CASE k = n + 1
    BY <1>3, <2>1, <2>3
  <2>4. k \in 1 .. n \/ k = n + 1
    OBVIOUS
  <2> QED BY <2>2, <2>3, <2>4
<1>5. Window(t, n + 1) = Append(Window(t, n), t + n)
  <2>1. Len(Window(t, n + 1)) = Len(Append(Window(t, n), t + n))
    BY <1>2, <1>3
  <2> QED BY <1>2, <1>3, <1>4, <2>1, SeqEqual
<1> QED BY <1>1, <1>5 DEF Put

(* The first frame gone is a frame taken. *)
LEMMA WindowTaken ==
  ASSUME NEW t \in Nat, NEW n \in Nat, queue = Window(t, n + 1), queue' = Window(t + 1, n),
         last' = t, UNCHANGED <<put, screen, overtaken>>
  PROVE  Take
<1>1. Window(t, n + 1) \in Seq(Nat) /\ Len(Window(t, n + 1)) = n + 1
  BY WindowIsSequence
<1>2. Window(t + 1, n) \in Seq(Nat) /\ Len(Window(t + 1, n)) = n
  BY WindowIsSequence
<1>3. Window(t, n + 1) # << >>
  BY <1>1
<1>4. /\ Tail(Window(t, n + 1)) \in Seq(Nat)
      /\ Len(Tail(Window(t, n + 1))) = n
      /\ \A k \in 1 .. n : Tail(Window(t, n + 1))[k] = Window(t, n + 1)[k + 1]
  BY <1>1, <1>3, HeadTailProperties
<1>5. \A k \in 1 .. n : Window(t + 1, n)[k] = Window(t, n + 1)[k + 1]
  BY DEF Window
<1>6. Window(t + 1, n) = Tail(Window(t, n + 1))
  BY <1>2, <1>4, <1>5, SeqEqual
<1>7. Head(Window(t, n + 1)) = t
  <2>1. Head(Window(t, n + 1)) = Window(t, n + 1)[1]
    BY <1>1, <1>3
  <2> QED BY <2>1 DEF Window
<1> QED BY <1>3, <1>6, <1>7 DEF Take

(* A frame gets the place of the one taken last in a queue with one place left. *)
LEMMA WindowOvertaken ==
  ASSUME NEW t \in Nat, Capacity \in Nat \ {0}, queue = Window(t, Capacity - 1),
         last # NoFrame, overtaken' = TRUE, UNCHANGED <<queue, put, last, screen>>
  PROVE  Overtake
<1>1. Len(Window(t, Capacity - 1)) = Capacity - 1
  BY WindowIsSequence
<1> QED BY <1>1 DEF Overtake
=============================================================================
