-------------------------- MODULE MediaFlowProofs --------------------------
(***************************************************************************)
(* Proofs about the media flow, for every number of nodes and frames and   *)
(* every topology: a frame is in memory as long as somebody holds it.      *)
(***************************************************************************)
EXTENDS MediaFlow, FiniteSetTheorems, TLAPS

-----------------------------------------------------------------------------
(* Counting holders.                                                         *)

(* Holders, as an operator of the variables it reads. *)
HoldersIn(f, q, i, o, k) ==
  ({"queue"} \X {n \in Nodes : \E j \in DOMAIN q[n] : q[n][j] = f}) \cup
  ({"item"} \X {n \in Nodes : i[n] = f}) \cup
  ({"out"} \X {n \in Feeders : o[n] = f}) \cup
  ({"kept"} \X {n \in Sinks : f \in k[n]})

LEMMA HoldersFinite ==
  ASSUME NEW f, NEW q, NEW i, NEW o, NEW k
  PROVE  /\ HoldersIn(f, q, i, o, k) \subseteq {"queue", "item", "out", "kept"} \X Nodes
         /\ IsFiniteSet(HoldersIn(f, q, i, o, k))
<1>1. HoldersIn(f, q, i, o, k) \subseteq {"queue", "item", "out", "kept"} \X Nodes
  BY DEF HoldersIn, Nodes, Feeders
<1>2. IsFiniteSet({"queue", "item", "out", "kept"})
  <2>1. IsFiniteSet({"queue"})  BY FS_Singleton
  <2>2. IsFiniteSet({"queue"} \cup {"item"})  BY <2>1, FS_AddElement
  <2>3. IsFiniteSet(({"queue"} \cup {"item"}) \cup {"out"})  BY <2>2, FS_AddElement
  <2>4. IsFiniteSet((({"queue"} \cup {"item"}) \cup {"out"}) \cup {"kept"})
    BY <2>3, FS_AddElement
  <2>5. (({"queue"} \cup {"item"}) \cup {"out"}) \cup {"kept"}
          = {"queue", "item", "out", "kept"}
    OBVIOUS
  <2> QED BY <2>4, <2>5
<1>3. IsFiniteSet({"queue", "item", "out", "kept"} \X Nodes)
  BY <1>2, FS_Product, NodesAssumption
<1> QED BY <1>1, <1>3, FS_Subset

(* A count that covers the holders covers them after a change of both. *)
LEMMA CountCovers ==
  ASSUME NEW A, NEW B, IsFiniteSet(A), NEW r \in Int, NEW s \in Int,
         Cardinality(A) <= r,
         \/ B \subseteq A /\ s >= r
         \/ \E h \in A : B \subseteq A \ {h} /\ s >= r - 1
         \/ \E h : B \subseteq A \cup {h} /\ s >= r + 1
         \/ \E h \in A : \E g : B \subseteq (A \ {h}) \cup {g} /\ s >= r
  PROVE  Cardinality(B) <= s
<1>0. Cardinality(A) \in Nat
  BY FS_CardinalityType
<1>1. CASE B \subseteq A /\ s >= r
  <2>1. Cardinality(B) <= Cardinality(A) /\ Cardinality(B) \in Nat
    BY <1>1, FS_Subset, FS_CardinalityType
  <2> QED BY <2>1, <1>1, <1>0
<1>2. ASSUME NEW h \in A, B \subseteq A \ {h}, s >= r - 1
      PROVE  Cardinality(B) <= s
  <2>1. IsFiniteSet(A \ {h}) /\ Cardinality(A \ {h}) = Cardinality(A) - 1
    BY FS_RemoveElement
  <2>2. Cardinality(B) <= Cardinality(A) - 1 /\ Cardinality(B) \in Nat
    BY <1>2, <2>1, FS_Subset, FS_CardinalityType
  <2> QED BY <2>2, <1>2, <1>0
<1>3. ASSUME NEW h, B \subseteq A \cup {h}, s >= r + 1
      PROVE  Cardinality(B) <= s
  <2>1. /\ IsFiniteSet(A \cup {h})
        /\ Cardinality(A \cup {h}) \in {Cardinality(A), Cardinality(A) + 1}
    BY FS_AddElement
  <2>2. Cardinality(B) <= Cardinality(A \cup {h}) /\ Cardinality(B) \in Nat
    BY <1>3, <2>1, FS_Subset, FS_CardinalityType
  <2> QED BY <2>1, <2>2, <1>3, <1>0
<1>4. ASSUME NEW h \in A, NEW g, B \subseteq (A \ {h}) \cup {g}, s >= r
      PROVE  Cardinality(B) <= s
  <2>1. IsFiniteSet(A \ {h}) /\ Cardinality(A \ {h}) = Cardinality(A) - 1
    BY FS_RemoveElement
  <2>2. /\ IsFiniteSet((A \ {h}) \cup {g})
        /\ Cardinality((A \ {h}) \cup {g}) \in {Cardinality(A) - 1, Cardinality(A)}
    BY <2>1, <1>0, FS_AddElement
  <2>3. Cardinality(B) <= Cardinality((A \ {h}) \cup {g}) /\ Cardinality(B) \in Nat
    BY <1>4, <2>2, FS_Subset, FS_CardinalityType
  <2> QED BY <2>2, <2>3, <1>4, <1>0
<1> QED BY <1>1, <1>2, <1>3, <1>4

LEMMA NoCountNoHolder ==
  ASSUME NEW f, NEW q, NEW i, NEW o, NEW k,
         Cardinality(HoldersIn(f, q, i, o, k)) <= 0
  PROVE  HoldersIn(f, q, i, o, k) = {}
<1>1. Cardinality(HoldersIn(f, q, i, o, k)) \in Nat
  BY HoldersFinite, FS_CardinalityType
<1> QED BY <1>1, HoldersFinite, FS_EmptySet

-----------------------------------------------------------------------------
(* Queues.                                                                   *)

Contains(q, f) == \E j \in DOMAIN q : q[j] = f

FramesOnce(q) == \A i, j \in DOMAIN q : q[i] = q[j] /\ q[i] \in Frames => i = j

LEMMA TailOfQueue ==
  ASSUME NEW q \in Seq(Messagable), q # << >>
  PROVE  /\ Tail(q) \in Seq(Messagable) /\ Head(q) \in Messagable
         /\ Contains(q, Head(q))
         /\ \A f : Contains(Tail(q), f) => Contains(q, f)
         /\ FramesOnce(q) => FramesOnce(Tail(q))
         /\ FramesOnce(q) /\ Head(q) \in Frames => ~Contains(Tail(q), Head(q))
<1>1. Len(q) \in Nat /\ Len(q) > 0 /\ DOMAIN q = 1 .. Len(q)
  OBVIOUS
<1>2. /\ Tail(q) \in Seq(Messagable) /\ Head(q) \in Messagable /\ Head(q) = q[1]
      /\ DOMAIN Tail(q) = 1 .. Len(q) - 1
      /\ \A j \in 1 .. Len(q) - 1 : Tail(q)[j] = q[j + 1]
  BY <1>1
<1>3. 1 \in DOMAIN q /\ \A j \in 1 .. Len(q) - 1 : j + 1 \in DOMAIN q
  BY <1>1
<1>4. Contains(q, Head(q))
  BY <1>2, <1>3 DEF Contains
<1>5. \A f : Contains(Tail(q), f) => Contains(q, f)
  BY <1>2, <1>3 DEF Contains
<1>6. ASSUME FramesOnce(q) PROVE FramesOnce(Tail(q))
  <2>1. SUFFICES ASSUME NEW i \in 1 .. Len(q) - 1, NEW j \in 1 .. Len(q) - 1,
                        q[i + 1] = q[j + 1], q[i + 1] \in Frames
                 PROVE  i = j
    BY <1>2 DEF FramesOnce
  <2>2. i + 1 = j + 1
    BY <1>3, <1>6, <2>1 DEF FramesOnce
  <2> QED BY <1>1, <2>2
<1>7. ASSUME FramesOnce(q), Head(q) \in Frames PROVE ~Contains(Tail(q), Head(q))
  <2>1. SUFFICES ASSUME NEW j \in 1 .. Len(q) - 1, q[j + 1] = q[1] PROVE FALSE
    BY <1>2 DEF Contains
  <2>2. j + 1 = 1
    BY <1>2, <1>3, <1>7, <2>1 DEF FramesOnce
  <2> QED BY <1>1, <2>2
<1> QED BY <1>2, <1>4, <1>5, <1>6, <1>7

LEMMA AppendToQueue ==
  ASSUME NEW q \in Seq(Messagable), NEW m \in Messagable
  PROVE  /\ Append(q, m) \in Seq(Messagable)
         /\ \A f : Contains(Append(q, m), f) <=> Contains(q, f) \/ f = m
         /\ FramesOnce(q) /\ (m \notin Frames \/ ~Contains(q, m))
              => FramesOnce(Append(q, m))
<1>1. Len(q) \in Nat /\ DOMAIN q = 1 .. Len(q)
  OBVIOUS
<1>2. /\ Append(q, m) \in Seq(Messagable)
      /\ DOMAIN Append(q, m) = 1 .. Len(q) + 1
      /\ \A j \in 1 .. Len(q) : Append(q, m)[j] = q[j]
      /\ Append(q, m)[Len(q) + 1] = m
  BY <1>1
<1>3. /\ Len(q) + 1 \in DOMAIN Append(q, m)
      /\ \A j \in DOMAIN Append(q, m) : j \in DOMAIN q \/ j = Len(q) + 1
      /\ \A j \in DOMAIN q : j \in DOMAIN Append(q, m) /\ Append(q, m)[j] = q[j]
  BY <1>1, <1>2
<1>4. \A f : Contains(Append(q, m), f) <=> Contains(q, f) \/ f = m
  BY <1>2, <1>3 DEF Contains
<1>5. ASSUME FramesOnce(q), m \notin Frames \/ ~Contains(q, m)
      PROVE  FramesOnce(Append(q, m))
  BY <1>2, <1>3, <1>5 DEF FramesOnce, Contains
<1> QED BY <1>2, <1>4, <1>5

-----------------------------------------------------------------------------
(* The inductive invariant.                                                  *)

Forwarding(n) == pc[n] \in {"lock", "forward", "post"}

(* The frame that a feeder forwards is its own, and is not in the queue of a *)
(* sink it is still to be given to.                                          *)
ForwardedFrameIsNew ==
  \A n \in Feeders : Forwarding(n) =>
    /\ out[n] \in Frames /\ maker[out[n]] = n
    /\ \A s \in Receivers :
         pc[n] = "lock" \/ s \in todo[n] => ~Contains(inbox[s], out[n])

QueuedOnce == \A n \in Nodes : FramesOnce(inbox[n])

ConsumerHasFrame == \A n \in Sinks : pc[n] = "consume" => item[n] \in Frames

(* Where the controller may go on after a command. *)
Backs == {"stopped", "lockSinks", "startSinks", "startSources", "restarting",
          "restart", "stopSources", "lockStopSinks", "stopSinks", "stopStreams"}

ControlTypes ==
  /\ ctl \in [enc: DOMAIN EncoderOrder, left: SUBSET Nodes, node: Nodes \cup {None},
              msg: Commands, back: Backs]
  /\ cpc = "addSinks" => ctl.left \subseteq Sinks

FlowInv ==
  /\ refs \in [Frames -> Int] /\ StateTypes /\ ControlTypes
  /\ ForwardedFrameIsNew /\ QueuedOnce /\ ConsumerHasFrame /\ HeldFramesLive

-----------------------------------------------------------------------------
(* The controller: types.                                                    *)

LEMMA EncoderOrderTypes ==
  /\ Len(EncoderOrder) \in Nat /\ DOMAIN EncoderOrder = 1 .. Len(EncoderOrder)
  /\ 1 \in DOMAIN EncoderOrder
  /\ \A e \in DOMAIN EncoderOrder :
       /\ e \in Nat /\ EncoderOrder[e] \in Encoders
       /\ SinksOf[EncoderOrder[e]] \subseteq Sinks
       /\ SourceOf[EncoderOrder[e]] \in Sources
       /\ e < Len(EncoderOrder) => e + 1 \in DOMAIN EncoderOrder
BY NodesAssumption

LEMMA GoToTypes ==
  ASSUME ControlTypes, NEW phase, NEW enc \in DOMAIN EncoderOrder,
         NEW left \in SUBSET Nodes, phase = "addSinks" => left \subseteq Sinks,
         GoTo(phase, enc, left)
  PROVE  ControlTypes'
BY DEF GoTo, ControlTypes

LEMMA NextEncoderTypes ==
  ASSUME ControlTypes, NEW phase, NEW after, NextEncoder(phase, after)
  PROVE  ControlTypes'
<1>1. ctl.enc \in DOMAIN EncoderOrder
  BY DEF ControlTypes
<1>2. CASE ctl.enc < Len(EncoderOrder)
  <2>1. GoTo(phase, ctl.enc + 1, SinksOf[EncoderOrder[ctl.enc + 1]])
    BY <1>2 DEF NextEncoder
  <2> QED BY <1>1, <1>2, <2>1, EncoderOrderTypes, GoToTypes DEF Nodes
<1>3. CASE ~(ctl.enc < Len(EncoderOrder))
  <2>1. GoTo(after, 1, SinksOf[EncoderOrder[1]])
    BY <1>3 DEF NextEncoder
  <2> QED BY <2>1, EncoderOrderTypes, GoToTypes DEF Nodes
<1> QED BY <1>2, <1>3

LEMMA CallTypes ==
  ASSUME StateTypes, ControlTypes, NEW n \in Nodes \cup {None}, NEW m \in Commands,
         NEW back \in Backs, NEW left \in SUBSET Nodes, Call(n, m, back, left)
  PROVE  ControlTypes' /\ stopThread' \in [Nodes -> BOOLEAN]
<1>1. ControlTypes'
  BY DEF Call, ControlTypes, Backs
<1>2. stopThread' \in [Nodes -> BOOLEAN]
  BY DEF Call, StateTypes
<1> QED BY <1>1, <1>2

LEMMA CallSomeTypes ==
  ASSUME StateTypes, ControlTypes, NEW m \in Commands, NEW back \in Backs,
         \E n \in ctl.left : Call(n, m, back, ctl.left \ {n})
  PROVE  ControlTypes' /\ stopThread' \in [Nodes -> BOOLEAN]
<1>1. PICK n \in ctl.left : Call(n, m, back, ctl.left \ {n})
  OBVIOUS
<1>2. n \in Nodes /\ ctl.left \ {n} \in SUBSET Nodes
  BY DEF ControlTypes
<1> QED BY <1>1, <1>2, CallTypes

LEMMA StartThreadTypes ==
  ASSUME StateTypes, NEW ns, StartThread(ns)
  PROVE  /\ pc' \in [Nodes -> {"none", "poll", "capture", "lock", "forward", "post",
                       "wait", "encode", "release", "flush", "drain", "consume",
                       "pause", "finish", "exited"}]
         /\ sem' \in [Nodes -> Nat] /\ stopThread' \in [Nodes -> BOOLEAN]
         /\ \A n \in Nodes : pc'[n] \in {pc[n], "poll", "wait"}
BY DEF StartThread, StateTypes

-----------------------------------------------------------------------------
(* The controller gives and takes no reference.                              *)

(* What it does to the threads: it starts or forgets some, empties queues    *)
(* and puts commands into them.                                              *)
Threads == {"none", "poll", "wait"}

Quiet ==
  /\ UNCHANGED <<refs, maker, item, out, todo, kept>>
  /\ \A n \in Nodes : pc'[n] = pc[n] \/ pc'[n] \in Threads
  /\ \A n \in Nodes : \/ inbox'[n] = inbox[n] \/ inbox'[n] = << >>
                      \/ \E m \in Commands : inbox'[n] = Append(inbox[n], m)

LEMMA StartingStep ==
  ASSUME FlowInv, StartFlow \/ Starting
  PROVE  StateTypes' /\ ControlTypes' /\ Quiet
<1> USE DEF ThreadsLeave, Quiet, Threads, frameVars, queueVars
<1>0. /\ StateTypes /\ ControlTypes /\ ctl.enc \in DOMAIN EncoderOrder
      /\ Encoder \in Encoders /\ SourceOf[Encoder] \in Sources
  BY EncoderOrderTypes DEF FlowInv, ControlTypes, Encoder
<1>1. CASE StartFlow
  <2>1. ControlTypes'
    BY <1>0, <1>1, GoToTypes, EncoderOrderTypes DEF StartFlow
  <2>2. StartThread(Sources)
    BY <1>1 DEF StartFlow
  <2> QED BY <1>0, <1>1, <2>1, <2>2, StartThreadTypes DEF StartFlow, StateTypes
<1>2. CASE CreateEncoder
  <2>1. ControlTypes'
    BY <1>0, <1>2, NextEncoderTypes DEF CreateEncoder
  <2>2. StartThread({Encoder})
    BY <1>2 DEF CreateEncoder
  <2>3. attached' \in [Feeders -> SUBSET Receivers]
    BY <1>0, <1>2 DEF CreateEncoder, StateTypes, Receivers
  <2> QED BY <1>0, <1>2, <2>1, <2>2, <2>3, StartThreadTypes DEF CreateEncoder, StateTypes
<1>3. CASE AddSink
  <2>1. PICK s \in ctl.left :
          /\ StartThread({s})
          /\ attached' = [attached EXCEPT ![Encoder] = @ \cup {s}]
          /\ GoTo("addSinks", ctl.enc, ctl.left \ {s})
    BY <1>3 DEF AddSink
  <2>2. ctl.left \subseteq Sinks /\ Sinks \subseteq Nodes
    BY <1>0, <1>3 DEF AddSink, ControlTypes, Nodes
  <2>3. ControlTypes'
    BY <1>0, <2>1, <2>2, GoToTypes
  <2>4. attached' \in [Feeders -> SUBSET Receivers]
    BY <1>0, <2>1, <2>2 DEF StateTypes, Receivers
  <2> QED BY <1>0, <1>3, <2>1, <2>3, <2>4, StartThreadTypes DEF AddSink, StateTypes
<1>4. CASE AllSinksAdded
  <2>1. ControlTypes'
    BY <1>0, <1>4, NextEncoderTypes DEF AllSinksAdded
  <2> QED BY <1>0, <1>4, <2>1 DEF AllSinksAdded, StateTypes
<1>5. CASE StartEncoder
  <2>1. attached[Encoder] \subseteq Nodes /\ Encoder \in Nodes
    BY <1>0 DEF StateTypes, Feeders, Receivers, Nodes
  <2>2. ControlTypes' /\ stopThread' \in [Nodes -> BOOLEAN]
    BY <1>0, <1>5, <2>1, CallTypes DEF StartEncoder, Commands, Backs
  <2> QED BY <1>0, <1>5, <2>2 DEF StartEncoder, StateTypes
<1>6. CASE StartSinks
  <2>1. ControlTypes' /\ stopThread' \in [Nodes -> BOOLEAN]
    BY <1>0, <1>6, CallSomeTypes DEF StartSinks, Commands, Backs
  <2> QED BY <1>0, <1>6, <2>1 DEF StartSinks, StateTypes
<1>7. CASE AllSinksStarted
  <2>1. ControlTypes'
    BY <1>0, <1>7, GoToTypes, EncoderOrderTypes DEF AllSinksStarted, Nodes
  <2>2. locked' \in [Feeders -> BOOLEAN]
    BY <1>0, <1>7 DEF AllSinksStarted, StateTypes
  <2> QED BY <1>0, <1>7, <2>1, <2>2 DEF AllSinksStarted, StateTypes
<1>8. CASE StartSources
  <2>1. ControlTypes' /\ stopThread' \in [Nodes -> BOOLEAN]
    <3>1. CASE \E s \in ctl.left : Call(s, "START", "startSources", ctl.left \ {s})
      BY <1>0, <3>1, CallSomeTypes DEF Commands, Backs
    <3>2. CASE GoTo("running", 1, {}) /\ UNCHANGED stopThread
      <4>1. GoTo("running", 1, {})
        BY <3>2
      <4>2. ControlTypes'
        BY <1>0, <4>1, GoToTypes, EncoderOrderTypes
      <4> QED BY <1>0, <3>2, <4>2 DEF StateTypes
    <3> QED BY <1>8, <3>1, <3>2 DEF StartSources
  <2> QED BY <1>0, <1>8, <2>1 DEF StartSources, StateTypes
<1> QED BY <1>1, <1>2, <1>3, <1>4, <1>5, <1>6, <1>7, <1>8 DEF Starting

LEMMA StoppingStep ==
  ASSUME FlowInv, StopFlow \/ Stopping
  PROVE  StateTypes' /\ ControlTypes' /\ Quiet
<1> USE DEF ThreadsLeave, Quiet, Threads, frameVars, queueVars
<1>0. /\ StateTypes /\ ControlTypes /\ ctl.enc \in DOMAIN EncoderOrder
      /\ Encoder \in Encoders /\ SourceOf[Encoder] \in Sources
  BY EncoderOrderTypes DEF FlowInv, ControlTypes, Encoder
<1>1. CASE StopFlow
  <2>1. Sources \ CaptureSources \subseteq Nodes
    BY DEF Nodes
  <2>2. ControlTypes'
    BY <1>0, <1>1, <2>1, GoToTypes, EncoderOrderTypes DEF StopFlow
  <2> QED BY <1>0, <1>1, <2>2 DEF StopFlow, StateTypes
<1>2. CASE StopSource
  <2>1. ControlTypes' /\ stopThread' \in [Nodes -> BOOLEAN]
    BY <1>0, <1>2, CallSomeTypes DEF StopSource, Commands, Backs
  <2>2. attached' \in [Feeders -> SUBSET Receivers]
    BY <1>0, <1>2 DEF StopSource, StateTypes
  <2> QED BY <1>0, <1>2, <2>1, <2>2 DEF StopSource, StateTypes
<1>3. CASE AllSourcesStopped
  <2>1. ControlTypes'
    BY <1>0, <1>3, GoToTypes, EncoderOrderTypes DEF AllSourcesStopped
  <2> QED BY <1>0, <1>3, <2>1 DEF AllSourcesStopped, StateTypes
<1>4. CASE RemoveEncoder
  <2>1. Encoder \in Nodes
    BY <1>0 DEF Nodes
  <2>2. ControlTypes' /\ stopThread' \in [Nodes -> BOOLEAN]
    BY <1>0, <1>4, <2>1, CallTypes DEF RemoveEncoder, Commands, Backs
  <2>3. attached' \in [Feeders -> SUBSET Receivers]
    BY <1>0, <1>4 DEF RemoveEncoder, StateTypes
  <2> QED BY <1>0, <1>4, <2>2, <2>3 DEF RemoveEncoder, StateTypes
<1>5. CASE StopSinks
  <2>1. ControlTypes' /\ stopThread' \in [Nodes -> BOOLEAN]
    BY <1>0, <1>5, CallSomeTypes DEF StopSinks, Commands, Backs
  <2> QED BY <1>0, <1>5, <2>1 DEF StopSinks, StateTypes
<1>6. CASE DeleteEncoder
  <2>1. Recorders \in SUBSET Nodes
    BY NodesAssumption DEF Nodes
  <2>2. ControlTypes'
    <3>1. CASE ctl.enc < Len(EncoderOrder)
      <4>1. GoTo("removeEncoder", ctl.enc + 1, {})
        BY <1>6, <3>1 DEF DeleteEncoder
      <4> QED BY <1>0, <3>1, <4>1, GoToTypes, EncoderOrderTypes
    <3>2. CASE ~(ctl.enc < Len(EncoderOrder))
      <4>1. GoTo("stopStreams", 1, Recorders)
        BY <1>6, <3>2 DEF DeleteEncoder
      <4> QED BY <1>0, <2>1, <4>1, GoToTypes, EncoderOrderTypes
    <3> QED BY <3>1, <3>2
  <2>3. /\ attached' \in [Feeders -> SUBSET Receivers]
        /\ locked' \in [Feeders -> BOOLEAN]
    BY <1>0, <1>6 DEF DeleteEncoder, StateTypes
  <2>4. /\ inbox' \in [Nodes -> Seq(Messagable)]
        /\ \A n \in Nodes : inbox'[n] = inbox[n] \/ inbox'[n] = << >>
    BY <1>0, <1>6 DEF DeleteEncoder, Delete, StateTypes
  <2> QED BY <1>0, <1>6, <2>2, <2>3, <2>4 DEF DeleteEncoder, StateTypes
<1>7. CASE StopStreams
  <2>1. CASE \E r \in ctl.left : Call(r, "STOP_THREAD", "stopStreams", ctl.left \ {r})
    <3>1. ControlTypes' /\ stopThread' \in [Nodes -> BOOLEAN]
      BY <1>0, <2>1, CallSomeTypes DEF Commands, Backs
    <3>2. /\ inbox' \in [Nodes -> Seq(Messagable)]
          /\ \A n \in Nodes : inbox'[n] = inbox[n] \/ inbox'[n] = << >>
      <4>1. UNCHANGED inbox \/ Delete(Recorders)
        BY <1>7 DEF StopStreams
      <4>2. CASE UNCHANGED inbox
        BY <1>0, <4>2 DEF StateTypes
      <4>3. CASE Delete(Recorders)
        BY <1>0, <4>3 DEF Delete, StateTypes
      <4> QED BY <4>1, <4>2, <4>3
    <3> QED BY <1>0, <1>7, <3>1, <3>2 DEF StopStreams, StateTypes
  <2>2. CASE /\ GoTo("stopped", 1, {}) /\ UNCHANGED stopThread
             /\ Delete(Recorders)
    <3>1. GoTo("stopped", 1, {})
      BY <2>2
    <3>2. ControlTypes'
      BY <1>0, <3>1, GoToTypes, EncoderOrderTypes
    <3>3. /\ inbox' \in [Nodes -> Seq(Messagable)]
          /\ \A n \in Nodes : inbox'[n] = inbox[n] \/ inbox'[n] = << >>
      BY <1>0, <2>2 DEF Delete, StateTypes
    <3> QED BY <1>0, <1>7, <2>2, <3>2, <3>3 DEF StopStreams, StateTypes
  <2> QED BY <1>7, <2>1, <2>2 DEF StopStreams
<1> QED BY <1>1, <1>2, <1>3, <1>4, <1>5, <1>6, <1>7 DEF Stopping

LEMMA MessagesStep ==
  ASSUME FlowInv, RestartRecording \/ Messages
  PROVE  StateTypes' /\ ControlTypes' /\ Quiet
<1> USE DEF ThreadsLeave, Quiet, Threads, frameVars, queueVars
<1>0. /\ StateTypes /\ ControlTypes /\ ctl.enc \in DOMAIN EncoderOrder
      /\ Encoder \in Encoders /\ ctl.msg \in Commands /\ ctl.back \in Backs
  BY EncoderOrderTypes DEF FlowInv, ControlTypes, Encoder
<1>1. CASE RestartRecording
  <2>1. CASE GoTo("restart", 1, Recorders) /\ UNCHANGED stopThread
    <3>1. GoTo("restart", 1, Recorders) /\ Recorders \in SUBSET Nodes
      BY <2>1, NodesAssumption DEF Nodes
    <3>2. ControlTypes'
      BY <1>0, <3>1, GoToTypes, EncoderOrderTypes
    <3> QED BY <1>0, <1>1, <2>1, <3>2 DEF RestartRecording, StateTypes
  <2>2. CASE \E r \in ctl.left : Call(r, "STOP", "restarting", ctl.left \ {r})
    <3>1. ControlTypes' /\ stopThread' \in [Nodes -> BOOLEAN]
      BY <1>0, <2>2, CallSomeTypes DEF Commands, Backs
    <3> QED BY <1>0, <1>1, <3>1 DEF RestartRecording, StateTypes
  <2>3. CASE GoTo("running", 1, {}) /\ UNCHANGED stopThread
    <3>1. GoTo("running", 1, {})
      BY <2>3
    <3>2. ControlTypes'
      BY <1>0, <3>1, GoToTypes, EncoderOrderTypes
    <3> QED BY <1>0, <1>1, <2>3, <3>2 DEF RestartRecording, StateTypes
  <2>4. CASE Call(ctl.node, "START", "restart", ctl.left)
    <3>1. ctl.node \in Nodes \cup {None} /\ ctl.left \in SUBSET Nodes
      BY <1>0 DEF ControlTypes
    <3>2. ControlTypes' /\ stopThread' \in [Nodes -> BOOLEAN]
      BY <1>0, <2>4, <3>1, CallTypes DEF Commands, Backs
    <3> QED BY <1>0, <1>1, <3>2 DEF RestartRecording, StateTypes
  <2> QED BY <1>1, <2>1, <2>2, <2>3, <2>4 DEF RestartRecording
<1>2. CASE ControllerSend
  <2>1. ControlTypes'
    BY <1>0, <1>2 DEF ControllerSend, ControlTypes
  <2>2. /\ inbox' \in [Nodes -> Seq(Messagable)]
        /\ \A n \in Nodes : \/ inbox'[n] = inbox[n]
                            \/ inbox'[n] = Append(inbox[n], ctl.msg)
    <3>1. ctl.msg \in Messagable
      BY <1>0 DEF Messagable
    <3>2. inbox' = [n \in Nodes |-> IF n = ctl.node THEN Append(inbox[n], ctl.msg)
                                                    ELSE inbox[n]]
      BY <1>0, <1>2 DEF ControllerSend, StateTypes
    <3> QED BY <1>0, <3>1, <3>2, AppendToQueue DEF StateTypes
  <2> QED BY <1>0, <1>2, <2>1, <2>2 DEF ControllerSend, StateTypes
<1>3. CASE ControllerPost
  <2>1. ControlTypes'
    BY <1>0, <1>3 DEF ControllerPost, ControlTypes, Backs
  <2>2. sem' \in [Nodes -> Nat]
    <3>1. sem' = [n \in Nodes |-> IF n = ctl.node THEN sem[n] + 1 ELSE sem[n]]
      BY <1>0, <1>3 DEF ControllerPost, StateTypes
    <3> QED BY <1>0, <3>1 DEF StateTypes
  <2> QED BY <1>0, <1>3, <2>1, <2>2 DEF ControllerPost, StateTypes
<1>4. CASE Join
  <2>1. ControlTypes'
    BY <1>0, <1>4 DEF Join, ControlTypes, Backs
  <2> QED BY <1>0, <1>4, <2>1 DEF Join, StateTypes
<1>5. CASE LockSinksOf
  <2>1. attached[Encoder] \in SUBSET Nodes
    BY <1>0 DEF StateTypes, Feeders, Receivers, Nodes
  <2>2. ControlTypes'
    BY <1>0, <1>5, <2>1, GoToTypes DEF LockSinksOf
  <2> QED BY <1>0, <1>5, <2>2 DEF LockSinksOf, StateTypes
<1> QED BY <1>1, <1>2, <1>3, <1>4, <1>5 DEF Messages

-----------------------------------------------------------------------------
(* What a step does to the holders of a frame.                               *)

LEMMA HoldersNow ==
  ASSUME NEW f
  PROVE  Holders(f) = HoldersIn(f, inbox, item, out, kept) /\ IsFiniteSet(Holders(f))
<1>1. Holders(f) = HoldersIn(f, inbox, item, out, kept)
  BY DEF Holders, HoldersIn, InQueue
<1> QED BY <1>1, HoldersFinite

LEMMA HoldersKnown ==
  ASSUME NEW f, NEW n
  PROVE  /\ <<"queue", n>> \in Holders(f) <=> n \in Nodes /\ Contains(inbox[n], f)
         /\ <<"item", n>> \in Holders(f) <=> n \in Nodes /\ item[n] = f
         /\ <<"out", n>> \in Holders(f) <=> n \in Feeders /\ out[n] = f
         /\ <<"kept", n>> \in Holders(f) <=> n \in Sinks /\ f \in kept[n]
BY DEF Holders, InQueue, Contains

(* The holders after a step, when it makes nobody but those of gained a      *)
(* holder, and those of lost are no holders any more.                        *)
OthersHold(f, lost, gained) ==
  /\ \A n \in Nodes : Contains(inbox'[n], f) =>
       <<"queue", n>> \in gained \/ (Contains(inbox[n], f) /\ <<"queue", n>> \notin lost)
  /\ \A n \in Nodes : item'[n] = f =>
       <<"item", n>> \in gained \/ (item[n] = f /\ <<"item", n>> \notin lost)
  /\ \A n \in Feeders : out'[n] = f =>
       <<"out", n>> \in gained \/ (out[n] = f /\ <<"out", n>> \notin lost)
  /\ \A n \in Sinks : f \in kept'[n] =>
       <<"kept", n>> \in gained \/ (f \in kept[n] /\ <<"kept", n>> \notin lost)

LEMMA HoldersAfter ==
  ASSUME NEW f, NEW lost, NEW gained, OthersHold(f, lost, gained)
  PROVE  Holders(f)' \subseteq (Holders(f) \ lost) \cup gained
BY DEF Holders, InQueue, Contains, OthersHold

(* A count covers the holders after a step that takes a holder away with     *)
(* its reference, adds one with a reference, or puts one for another.        *)
LEMMA CountAfter ==
  ASSUME FlowInv, NEW f \in Frames, refs'[f] \in Int,
         \/ OthersHold(f, {}, {}) /\ refs'[f] >= refs[f]
         \/ \E h \in Holders(f) : OthersHold(f, {h}, {}) /\ refs'[f] >= refs[f] - 1
         \/ \E h : OthersHold(f, {}, {h}) /\ refs'[f] >= refs[f] + 1
         \/ \E h \in Holders(f) : \E g : OthersHold(f, {h}, {g}) /\ refs'[f] >= refs[f]
  PROVE  Cardinality(Holders(f)') <= refs'[f]
<1>1. /\ refs[f] \in Int /\ Cardinality(Holders(f)) <= refs[f]
      /\ IsFiniteSet(Holders(f))
  BY HoldersNow DEF FlowInv, HeldFramesLive
<1>2. CASE OthersHold(f, {}, {}) /\ refs'[f] >= refs[f]
  <2>1. Holders(f)' \subseteq Holders(f)
    BY <1>2, HoldersAfter
  <2> QED BY <1>1, <1>2, <2>1, CountCovers
<1>3. ASSUME NEW h \in Holders(f), OthersHold(f, {h}, {}), refs'[f] >= refs[f] - 1
      PROVE  Cardinality(Holders(f)') <= refs'[f]
  <2>1. Holders(f)' \subseteq Holders(f) \ {h}
    BY <1>3, HoldersAfter
  <2> QED BY <1>1, <1>3, <2>1, CountCovers
<1>4. ASSUME NEW h, OthersHold(f, {}, {h}), refs'[f] >= refs[f] + 1
      PROVE  Cardinality(Holders(f)') <= refs'[f]
  <2>1. Holders(f)' \subseteq Holders(f) \cup {h}
    BY <1>4, HoldersAfter
  <2> QED BY <1>1, <1>4, <2>1, CountCovers
<1>5. ASSUME NEW h \in Holders(f), NEW g, OthersHold(f, {h}, {g}), refs'[f] >= refs[f]
      PROVE  Cardinality(Holders(f)') <= refs'[f]
  <2>1. Holders(f)' \subseteq (Holders(f) \ {h}) \cup {g}
    BY <1>5, HoldersAfter
  <2> QED BY <1>1, <1>5, <2>1, CountCovers
<1> QED BY <1>2, <1>3, <1>4, <1>5

LEMMA ControllerKeepsInvariant ==
  ASSUME FlowInv, StateTypes', ControlTypes', Quiet
  PROVE  FlowInv'
<1>0. /\ StateTypes /\ inbox \in [Nodes -> Seq(Messagable)]
      /\ refs \in [Frames -> Int] /\ Commands \subseteq Messagable
      /\ Feeders \subseteq Nodes /\ Receivers \subseteq Nodes /\ Sinks \subseteq Nodes
  BY DEF FlowInv, StateTypes, Messagable, Feeders, Receivers, Nodes
<1>1. /\ UNCHANGED <<refs, maker, item, out, todo, kept>>
      /\ \A n \in Nodes : pc'[n] = pc[n] \/ pc'[n] \in Threads
  BY DEF Quiet
<1>2. ASSUME NEW n \in Nodes
      PROVE  /\ \A f \in Frames : Contains(inbox'[n], f) => Contains(inbox[n], f)
             /\ FramesOnce(inbox[n]) => FramesOnce(inbox'[n])
  <2>1. CASE inbox'[n] = inbox[n]
    BY <2>1
  <2>2. CASE inbox'[n] = << >>
    BY <2>2 DEF Contains, FramesOnce
  <2>3. ASSUME NEW m \in Commands, inbox'[n] = Append(inbox[n], m)
        PROVE  /\ \A f \in Frames : Contains(inbox'[n], f) => Contains(inbox[n], f)
               /\ FramesOnce(inbox[n]) => FramesOnce(inbox'[n])
    <3>1. m \notin Frames
      BY FramesAssumption
    <3> QED BY <1>0, <2>3, <3>1, AppendToQueue
  <2> QED BY <2>1, <2>2, <2>3 DEF Quiet
<1>3. ForwardedFrameIsNew'
  <2>1. \A n \in Feeders : Forwarding(n)' => Forwarding(n) /\ pc'[n] = pc[n]
    BY <1>0, <1>1 DEF Forwarding, Threads
  <2> QED BY <1>0, <1>1, <1>2, <2>1 DEF FlowInv, ForwardedFrameIsNew
<1>4. QueuedOnce'
  BY <1>2 DEF FlowInv, QueuedOnce
<1>5. ConsumerHasFrame'
  BY <1>0, <1>1 DEF FlowInv, ConsumerHasFrame, Threads
<1>6. HeldFramesLive'
  <2>1. SUFFICES ASSUME NEW f \in Frames PROVE Cardinality(Holders(f)') <= refs'[f]
    BY DEF HeldFramesLive
  <2>2. OthersHold(f, {}, {})
    BY <1>1, <1>2 DEF OthersHold
  <2>3. refs[f] \in Int /\ refs'[f] = refs[f]
    BY <1>0, <1>1
  <2> QED BY <2>2, <2>3, CountAfter
<1>7. (refs \in [Frames -> Int])'
  BY <1>0, <1>1
<1> QED BY <1>3, <1>4, <1>5, <1>6, <1>7 DEF FlowInv

-----------------------------------------------------------------------------
(* The threads.                                                              *)

(* A step by which no thread begins to forward and no queue grows.           *)
LEMMA ForwardingGoesOn ==
  ASSUME FlowInv, UNCHANGED <<maker, out, todo>>,
         \A n \in Feeders :
           Forwarding(n)' => Forwarding(n) /\ (pc'[n] = "lock" => pc[n] = "lock"),
         \A s \in Receivers, f \in Frames :
           Contains(inbox'[s], f) => Contains(inbox[s], f)
  PROVE  ForwardedFrameIsNew'
BY DEF FlowInv, ForwardedFrameIsNew

LEMMA ControlLeft ==
  ASSUME FlowInv, UNCHANGED controlVars
  PROVE  ControlTypes'
BY DEF FlowInv, ControlTypes, controlVars

LEMMA NodeKinds ==
  /\ Feeders \subseteq Nodes /\ Receivers \subseteq Nodes /\ Sinks \subseteq Nodes
  /\ Encoders \subseteq Feeders /\ Sources \subseteq Feeders
  /\ Sinks \cap Feeders = {} /\ Encoders \cap Sinks = {} /\ Sources \cap Encoders = {}
BY NodesAssumption DEF Feeders, Receivers, Nodes

(* A step of a thread that moves it to a place where it does not forward and *)
(* leaves frames, queues and what is held alone.                             *)
LEMMA MoveOnly ==
  ASSUME FlowInv, NEW n \in Nodes, NEW from, NEW to, Move(n, from, to),
         to \in {"capture", "poll", "exited", "release", "drain"},
         UNCHANGED <<frameVars, feedVars, item, kept, stopThread, controlVars>>,
         \A s \in Nodes, f \in Frames : Contains(inbox'[s], f) => Contains(inbox[s], f),
         inbox' \in [Nodes -> Seq(Messagable)], sem' \in [Nodes -> Nat],
         active' \in [Nodes -> BOOLEAN], QueuedOnce'
  PROVE  FlowInv'
<1>0. StateTypes /\ refs \in [Frames -> Int]
  BY DEF FlowInv
<1>1. StateTypes' /\ (refs \in [Frames -> Int])'
  BY <1>0 DEF Move, StateTypes, frameVars, feedVars
<1>2. /\ \A s \in Nodes : s # n => pc'[s] = pc[s]
      /\ pc'[n] = to
  BY <1>0 DEF Move, StateTypes
<1>3. ForwardedFrameIsNew'
  <2>1. \A s \in Feeders :
          Forwarding(s)' => Forwarding(s) /\ (pc'[s] = "lock" => pc[s] = "lock")
    BY <1>2, NodeKinds DEF Forwarding
  <2> QED BY <2>1, ForwardingGoesOn, NodeKinds DEF frameVars, feedVars
<1>4. ConsumerHasFrame'
  BY <1>2, NodeKinds DEF FlowInv, ConsumerHasFrame
<1>5. HeldFramesLive'
  <2>1. SUFFICES ASSUME NEW f \in Frames PROVE Cardinality(Holders(f)') <= refs'[f]
    BY DEF HeldFramesLive
  <2>2. OthersHold(f, {}, {})
    BY DEF OthersHold, feedVars
  <2>3. refs[f] \in Int /\ refs'[f] = refs[f]
    BY <1>0 DEF frameVars
  <2> QED BY <2>2, <2>3, CountAfter
<1> QED BY <1>1, <1>3, <1>4, <1>5, ControlLeft DEF FlowInv

LEMMA EmitStep ==
  ASSUME FlowInv, NEW n \in Feeders, NEW from, from \notin {"lock", "forward", "post"},
         Move(n, from, "lock"), Emit(n),
         UNCHANGED <<queueVars, stopThread, active, item, kept, controlVars>>
  PROVE  FlowInv'
<1>0. /\ StateTypes /\ refs \in [Frames -> Int] /\ n \in Nodes
  BY NodeKinds DEF FlowInv
<1>1. PICK f \in Frames :
        /\ refs[f] = 0 /\ refs' = [refs EXCEPT ![f] = 1]
        /\ maker' = [maker EXCEPT ![f] = n] /\ out' = [out EXCEPT ![n] = f]
        /\ UNCHANGED <<attached, locked, todo, target>>
  BY DEF Emit
<1>2. StateTypes' /\ (refs \in [Frames -> Int])'
  BY <1>0, <1>1 DEF Move, StateTypes, queueVars
<1>3. /\ pc'[n] = "lock" /\ out'[n] = f /\ maker'[f] = n
      /\ \A s \in Nodes : s # n => pc'[s] = pc[s]
      /\ \A s \in Feeders : s # n => out'[s] = out[s]
      /\ \A g \in Frames : g # f => maker'[g] = maker[g] /\ refs'[g] = refs[g]
      /\ refs'[f] = 1
  BY <1>0, <1>1 DEF Move, StateTypes
<1>4. Holders(f) = {}
  <2>1. Cardinality(Holders(f)) <= 0
    BY <1>1 DEF FlowInv, HeldFramesLive
  <2> QED BY <2>1, HoldersNow, NoCountNoHolder
<1>5. /\ \A s \in Nodes : ~Contains(inbox[s], f) /\ item[s] # f
      /\ \A s \in Feeders : out[s] # f
      /\ \A s \in Sinks : f \notin kept[s]
  BY <1>4, HoldersKnown
<1>6. ForwardedFrameIsNew'
  <2>1. SUFFICES ASSUME NEW m \in Feeders, Forwarding(m)'
                 PROVE /\ out'[m] \in Frames /\ maker'[out'[m]] = m
                       /\ \A s \in Receivers : pc'[m] = "lock" \/ s \in todo'[m]
                            => ~Contains(inbox'[s], out'[m])
    BY DEF ForwardedFrameIsNew
  <2>2. CASE m = n
    BY <1>3, <1>5, <2>2, NodeKinds DEF queueVars
  <2>3. CASE m # n
    <3>1. pc'[m] = pc[m] /\ out'[m] = out[m] /\ out[m] # f /\ Forwarding(m)
      BY <1>3, <1>5, <2>1, <2>3, NodeKinds DEF Forwarding
    <3>2. /\ out[m] \in Frames /\ maker[out[m]] = m
          /\ \A s \in Receivers : pc[m] = "lock" \/ s \in todo[m]
               => ~Contains(inbox[s], out[m])
      BY <3>1 DEF FlowInv, ForwardedFrameIsNew
    <3> QED BY <1>1, <1>3, <3>1, <3>2 DEF queueVars
  <2> QED BY <2>2, <2>3
<1>7. QueuedOnce'
  BY DEF FlowInv, QueuedOnce, queueVars
<1>8. ConsumerHasFrame'
  BY <1>3, NodeKinds DEF FlowInv, ConsumerHasFrame
<1>9. HeldFramesLive'
  <2>1. SUFFICES ASSUME NEW g \in Frames PROVE Cardinality(Holders(g)') <= refs'[g]
    BY DEF HeldFramesLive
  <2>2. CASE g = f
    <3>1. OthersHold(f, {}, {<<"out", n>>})
      BY <1>3, <1>5 DEF OthersHold, queueVars
    <3>2. refs'[f] \in Int /\ refs'[f] >= refs[f] + 1
      BY <1>1, <1>3
    <3> QED BY <2>2, <3>1, <3>2, CountAfter
  <2>3. CASE g # f
    <3>1. OthersHold(g, {}, {})
      BY <1>3, <2>3 DEF OthersHold, queueVars
    <3>2. refs'[g] \in Int /\ refs'[g] = refs[g]
      BY <1>0, <1>3, <2>3
    <3> QED BY <3>1, <3>2, CountAfter
  <2> QED BY <2>2, <2>3
<1> QED BY <1>2, <1>6, <1>7, <1>8, <1>9, ControlLeft DEF FlowInv

LEMMA MoveEffect ==
  ASSUME StateTypes, NEW n \in Nodes, NEW from, NEW to, Move(n, from, to)
  PROVE  /\ pc[n] = from /\ pc'[n] = to
         /\ \A s \in Nodes : s # n => pc'[s] = pc[s]
BY DEF Move, StateTypes

LEMMA ReleaseEffect ==
  ASSUME refs \in [Frames -> Int], NEW fs, Release(fs)
  PROVE  /\ (refs \in [Frames -> Int])'
         /\ \A f \in Frames : refs'[f] = IF f \in fs THEN refs[f] - 1 ELSE refs[f]
BY DEF Release

LEMMA LockSinksStep ==
  ASSUME FlowInv, NEW n \in Feeders, LockSinks(n)
  PROVE  FlowInv'
<1>0. /\ StateTypes /\ refs \in [Frames -> Int] /\ n \in Nodes
  BY NodeKinds DEF FlowInv
<1>1. StateTypes' /\ (refs \in [Frames -> Int])' /\ QueuedOnce' /\ ControlTypes'
  BY <1>0, ControlLeft
     DEF LockSinks, Move, StateTypes, frameVars, queueVars, FlowInv, QueuedOnce
<1>2. /\ pc[n] = "lock" /\ pc'[n] = "forward"
      /\ \A s \in Nodes : s # n => pc'[s] = pc[s]
      /\ \A s \in Feeders : s # n => todo'[s] = todo[s]
      /\ UNCHANGED <<refs, maker, inbox, item, out, kept>>
  BY <1>0, MoveEffect DEF LockSinks, StateTypes, frameVars, queueVars
<1>3. ForwardedFrameIsNew'
  <2>1. \A m \in Feeders : Forwarding(m)' =>
          Forwarding(m) /\ (m = n \/ (pc'[m] = pc[m] /\ todo'[m] = todo[m]))
    BY <1>2, NodeKinds DEF Forwarding
  <2> QED BY <1>2, <2>1 DEF FlowInv, ForwardedFrameIsNew
<1>4. ConsumerHasFrame'
  BY <1>2, NodeKinds DEF FlowInv, ConsumerHasFrame
<1>5. HeldFramesLive'
  <2>1. SUFFICES ASSUME NEW f \in Frames PROVE Cardinality(Holders(f)') <= refs'[f]
    BY DEF HeldFramesLive
  <2>2. OthersHold(f, {}, {})
    BY <1>2 DEF OthersHold
  <2> QED BY <1>0, <1>2, <2>2, CountAfter
<1> QED BY <1>1, <1>3, <1>4, <1>5 DEF FlowInv

LEMMA EnqueueFrameStep ==
  ASSUME FlowInv, NEW n \in Feeders, EnqueueFrame(n)
  PROVE  FlowInv'
<1>0. /\ StateTypes /\ refs \in [Frames -> Int] /\ n \in Nodes
  BY NodeKinds DEF FlowInv
<1>1. PICK s \in todo[n] :
        /\ Move(n, "forward", "post")
        /\ refs' = [refs EXCEPT ![out[n]] = @ + 1]
        /\ inbox' = [inbox EXCEPT ![s] = Append(@, out[n])]
        /\ todo' = [todo EXCEPT ![n] = @ \ {s}]
        /\ target' = [target EXCEPT ![n] = IF pc[s] = "none" THEN None ELSE s]
        /\ UNCHANGED <<maker, attached, locked, out, sem, stopThread, active, item,
                       kept, controlVars>>
  BY DEF EnqueueFrame
<1>2. s \in Receivers /\ s \in Nodes
  BY <1>0, <1>1, NodeKinds DEF StateTypes
<1>3. pc[n] = "forward" /\ Forwarding(n) /\ pc'[n] = "post"
  BY <1>0, <1>1, MoveEffect DEF Forwarding
<1>4. /\ out[n] \in Frames /\ maker[out[n]] = n
      /\ \A r \in todo[n] : ~Contains(inbox[r], out[n])
  BY <1>0, <1>3 DEF FlowInv, ForwardedFrameIsNew, StateTypes
<1>5. /\ inbox' \in [Nodes -> Seq(Messagable)]
      /\ inbox'[s] = Append(inbox[s], out[n])
      /\ \A r \in Nodes : r # s => inbox'[r] = inbox[r]
      /\ \A f : Contains(inbox'[s], f) <=> Contains(inbox[s], f) \/ f = out[n]
      /\ FramesOnce(inbox[s]) => FramesOnce(inbox'[s])
  <2>1. inbox[s] \in Seq(Messagable) /\ out[n] \in Messagable
    BY <1>0, <1>2, <1>4 DEF StateTypes, Messagable
  <2>2. /\ Append(inbox[s], out[n]) \in Seq(Messagable)
        /\ \A f : Contains(Append(inbox[s], out[n]), f)
                    <=> Contains(inbox[s], f) \/ f = out[n]
        /\ FramesOnce(inbox[s]) => FramesOnce(Append(inbox[s], out[n]))
    BY <1>1, <1>4, <2>1, AppendToQueue
  <2>3. /\ inbox'[s] = Append(inbox[s], out[n])
        /\ \A r \in Nodes : r # s => inbox'[r] = inbox[r]
        /\ inbox' \in [Nodes -> Seq(Messagable)]
    BY <1>0, <1>1, <1>2, <2>2 DEF StateTypes
  <2> QED BY <2>2, <2>3
<1>6. (refs \in [Frames -> Int])'
  BY <1>0, <1>1, <1>4
<1>7. StateTypes'
  BY <1>0, <1>1, <1>2, <1>5 DEF Move, StateTypes
<1>8. QueuedOnce'
  BY <1>2, <1>5 DEF FlowInv, QueuedOnce
<1>9. ForwardedFrameIsNew'
  <2>1. SUFFICES ASSUME NEW m \in Feeders, Forwarding(m)'
                 PROVE /\ out'[m] \in Frames /\ maker'[out'[m]] = m
                       /\ \A r \in Receivers : pc'[m] = "lock" \/ r \in todo'[m]
                            => ~Contains(inbox'[r], out'[m])
    BY DEF ForwardedFrameIsNew
  <2>2. CASE m = n
    <3>1. s \notin todo'[n] /\ todo'[n] \subseteq todo[n]
      BY <1>0, <1>1 DEF StateTypes
    <3> QED BY <1>1, <1>3, <1>4, <1>5, <2>2, <3>1, NodeKinds
  <2>3. CASE m # n
    <3>1. Forwarding(m) /\ pc'[m] = pc[m] /\ todo'[m] = todo[m]
      BY <1>0, <1>1, <2>1, <2>3, MoveEffect, NodeKinds DEF Forwarding, StateTypes
    <3>2. /\ out[m] \in Frames /\ maker[out[m]] = m
          /\ \A r \in Receivers : pc[m] = "lock" \/ r \in todo[m]
               => ~Contains(inbox[r], out[m])
      BY <3>1 DEF FlowInv, ForwardedFrameIsNew
    <3>3. out[m] # out[n]
      BY <1>4, <2>3, <3>2
    <3> QED BY <1>1, <1>5, <3>1, <3>2, <3>3, NodeKinds
  <2> QED BY <2>2, <2>3
<1>10. ConsumerHasFrame'
  <2>1. \A r \in Sinks : pc'[r] = pc[r]
    BY <1>0, <1>1, MoveEffect, NodeKinds
  <2> QED BY <1>1, <2>1 DEF FlowInv, ConsumerHasFrame
<1>11. HeldFramesLive'
  <2>1. SUFFICES ASSUME NEW f \in Frames PROVE Cardinality(Holders(f)') <= refs'[f]
    BY DEF HeldFramesLive
  <2>2. CASE f = out[n]
    <3>1. OthersHold(f, {}, {<<"queue", s>>})
      BY <1>1, <1>5, <2>2 DEF OthersHold
    <3>2. refs'[f] \in Int /\ refs'[f] >= refs[f] + 1
      BY <1>0, <1>1, <2>2
    <3> QED BY <3>1, <3>2, CountAfter
  <2>3. CASE f # out[n]
    <3>1. OthersHold(f, {}, {})
      BY <1>1, <1>5, <2>3 DEF OthersHold
    <3>2. refs'[f] \in Int /\ refs'[f] >= refs[f]
      BY <1>0, <1>1, <2>3
    <3> QED BY <3>1, <3>2, CountAfter
  <2> QED BY <2>2, <2>3
<1> QED BY <1>1, <1>6, <1>7, <1>8, <1>9, <1>10, <1>11, ControlLeft DEF FlowInv

LEMMA PostFrameStep ==
  ASSUME FlowInv, NEW n \in Feeders, PostFrame(n)
  PROVE  FlowInv'
<1>0. /\ StateTypes /\ refs \in [Frames -> Int] /\ n \in Nodes
  BY NodeKinds DEF FlowInv
<1>1. StateTypes' /\ (refs \in [Frames -> Int])' /\ QueuedOnce' /\ ControlTypes'
  BY <1>0, ControlLeft
     DEF PostFrame, Move, StateTypes, frameVars, FlowInv, QueuedOnce
<1>2. /\ pc[n] = "post" /\ pc'[n] = "forward"
      /\ \A s \in Nodes : s # n => pc'[s] = pc[s]
      /\ UNCHANGED <<refs, maker, inbox, item, out, todo, kept>>
  BY <1>0, MoveEffect DEF PostFrame, frameVars
<1>3. ForwardedFrameIsNew'
  <2>1. \A s \in Feeders :
          Forwarding(s)' => Forwarding(s) /\ (pc'[s] = "lock" => pc[s] = "lock")
    BY <1>2, NodeKinds DEF Forwarding
  <2> QED BY <1>2, <2>1, ForwardingGoesOn
<1>4. ConsumerHasFrame'
  BY <1>2, NodeKinds DEF FlowInv, ConsumerHasFrame
<1>5. HeldFramesLive'
  <2>1. SUFFICES ASSUME NEW f \in Frames PROVE Cardinality(Holders(f)') <= refs'[f]
    BY DEF HeldFramesLive
  <2>2. OthersHold(f, {}, {})
    BY <1>2 DEF OthersHold
  <2> QED BY <1>0, <1>2, <2>2, CountAfter
<1> QED BY <1>1, <1>3, <1>4, <1>5 DEF FlowInv

LEMMA FinishForwardStep ==
  ASSUME FlowInv, NEW n \in Feeders, FinishForward(n)
  PROVE  FlowInv'
<1>0. /\ StateTypes /\ refs \in [Frames -> Int] /\ n \in Nodes
  BY NodeKinds DEF FlowInv
<1>1. Resume(n) \in {"poll", "release", "drain"}
  BY DEF Resume
<1>2. StateTypes' /\ QueuedOnce' /\ ControlTypes'
  BY <1>0, <1>1, ControlLeft
     DEF FinishForward, Move, StateTypes, queueVars, FlowInv, QueuedOnce
<1>3. /\ pc'[n] = Resume(n) /\ out' = [out EXCEPT ![n] = None]
      /\ \A s \in Nodes : s # n => pc'[s] = pc[s]
      /\ UNCHANGED <<maker, inbox, item, todo, kept>> /\ Release({out[n]})
  BY <1>0, MoveEffect DEF FinishForward, queueVars
<1>4. ForwardedFrameIsNew'
  <2>1. \A m \in Feeders :
          Forwarding(m)' => Forwarding(m) /\ pc'[m] = pc[m] /\ out'[m] = out[m]
    BY <1>0, <1>1, <1>3, NodeKinds DEF Forwarding, StateTypes
  <2> QED BY <1>3, <2>1 DEF FlowInv, ForwardedFrameIsNew
<1>5. ConsumerHasFrame'
  BY <1>1, <1>3, NodeKinds DEF FlowInv, ConsumerHasFrame
<1>6. HeldFramesLive'
  <2>1. SUFFICES ASSUME NEW f \in Frames PROVE Cardinality(Holders(f)') <= refs'[f]
    BY DEF HeldFramesLive
  <2>2. /\ refs'[f] \in Int
        /\ refs'[f] = IF f = out[n] THEN refs[f] - 1 ELSE refs[f]
    BY <1>0, <1>3, ReleaseEffect
  <2>3. CASE f = out[n]
    <3>1. OthersHold(f, {<<"out", n>>}, {}) /\ <<"out", n>> \in Holders(f)
      <4>1. out'[n] # f /\ \A s \in Feeders : s # n => out'[s] = out[s]
        BY <1>0, <1>3, FramesAssumption DEF StateTypes
      <4> QED BY <1>3, <2>3, <4>1, HoldersKnown DEF OthersHold
    <3>2. refs'[f] >= refs[f] - 1
      BY <1>0, <2>2, <2>3
    <3> QED BY <2>2, <3>1, <3>2, CountAfter
  <2>4. CASE f # out[n]
    <3>1. OthersHold(f, {}, {})
      BY <1>0, <1>3, <2>4, FramesAssumption DEF OthersHold, StateTypes
    <3> QED BY <1>0, <2>2, <2>4, <3>1, CountAfter
  <2> QED BY <2>3, <2>4
<1>7. (refs \in [Frames -> Int])'
  BY <1>0, <1>3, ReleaseEffect
<1> QED BY <1>2, <1>4, <1>5, <1>6, <1>7 DEF FlowInv

LEMMA TakeEffect ==
  ASSUME FlowInv, NEW n \in Nodes, inbox[n] # << >>,
         inbox' = [inbox EXCEPT ![n] = Tail(@)]
  PROVE  /\ inbox' \in [Nodes -> Seq(Messagable)] /\ QueuedOnce'
         /\ Head(inbox[n]) \in Messagable /\ Contains(inbox[n], Head(inbox[n]))
         /\ \A s \in Nodes, f \in Frames : Contains(inbox'[s], f) => Contains(inbox[s], f)
         /\ Head(inbox[n]) \in Frames => ~Contains(inbox'[n], Head(inbox[n]))
<1>1. inbox \in [Nodes -> Seq(Messagable)] /\ FramesOnce(inbox[n])
  BY DEF FlowInv, StateTypes, QueuedOnce
<1>2. /\ inbox'[n] = Tail(inbox[n])
      /\ \A s \in Nodes : s # n => inbox'[s] = inbox[s]
  BY <1>1
<1>3. /\ inbox' \in [Nodes -> Seq(Messagable)] /\ FramesOnce(inbox'[n])
      /\ Head(inbox[n]) \in Messagable /\ Contains(inbox[n], Head(inbox[n]))
      /\ \A f : Contains(inbox'[n], f) => Contains(inbox[n], f)
      /\ Head(inbox[n]) \in Frames => ~Contains(inbox'[n], Head(inbox[n]))
  <2>1. inbox[n] \in Seq(Messagable)
    BY <1>1
  <2>2. /\ Tail(inbox[n]) \in Seq(Messagable) /\ FramesOnce(Tail(inbox[n]))
        /\ Head(inbox[n]) \in Messagable /\ Contains(inbox[n], Head(inbox[n]))
        /\ \A f : Contains(Tail(inbox[n]), f) => Contains(inbox[n], f)
        /\ Head(inbox[n]) \in Frames => ~Contains(Tail(inbox[n]), Head(inbox[n]))
    BY <1>1, <2>1, TailOfQueue
  <2> QED BY <1>1, <1>2, <2>2
<1>4. QueuedOnce'
  BY <1>2, <1>3 DEF FlowInv, QueuedOnce
<1> QED BY <1>2, <1>3, <1>4

LEMMA PollStep ==
  ASSUME FlowInv, NEW n \in Sources, Poll(n)
  PROVE  FlowInv'
<1>0. /\ StateTypes /\ n \in Nodes /\ sem \in [Nodes -> Nat]
      /\ active \in [Nodes -> BOOLEAN] /\ QueuedOnce
  BY NodeKinds DEF FlowInv, StateTypes
<1>1. UNCHANGED <<frameVars, feedVars, stopThread, item, kept, controlVars>>
  BY DEF Poll
<1>2. PICK to \in {"exited", "capture", "poll"} : Move(n, "poll", to)
  BY DEF Poll
<1>3. active' \in [Nodes -> BOOLEAN]
  BY <1>0 DEF Poll
<1>4. sem' \in [Nodes -> Nat]
  <2>1. CASE sem[n] > 0 /\ sem' = [sem EXCEPT ![n] = @ - 1]
    BY <1>0, <2>1
  <2> QED BY <1>0, <2>1 DEF Poll
<1>5. /\ inbox' \in [Nodes -> Seq(Messagable)] /\ QueuedOnce'
      /\ \A s \in Nodes, f \in Frames : Contains(inbox'[s], f) => Contains(inbox[s], f)
  <2>1. CASE inbox[n] # << >> /\ inbox' = [inbox EXCEPT ![n] = Tail(@)]
    BY <1>0, <2>1, TakeEffect
  <2>2. CASE UNCHANGED inbox
    BY <1>0, <2>2 DEF StateTypes, QueuedOnce
  <2> QED BY <2>1, <2>2 DEF Poll
<1> QED BY <1>0, <1>1, <1>2, <1>3, <1>4, <1>5, MoveOnly

(* The steps that may make a frame. *)
LEMMA MakerStep ==
  ASSUME FlowInv, NEW n \in Feeders, Capture(n) \/ Encode(n) \/ Flush(n)
  PROVE  FlowInv'
<1>0. /\ StateTypes /\ n \in Nodes /\ QueuedOnce
      /\ UNCHANGED <<queueVars, stopThread, active, item, kept, controlVars>>
  BY NodeKinds DEF FlowInv, Capture, Encode, Flush
<1>1. \/ \E from \in {"capture", "encode", "flush"} : Move(n, from, "lock") /\ Emit(n)
      \/ \E from \in {"capture", "encode", "flush"}, to \in {"poll", "release", "drain"} :
           Move(n, from, to) /\ UNCHANGED <<frameVars, feedVars>>
  BY DEF Capture, Encode, Flush
<1>2. ASSUME NEW from \in {"capture", "encode", "flush"}, Move(n, from, "lock"), Emit(n)
      PROVE  FlowInv'
  <2>1. from \notin {"lock", "forward", "post"}
    OBVIOUS
  <2> QED BY <1>0, <1>2, <2>1, EmitStep
<1>3. ASSUME NEW from \in {"capture", "encode", "flush"},
             NEW to \in {"poll", "release", "drain"},
             Move(n, from, to), UNCHANGED <<frameVars, feedVars>>
      PROVE  FlowInv'
  <2>1. /\ inbox' \in [Nodes -> Seq(Messagable)] /\ sem' \in [Nodes -> Nat]
        /\ active' \in [Nodes -> BOOLEAN] /\ QueuedOnce'
        /\ \A s \in Nodes, f \in Frames : Contains(inbox'[s], f) => Contains(inbox[s], f)
    BY <1>0 DEF StateTypes, queueVars, QueuedOnce
  <2> QED BY <1>0, <1>3, <2>1, MoveOnly
<1> QED BY <1>1, <1>2, <1>3

LEMMA ReceiveStep ==
  ASSUME FlowInv, NEW n \in Receivers, Receive(n)
  PROVE  FlowInv'
<1> DEFINE m == Head(inbox[n])
<1>0. /\ StateTypes /\ refs \in [Frames -> Int] /\ n \in Nodes
      /\ inbox[n] # << >> /\ inbox' = [inbox EXCEPT ![n] = Tail(@)]
  BY NodeKinds DEF FlowInv, Receive
<1>1. /\ inbox' \in [Nodes -> Seq(Messagable)] /\ QueuedOnce'
      /\ m \in Messagable /\ Contains(inbox[n], m)
      /\ \A s \in Nodes, f \in Frames : Contains(inbox'[s], f) => Contains(inbox[s], f)
      /\ m \in Frames => ~Contains(inbox'[n], m)
  BY <1>0, TakeEffect
<1>2. /\ pc'[n] = Handler(n, m)
      /\ \A s \in Nodes : s # n => pc'[s] = pc[s] /\ item'[s] = item[s]
      /\ m \in Frames => item'[n] = m
      /\ m \notin Frames => item' = item
      /\ UNCHANGED <<refs, maker, out, todo, kept>>
  BY <1>0, MoveEffect DEF Receive, StateTypes, frameVars, feedVars
<1>3. /\ Handler(n, m) \in {"flush", "finish", "pause", "wait", "encode", "consume"}
      /\ Handler(n, m) = "consume" => m \notin Commands
  BY DEF Handler, Commands
<1>4. StateTypes' /\ (refs \in [Frames -> Int])'
  <2>1. pc' = [pc EXCEPT ![n] = Handler(n, m)]
    BY DEF Receive, Move
  <2>2. active' \in [Nodes -> BOOLEAN]
    BY <1>0 DEF Receive, StartSink, StateTypes
  <2>3. sem' \in [Nodes -> Nat] /\ item' \in [Nodes -> Frames \cup {None}]
    BY <1>0 DEF Receive, StateTypes
  <2> QED BY <1>0, <1>1, <1>3, <2>1, <2>2, <2>3
          DEF Receive, StateTypes, frameVars, feedVars
<1>5. ForwardedFrameIsNew'
  <2>1. \A s \in Feeders :
          Forwarding(s)' => Forwarding(s) /\ (pc'[s] = "lock" => pc[s] = "lock")
    BY <1>2, <1>3, NodeKinds DEF Forwarding
  <2> QED BY <1>1, <1>2, <2>1, ForwardingGoesOn, NodeKinds
<1>6. ConsumerHasFrame'
  <2>1. pc'[n] = "consume" => item'[n] \in Frames
    BY <1>1, <1>2, <1>3 DEF Messagable
  <2> QED BY <1>2, <2>1, NodeKinds DEF FlowInv, ConsumerHasFrame
<1>7. HeldFramesLive'
  <2>1. SUFFICES ASSUME NEW f \in Frames PROVE Cardinality(Holders(f)') <= refs'[f]
    BY DEF HeldFramesLive
  <2>2. refs'[f] \in Int /\ refs'[f] = refs[f]
    BY <1>0, <1>2
  <2>3. CASE f = m
    <3>1. OthersHold(f, {<<"queue", n>>}, {<<"item", n>>})
      BY <1>1, <1>2, <2>3 DEF OthersHold
    <3>2. <<"queue", n>> \in Holders(f)
      BY <1>0, <1>1, <2>3, HoldersKnown
    <3>3. refs'[f] >= refs[f]
      BY <1>0, <2>2
    <3>4. \E h \in Holders(f) : \E g : OthersHold(f, {h}, {g}) /\ refs'[f] >= refs[f]
      BY <3>1, <3>2, <3>3
    <3> QED BY <2>2, <3>4, CountAfter
  <2>4. CASE f # m
    <3>1. OthersHold(f, {}, {})
      BY <1>1, <1>2, <2>4 DEF OthersHold
    <3> QED BY <1>0, <2>2, <3>1, CountAfter
  <2> QED BY <2>3, <2>4
<1>8. ControlTypes'
  BY ControlLeft DEF Receive
<1> QED BY <1>1, <1>4, <1>5, <1>6, <1>7, <1>8 DEF FlowInv

(* A step of a thread that only gives references back. *)
LEMMA GiveBack ==
  ASSUME FlowInv, NEW n \in Nodes, NEW from, NEW to \in {"wait", "drain", "exited"},
         Move(n, from, to), UNCHANGED <<maker, feedVars, stopThread, sem, controlVars>>,
         NEW fs, Release(fs), QueuedOnce',
         inbox' \in [Nodes -> Seq(Messagable)], item' \in [Nodes -> Frames \cup {None}],
         active' \in [Nodes -> BOOLEAN], kept' \in [Sinks -> SUBSET Frames],
         \A s \in Nodes : s # n => item'[s] = item[s],
         \A s \in Nodes, f \in Frames : Contains(inbox'[s], f) => Contains(inbox[s], f),
         \A f \in Frames :
           \/ f \notin fs /\ OthersHold(f, {}, {})
           \/ \E h \in Holders(f) : f \in fs /\ OthersHold(f, {h}, {})
           \/ \E h \in Holders(f) : \E g : f \notin fs /\ OthersHold(f, {h}, {g})
  PROVE  FlowInv'
<1>0. StateTypes /\ refs \in [Frames -> Int]
  BY DEF FlowInv
<1>1. /\ (refs \in [Frames -> Int])'
      /\ \A f \in Frames : refs'[f] = IF f \in fs THEN refs[f] - 1 ELSE refs[f]
  BY <1>0, ReleaseEffect
<1>2. StateTypes'
  BY <1>0 DEF Move, StateTypes, feedVars
<1>3. /\ pc'[n] = to
      /\ \A s \in Nodes : s # n => pc'[s] = pc[s]
  BY <1>0, MoveEffect
<1>4. ForwardedFrameIsNew'
  <2>1. \A s \in Feeders :
          Forwarding(s)' => Forwarding(s) /\ (pc'[s] = "lock" => pc[s] = "lock")
    BY <1>3, NodeKinds DEF Forwarding
  <2> QED BY <2>1, ForwardingGoesOn, NodeKinds DEF feedVars
<1>5. ConsumerHasFrame'
  BY <1>3, NodeKinds DEF FlowInv, ConsumerHasFrame
<1>6. HeldFramesLive'
  <2>1. SUFFICES ASSUME NEW f \in Frames PROVE Cardinality(Holders(f)') <= refs'[f]
    BY DEF HeldFramesLive
  <2>2. refs[f] \in Int /\ refs'[f] \in Int
    BY <1>0, <1>1
  <2>3. CASE f \notin fs /\ OthersHold(f, {}, {})
    <3>1. refs'[f] >= refs[f]
      BY <1>1, <2>2, <2>3
    <3> QED BY <2>2, <2>3, <3>1, CountAfter
  <2>4. ASSUME NEW h \in Holders(f), f \in fs, OthersHold(f, {h}, {})
        PROVE  Cardinality(Holders(f)') <= refs'[f]
    <3>1. refs'[f] >= refs[f] - 1
      BY <1>1, <2>2, <2>4
    <3>2. \E k \in Holders(f) : OthersHold(f, {k}, {}) /\ refs'[f] >= refs[f] - 1
      BY <2>4, <3>1
    <3> QED BY <2>2, <3>2, CountAfter
  <2>5. ASSUME NEW h \in Holders(f), NEW g, f \notin fs, OthersHold(f, {h}, {g})
        PROVE  Cardinality(Holders(f)') <= refs'[f]
    <3>1. refs'[f] >= refs[f]
      BY <1>1, <2>2, <2>5
    <3>2. \E k \in Holders(f) : \E j : OthersHold(f, {k}, {j}) /\ refs'[f] >= refs[f]
      BY <2>5, <3>1
    <3> QED BY <2>2, <3>2, CountAfter
  <2> QED BY <2>3, <2>4, <2>5
<1> QED BY <1>1, <1>2, <1>4, <1>5, <1>6, ControlLeft DEF FlowInv

LEMMA ReleaseItemStep ==
  ASSUME FlowInv, NEW n \in Encoders, ReleaseItem(n)
  PROVE  FlowInv'
<1>0. StateTypes /\ n \in Nodes /\ QueuedOnce
  BY NodeKinds DEF FlowInv
<1>1. /\ Move(n, "release", "wait") /\ Release({item[n]})
      /\ UNCHANGED <<maker, feedVars, stopThread, sem, controlVars>>
      /\ UNCHANGED <<inbox, out, active, kept>>
  BY DEF ReleaseItem, queueVars, feedVars
<1>2. /\ item' \in [Nodes -> Frames \cup {None}] /\ item'[n] = None
      /\ \A s \in Nodes : s # n => item'[s] = item[s]
  BY <1>0 DEF ReleaseItem, StateTypes
<1>3. ASSUME NEW f \in Frames
      PROVE  \/ f \notin {item[n]} /\ OthersHold(f, {}, {})
             \/ \E h \in Holders(f) : f \in {item[n]} /\ OthersHold(f, {h}, {})
  <2>1. CASE f = item[n]
    <3>1. <<"item", n>> \in Holders(f)
      BY <1>0, <2>1, HoldersKnown
    <3>2. OthersHold(f, {<<"item", n>>}, {})
      BY <1>1, <1>2, FramesAssumption DEF OthersHold
    <3> QED BY <2>1, <3>1, <3>2
  <2>2. CASE f # item[n]
    <3>1. OthersHold(f, {}, {})
      BY <1>1, <1>2, FramesAssumption DEF OthersHold
    <3> QED BY <2>2, <3>1
  <2> QED BY <2>1, <2>2
<1>4. /\ QueuedOnce' /\ inbox' \in [Nodes -> Seq(Messagable)]
      /\ active' \in [Nodes -> BOOLEAN] /\ kept' \in [Sinks -> SUBSET Frames]
      /\ \A s \in Nodes, f \in Frames : Contains(inbox'[s], f) => Contains(inbox[s], f)
  BY <1>0, <1>1 DEF StateTypes, QueuedOnce
<1> QED BY <1>0, <1>1, <1>2, <1>3, <1>4, GiveBack

LEMMA DrainStep ==
  ASSUME FlowInv, NEW n \in Receivers, Drain(n)
  PROVE  FlowInv'
<1>0. StateTypes /\ n \in Nodes /\ QueuedOnce
  BY NodeKinds DEF FlowInv
<1>1. /\ UNCHANGED <<maker, feedVars, stopThread, sem, controlVars>>
      /\ UNCHANGED <<out, item, active, kept>>
  BY DEF Drain, feedVars
<1>2. /\ item' \in [Nodes -> Frames \cup {None}] /\ active' \in [Nodes -> BOOLEAN]
      /\ kept' \in [Sinks -> SUBSET Frames]
      /\ \A s \in Nodes : s # n => item'[s] = item[s]
  BY <1>0, <1>1 DEF StateTypes
<1>3. CASE Move(n, "drain", "exited") /\ UNCHANGED <<refs, inbox>>
  <2>1. Release({})
    BY <1>3 DEF FlowInv, Release
  <2>2. \A f \in Frames : f \notin {} /\ OthersHold(f, {}, {})
    BY <1>1, <1>3 DEF OthersHold
  <2>3. /\ QueuedOnce' /\ inbox' \in [Nodes -> Seq(Messagable)]
        /\ \A s \in Nodes, f \in Frames : Contains(inbox'[s], f) => Contains(inbox[s], f)
    BY <1>0, <1>3 DEF StateTypes, QueuedOnce
  <2> QED BY <1>0, <1>1, <1>2, <1>3, <2>1, <2>2, <2>3, GiveBack
<1>4. CASE /\ inbox[n] # << >> /\ Move(n, "drain", "drain")
           /\ inbox' = [inbox EXCEPT ![n] = Tail(@)]
           /\ Release({Head(inbox[n])} \cap Frames)
  <2>1. /\ inbox' \in [Nodes -> Seq(Messagable)] /\ QueuedOnce'
        /\ Contains(inbox[n], Head(inbox[n]))
        /\ \A s \in Nodes, f \in Frames : Contains(inbox'[s], f) => Contains(inbox[s], f)
        /\ Head(inbox[n]) \in Frames => ~Contains(inbox'[n], Head(inbox[n]))
    BY <1>0, <1>4, TakeEffect
  <2>2. ASSUME NEW f \in Frames
        PROVE  \/ f \notin {Head(inbox[n])} \cap Frames /\ OthersHold(f, {}, {})
               \/ \E h \in Holders(f) :
                    f \in {Head(inbox[n])} \cap Frames /\ OthersHold(f, {h}, {})
    <3>1. CASE f = Head(inbox[n])
      <4>1. <<"queue", n>> \in Holders(f)
        BY <1>0, <2>1, <3>1, HoldersKnown
      <4>2. OthersHold(f, {<<"queue", n>>}, {})
        BY <1>1, <2>1, <3>1 DEF OthersHold
      <4> QED BY <3>1, <4>1, <4>2
    <3>2. CASE f # Head(inbox[n])
      <4>1. OthersHold(f, {}, {})
        BY <1>1, <2>1 DEF OthersHold
      <4> QED BY <3>2, <4>1
    <3> QED BY <3>1, <3>2
  <2> QED BY <1>0, <1>1, <1>2, <1>4, <2>1, <2>2, GiveBack
<1> QED BY <1>3, <1>4 DEF Drain

LEMMA StopSinkStep ==
  ASSUME FlowInv, NEW n \in Sinks, StopSink(n)
  PROVE  FlowInv'
<1>0. StateTypes /\ n \in Nodes /\ QueuedOnce
  BY NodeKinds DEF FlowInv
<1>1. PICK from \in {"finish", "pause"}, to \in {"wait", "drain"} : Move(n, from, to)
  BY DEF StopSink
<1>2. /\ Release(kept[n]) /\ kept' = [kept EXCEPT ![n] = {}]
      /\ UNCHANGED <<maker, feedVars, stopThread, sem, controlVars>>
      /\ UNCHANGED <<inbox, out, item>>
  BY DEF StopSink, queueVars, feedVars
<1>3. /\ kept' \in [Sinks -> SUBSET Frames] /\ kept'[n] = {}
      /\ \A s \in Sinks : s # n => kept'[s] = kept[s]
      /\ active' \in [Nodes -> BOOLEAN]
  BY <1>0, <1>2 DEF StopSink, StateTypes
<1>4. ASSUME NEW f \in Frames
      PROVE  \/ f \notin kept[n] /\ OthersHold(f, {}, {})
             \/ \E h \in Holders(f) : f \in kept[n] /\ OthersHold(f, {h}, {})
  <2>1. CASE f \in kept[n]
    <3>1. <<"kept", n>> \in Holders(f)
      BY <2>1, HoldersKnown
    <3>2. OthersHold(f, {<<"kept", n>>}, {})
      BY <1>2, <1>3 DEF OthersHold
    <3> QED BY <2>1, <3>1, <3>2
  <2>2. CASE f \notin kept[n]
    <3>1. OthersHold(f, {}, {})
      BY <1>2, <1>3 DEF OthersHold
    <3> QED BY <2>2, <3>1
  <2> QED BY <2>1, <2>2
<1>5. /\ QueuedOnce' /\ inbox' \in [Nodes -> Seq(Messagable)]
      /\ item' \in [Nodes -> Frames \cup {None}]
      /\ \A s \in Nodes : s # n => item'[s] = item[s]
      /\ \A s \in Nodes, f \in Frames : Contains(inbox'[s], f) => Contains(inbox[s], f)
  BY <1>0, <1>2 DEF StateTypes, QueuedOnce
<1>6. to \in {"wait", "drain", "exited"}
  OBVIOUS
<1> QED BY <1>0, <1>1, <1>2, <1>3, <1>4, <1>5, <1>6, GiveBack

LEMMA KeptAreHeld ==
  ASSUME NEW n \in Sinks, NEW ks \in KeptAfter(n)
  PROVE  ks \subseteq kept[n] \cup {item[n]}
<1>1. ASSUME ks \in KeptByRecorder(n) PROVE ks \subseteq kept[n] \cup {item[n]}
  BY <1>1 DEF KeptByRecorder
<1>2. ASSUME ks \in KeptByAudioTransmitter(n) PROVE ks \subseteq kept[n] \cup {item[n]}
  BY <1>2 DEF KeptByAudioTransmitter
<1>3. ks \in KeptByRecorder(n) \/ ks \in KeptByAudioTransmitter(n) \/ ks = kept[n]
  BY DEF KeptAfter
<1> QED BY <1>1, <1>2, <1>3

LEMMA ConsumeStep ==
  ASSUME FlowInv, NEW n \in Sinks, Consume(n)
  PROVE  FlowInv'
<1>0. StateTypes /\ n \in Nodes /\ QueuedOnce
  BY NodeKinds DEF FlowInv
<1>1. /\ Move(n, "consume", "wait") /\ item' = [item EXCEPT ![n] = None]
      /\ UNCHANGED <<maker, feedVars, stopThread, sem, controlVars>>
      /\ UNCHANGED <<inbox, out, active>>
  BY DEF Consume, queueVars, feedVars
<1>2. PICK ks \in KeptAfter(n) : /\ kept' = [kept EXCEPT ![n] = ks]
                                 /\ Release((kept[n] \cup {item[n]}) \ ks)
  BY DEF Consume
<1>3. item[n] \in Frames /\ kept[n] \subseteq Frames /\ ks \subseteq kept[n] \cup {item[n]}
  BY <1>0, <1>1, MoveEffect, KeptAreHeld DEF FlowInv, ConsumerHasFrame, StateTypes
<1>4. /\ kept' \in [Sinks -> SUBSET Frames] /\ kept'[n] = ks
      /\ \A s \in Sinks : s # n => kept'[s] = kept[s]
      /\ item' \in [Nodes -> Frames \cup {None}] /\ item'[n] = None
      /\ \A s \in Nodes : s # n => item'[s] = item[s]
  BY <1>0, <1>1, <1>2, <1>3 DEF StateTypes
<1> DEFINE fs == (kept[n] \cup {item[n]}) \ ks
<1>5. ASSUME NEW f \in Frames
      PROVE  \/ f \notin fs /\ OthersHold(f, {}, {})
             \/ \E h \in Holders(f) : f \in fs /\ OthersHold(f, {h}, {})
             \/ \E h \in Holders(f) : \E g : f \notin fs /\ OthersHold(f, {h}, {g})
  <2>0. f # None
    BY FramesAssumption
  <2>1. CASE f \in fs /\ f \in kept[n]
    <3>1. <<"kept", n>> \in Holders(f)
      BY <2>1, HoldersKnown
    <3>2. OthersHold(f, {<<"kept", n>>}, {})
      BY <1>1, <1>4, <2>0, <2>1 DEF OthersHold
    <3> QED BY <2>1, <3>1, <3>2
  <2>2. CASE f \in fs /\ f = item[n]
    <3>1. <<"item", n>> \in Holders(f)
      BY <1>0, <2>2, HoldersKnown
    <3>2. OthersHold(f, {<<"item", n>>}, {})
      BY <1>1, <1>4, <2>0, <2>2 DEF OthersHold
    <3> QED BY <2>2, <3>1, <3>2
  <2>3. CASE f \in ks /\ f \notin kept[n]
    <3>1. <<"item", n>> \in Holders(f)
      BY <1>0, <1>3, <2>3, HoldersKnown
    <3>2. OthersHold(f, {<<"item", n>>}, {<<"kept", n>>})
      BY <1>1, <1>4, <2>0, <2>3 DEF OthersHold
    <3> QED BY <2>3, <3>1, <3>2
  <2>4. CASE f \notin fs /\ (f \notin ks \/ f \in kept[n])
    <3>1. OthersHold(f, {}, {})
      BY <1>1, <1>4, <2>0, <2>4 DEF OthersHold
    <3> QED BY <2>4, <3>1
  <2> QED BY <2>1, <2>2, <2>3, <2>4
<1>6. /\ QueuedOnce' /\ inbox' \in [Nodes -> Seq(Messagable)]
      /\ active' \in [Nodes -> BOOLEAN]
      /\ \A s \in Nodes, f \in Frames : Contains(inbox'[s], f) => Contains(inbox[s], f)
  BY <1>0, <1>1 DEF StateTypes, QueuedOnce
<1>7. Release(fs)
  BY <1>2
<1> HIDE DEF fs
<1> QED BY <1>0, <1>1, <1>4, <1>5, <1>6, <1>7, GiveBack

-----------------------------------------------------------------------------
(* The invariant.                                                            *)

LEMMA InitFlowInv == Init => FlowInv
<1> SUFFICES ASSUME Init PROVE FlowInv
  OBVIOUS
<1>1. (refs \in [Frames -> Int]) /\ StateTypes
  BY DEF Init, StateTypes
<1>2. ControlTypes
  BY EncoderOrderTypes DEF Init, ControlTypes, Commands, Backs
<1>3. ForwardedFrameIsNew /\ ConsumerHasFrame
  BY NodeKinds DEF Init, ForwardedFrameIsNew, ConsumerHasFrame, Forwarding
<1>4. QueuedOnce
  BY DEF Init, QueuedOnce, FramesOnce
<1>5. HeldFramesLive
  <2>1. SUFFICES ASSUME NEW f \in Frames PROVE Cardinality(Holders(f)) <= refs[f]
    BY DEF HeldFramesLive
  <2>2. Holders(f) = {}
    BY FramesAssumption, NodeKinds DEF Init, Holders, InQueue
  <2> QED BY <2>2, FS_EmptySet DEF Init
<1> QED BY <1>1, <1>2, <1>3, <1>4, <1>5 DEF FlowInv

LEMMA NextFlowInv == FlowInv /\ [Next]_vars => FlowInv'
<1> SUFFICES ASSUME FlowInv, [Next]_vars PROVE FlowInv'
  OBVIOUS
<1>1. ASSUME NEW n \in Feeders, Forward(n) PROVE FlowInv'
  BY <1>1, LockSinksStep, EnqueueFrameStep, PostFrameStep, FinishForwardStep DEF Forward
<1>2. ASSUME NEW n \in Sources, SourceThread(n) PROVE FlowInv'
  BY <1>1, <1>2, PollStep, MakerStep, NodeKinds DEF SourceThread
<1>3. ASSUME NEW n \in Encoders, EncoderThread(n) PROVE FlowInv'
  <2>1. n \in Feeders /\ n \in Receivers
    BY DEF Feeders, Receivers
  <2> QED BY <1>1, <1>3, <2>1, ReceiveStep, MakerStep, ReleaseItemStep, DrainStep
          DEF EncoderThread
<1>4. ASSUME NEW n \in Sinks, SinkThread(n) PROVE FlowInv'
  <2>1. n \in Receivers
    BY DEF Receivers
  <2> QED BY <1>4, <2>1, ReceiveStep, ConsumeStep, StopSinkStep, DrainStep
          DEF SinkThread
<1>5. CASE Controller
  <2>1. StateTypes' /\ ControlTypes' /\ Quiet
    BY <1>5, StartingStep, StoppingStep, MessagesStep DEF Controller
  <2> QED BY <2>1, ControllerKeepsInvariant
<1>6. CASE UNCHANGED vars
  <2>1. UNCHANGED <<frameVars, feedVars, queueVars, nodeVars, controlVars>>
    BY <1>6 DEF vars
  <2>2. StateTypes' /\ Quiet
    BY <2>1 DEF FlowInv, StateTypes, Quiet, frameVars, feedVars, queueVars, nodeVars
  <2> QED BY <2>1, <2>2, ControlLeft, ControllerKeepsInvariant
<1> QED BY <1>2, <1>3, <1>4, <1>5, <1>6 DEF Next

(* CMediaFrame::AddReference and RemoveReference, whatever the sources,      *)
(* encoders, recorders and transmitters of the flow: a frame's count never   *)
(* falls below the number of queues, threads and sinks that hold the frame,  *)
(* so nobody is left with a frame that was deleted.                          *)
THEOREM FramesOutliveHolders == Spec => []HeldFramesLive
<1>1. FlowInv => HeldFramesLive
  BY DEF FlowInv
<1> QED BY <1>1, InitFlowInv, NextFlowInv, PTL DEF Spec

(* No reference is given back twice, and every variable has its type.        *)
THEOREM FlowTypes == Spec => []TypeOK
<1>1. FlowInv => TypeOK
  <2> SUFFICES ASSUME FlowInv PROVE TypeOK
    OBVIOUS
  <2>1. ASSUME NEW f \in Frames PROVE refs[f] \in Nat
    <3>1. IsFiniteSet(Holders(f))
      BY HoldersNow
    <3>2. Cardinality(Holders(f)) \in Nat
      BY <3>1, FS_CardinalityType
    <3>3. refs[f] \in Int /\ Cardinality(Holders(f)) <= refs[f]
      BY DEF FlowInv, HeldFramesLive
    <3> QED BY <3>2, <3>3
  <2>2. refs \in [Frames -> Int] /\ StateTypes
    BY DEF FlowInv
  <2> QED BY <2>1, <2>2 DEF TypeOK
<1> QED BY <1>1, InitFlowInv, NextFlowInv, PTL DEF Spec

=============================================================================
