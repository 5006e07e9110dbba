------------------------- MODULE MediaFlowStopProofs -------------------------
(***************************************************************************)
(* Proofs about the start and the stop of the media flow, for every number *)
(* of nodes and every topology in which no sink is fed by two encoders: no *)
(* semaphore is destroyed under a thread that is about to post it, no node *)
(* is left with frames, and no frame stays in memory that nobody holds.    *)
(* For a recorder that two encoders share TLC shows that nodes are left    *)
(* with frames.                                                            *)
(***************************************************************************)
EXTENDS MediaFlowProofs

-----------------------------------------------------------------------------
(* The inductive invariant.                                                  *)

NoSinkIsShared ==
  \A e1, e2 \in Encoders : e1 # e2 => SinksOf[e1] \cap SinksOf[e2] = {}

(* What the controller is about, while it sends a command too. *)
Sending == cpc \in {"send", "post", "join"}
Phase == IF Sending THEN ctl.back ELSE cpc

(* The controller holds the mutex of the encoder whose sinks it starts or     *)
(* stops.                                                                     *)
ControllerHolds(n) == Phase \in {"startSinks", "stopSinks"} /\ n = Encoder

(* A feeder gives a frame to its sinks, and posts to one, only under its      *)
(* mutex.                                                                     *)
MutexInv ==
  \A n \in Feeders :
    /\ pc[n] \in {"forward", "post"} => locked[n] /\ ~ControllerHolds(n)
    /\ ControllerHolds(n) => locked[n]
    /\ todo[n] # {} => pc[n] \in {"forward", "post"}
    /\ target[n] # None => pc[n] = "post"

(* The nodes that n ever feeds. *)
Fed(n) == IF n \in Sources THEN {e \in Encoders : SourceOf[e] = n} ELSE SinksOf[n]

TopologyInv ==
  \A n \in Feeders :
    /\ attached[n] \subseteq Fed(n) /\ todo[n] \subseteq Fed(n)
    /\ target[n] \in Fed(n) \cup {None}

(* n does not feed r any more; n does not feed anybody. *)
SilentTo(n, r) == r \notin attached[n] /\ r \notin todo[n] /\ target[n] # r
Detached(n) == attached[n] = {} /\ todo[n] = {} /\ target[n] = None

(* A thread is told to end in four phases of a stop, and only then waited for. *)
CommandInv ==
  /\ ctl.msg = "STOP_THREAD" =>
       ctl.back \in {"stopSources", "lockStopSinks", "stopSinks", "stopStreams"}
  /\ cpc = "join" => ctl.msg = "STOP_THREAD"

(* The nodes that a loop of the controller has still to visit. *)
LeftInv ==
  /\ cpc = "addSinks" => ctl.left \subseteq SinksOf[Encoder]
  /\ Phase = "stopSources" => ctl.left \subseteq Sources
  /\ Phase = "stopSinks" => ctl.left \subseteq SinksOf[Encoder]
  /\ Phase = "stopStreams" => ctl.left \subseteq Recorders

(* What a stop has cut off so far. *)
CutInv ==
  /\ Phase = "stopSources" =>
       \A s \in Sources : s \notin CaptureSources /\ s \notin ctl.left => Detached(s)
  /\ Phase \in {"removeEncoder", "lockStopSinks", "stopSinks"} =>
       /\ \A s \in Sources : s \notin CaptureSources => Detached(s)
       /\ \A j \in DOMAIN EncoderOrder : j < ctl.enc => Detached(EncoderOrder[j])
  /\ Phase = "stopStreams" => \A e \in Encoders : Detached(e)
  /\ \A e \in Encoders :
       (\A j \in DOMAIN EncoderOrder : EncoderOrder[j] # e) => Detached(e)

(* Whom the controller tells to stop. *)
NodeInv ==
  Sending =>
    /\ ctl.back = "stopSources" => ctl.node \in Sources
    /\ ctl.back = "lockStopSinks" =>
         ctl.node = Encoder /\ SilentTo(SourceOf[Encoder], Encoder)
    /\ ctl.back = "stopSinks" => ctl.node \in SinksOf[Encoder]
    /\ ctl.back = "stopStreams" => ctl.node \in Recorders

(* A node that is fed has its semaphore. *)
LiveInv ==
  \A n \in Feeders :
    /\ \A s \in todo[n] : pc[s] # "none"
    /\ \A s \in attached[n] : pc[s] # "none" \/ (Phase = "stopSinks" /\ n = Encoder)
    /\ target[n] # None => pc[target[n]] # "none"

StopInv ==
  /\ MutexInv /\ TopologyInv /\ CommandInv /\ LeftInv /\ CutInv /\ NodeInv /\ LiveInv

-----------------------------------------------------------------------------
(* What the thread of a node does to lists of sinks and their mutexes.       *)

InForward == {"forward", "post"}

FeederEffect(n) ==
  \/ /\ pc[n] \notin InForward /\ pc'[n] \notin InForward
     /\ locked'[n] = locked[n] /\ todo'[n] = todo[n] /\ target'[n] = target[n]
  \/ /\ pc[n] \notin InForward /\ pc'[n] = "forward"
     /\ ~locked[n] /\ locked'[n]
     /\ todo'[n] = attached[n] /\ target'[n] = target[n]
  \/ /\ pc[n] = "forward" /\ pc'[n] = "post" /\ locked'[n] = locked[n]
     /\ todo'[n] \subseteq todo[n]
     /\ target'[n] # None => target'[n] \in todo[n] /\ pc[target'[n]] # "none"
  \/ /\ pc[n] = "post" /\ pc'[n] = "forward" /\ locked'[n] = locked[n]
     /\ todo'[n] = todo[n] /\ target'[n] = None
  \/ /\ pc[n] = "forward" /\ pc'[n] \notin InForward
     /\ todo[n] = {} /\ todo'[n] = {} /\ target'[n] = target[n]

ThreadEffect(n) ==
  /\ UNCHANGED <<attached, cpc, ctl>>
  /\ pc[n] # "none" /\ pc'[n] # "none"
  /\ \A m \in Nodes : m # n => pc'[m] = pc[m]
  /\ \A m \in Feeders : m # n =>
       locked'[m] = locked[m] /\ todo'[m] = todo[m] /\ target'[m] = target[m]
  /\ n \in Feeders => FeederEffect(n)

LEMMA IdleEffect ==
  ASSUME StateTypes, NEW n \in Nodes, NEW from, NEW to, Move(n, from, to),
         from \notin InForward \cup {"none"}, to \notin InForward \cup {"none"},
         UNCHANGED <<attached, locked, todo, target, cpc, ctl>>
  PROVE  ThreadEffect(n)
<1>1. pc[n] = from /\ pc'[n] = to /\ \A m \in Nodes : m # n => pc'[m] = pc[m]
  BY MoveEffect
<1> QED BY <1>1 DEF ThreadEffect, FeederEffect

LEMMA ForwardEffect ==
  ASSUME StateTypes, NEW n \in Feeders, Forward(n)
  PROVE  ThreadEffect(n)
<1> USE DEF InForward
<1>0. n \in Nodes
  BY NodeKinds
<1>1. CASE LockSinks(n)
  <2>1. /\ ~locked[n] /\ locked' = [locked EXCEPT ![n] = TRUE]
        /\ Move(n, "lock", "forward")
        /\ todo' = [todo EXCEPT ![n] = attached[n]]
        /\ UNCHANGED <<attached, target, cpc, ctl>>
    BY <1>1 DEF LockSinks, controlVars
  <2>2. /\ pc[n] = "lock" /\ pc'[n] = "forward"
        /\ \A m \in Nodes : m # n => pc'[m] = pc[m]
    BY <1>0, <2>1, MoveEffect
  <2> QED BY <2>1, <2>2 DEF ThreadEffect, FeederEffect, StateTypes
<1>2. CASE EnqueueFrame(n)
  <2>1. PICK s \in todo[n] :
          /\ Move(n, "forward", "post")
          /\ todo' = [todo EXCEPT ![n] = @ \ {s}]
          /\ target' = [target EXCEPT ![n] = IF pc[s] = "none" THEN None ELSE s]
          /\ UNCHANGED <<attached, locked, cpc, ctl>>
    BY <1>2 DEF EnqueueFrame, controlVars
  <2>2. /\ pc[n] = "forward" /\ pc'[n] = "post"
        /\ \A m \in Nodes : m # n => pc'[m] = pc[m]
    BY <1>0, <2>1, MoveEffect
  <2>3. /\ todo'[n] = todo[n] \ {s}
        /\ target'[n] = IF pc[s] = "none" THEN None ELSE s
        /\ \A m \in Feeders : m # n => todo'[m] = todo[m] /\ target'[m] = target[m]
    BY <2>1 DEF StateTypes
  <2> QED BY <2>1, <2>2, <2>3 DEF ThreadEffect, FeederEffect
<1>3. CASE PostFrame(n)
  <2>1. /\ Move(n, "post", "forward")
        /\ target' = [target EXCEPT ![n] = None]
        /\ UNCHANGED <<attached, locked, todo, cpc, ctl>>
    BY <1>3 DEF PostFrame, controlVars
  <2>2. /\ pc[n] = "post" /\ pc'[n] = "forward"
        /\ \A m \in Nodes : m # n => pc'[m] = pc[m]
    BY <1>0, <2>1, MoveEffect
  <2> QED BY <2>1, <2>2 DEF ThreadEffect, FeederEffect, StateTypes
<1>4. CASE FinishForward(n)
  <2>1. /\ todo[n] = {} /\ Move(n, "forward", Resume(n))
        /\ locked' = [locked EXCEPT ![n] = FALSE]
        /\ UNCHANGED <<attached, todo, target, cpc, ctl>>
    BY <1>4 DEF FinishForward, controlVars
  <2>2. /\ pc[n] = "forward" /\ pc'[n] = Resume(n)
        /\ \A m \in Nodes : m # n => pc'[m] = pc[m]
    BY <1>0, <2>1, MoveEffect
  <2>3. Resume(n) \in {"poll", "release", "drain"}
    BY DEF Resume
  <2> QED BY <2>1, <2>2, <2>3 DEF ThreadEffect, FeederEffect, StateTypes
<1> QED BY <1>1, <1>2, <1>3, <1>4 DEF Forward

LEMMA SourceEffect ==
  ASSUME StateTypes, NEW n \in Sources, SourceThread(n)
  PROVE  ThreadEffect(n)
<1> USE DEF InForward
<1>0. n \in Nodes /\ n \in Feeders
  BY NodeKinds
<1>1. CASE Poll(n)
  <2>1. PICK to \in {"exited", "capture", "poll"} : Move(n, "poll", to)
    BY <1>1 DEF Poll
  <2>2. UNCHANGED <<attached, locked, todo, target, cpc, ctl>>
    BY <1>1 DEF Poll, feedVars, controlVars
  <2> QED BY <1>0, <2>1, <2>2, IdleEffect
<1>2. CASE Capture(n)
  <2>1. PICK to \in {"lock", "poll"} : Move(n, "capture", to)
    BY <1>2 DEF Capture
  <2>2. UNCHANGED <<attached, locked, todo, target, cpc, ctl>>
    BY <1>2 DEF Capture, Emit, feedVars, controlVars
  <2> QED BY <1>0, <2>1, <2>2, IdleEffect
<1> QED BY <1>0, <1>1, <1>2, ForwardEffect DEF SourceThread

LEMMA ReceiveEffect ==
  ASSUME StateTypes, NEW n \in Receivers, Receive(n)
  PROVE  ThreadEffect(n)
<1> USE DEF InForward
<1>1. Move(n, "wait", Handler(n, Head(inbox[n])))
  BY DEF Receive
<1>2. Handler(n, Head(inbox[n])) \in
        {"flush", "finish", "pause", "wait", "encode", "consume"}
  BY DEF Handler
<1>3. UNCHANGED <<attached, locked, todo, target, cpc, ctl>>
  BY DEF Receive, feedVars, controlVars
<1> HIDE DEF Handler
<1> QED BY <1>1, <1>2, <1>3, IdleEffect, NodeKinds

LEMMA DrainEffect ==
  ASSUME StateTypes, NEW n \in Receivers, Drain(n)
  PROVE  ThreadEffect(n)
<1> USE DEF InForward
<1>1. PICK to \in {"exited", "drain"} : Move(n, "drain", to)
  BY DEF Drain
<1>2. UNCHANGED <<attached, locked, todo, target, cpc, ctl>>
  BY DEF Drain, feedVars, controlVars
<1> QED BY <1>1, <1>2, IdleEffect, NodeKinds

LEMMA EncoderEffect ==
  ASSUME StateTypes, NEW n \in Encoders, EncoderThread(n)
  PROVE  ThreadEffect(n)
<1> USE DEF InForward
<1>0. n \in Nodes /\ n \in Feeders /\ n \in Receivers
  BY NodeKinds DEF Receivers
<1>1. CASE Encode(n)
  <2>1. PICK to \in {"lock", "release"} : Move(n, "encode", to)
    BY <1>1 DEF Encode
  <2>2. UNCHANGED <<attached, locked, todo, target, cpc, ctl>>
    BY <1>1 DEF Encode, Emit, feedVars, controlVars
  <2> QED BY <1>0, <2>1, <2>2, IdleEffect
<1>2. CASE ReleaseItem(n)
  <2>1. /\ Move(n, "release", "wait")
        /\ UNCHANGED <<attached, locked, todo, target, cpc, ctl>>
    BY <1>2 DEF ReleaseItem, feedVars, controlVars
  <2> QED BY <1>0, <2>1, IdleEffect
<1>3. CASE Flush(n)
  <2>1. PICK to \in {"lock", "drain"} : Move(n, "flush", to)
    BY <1>3 DEF Flush
  <2>2. UNCHANGED <<attached, locked, todo, target, cpc, ctl>>
    BY <1>3 DEF Flush, Emit, feedVars, controlVars
  <2> QED BY <1>0, <2>1, <2>2, IdleEffect
<1> QED BY <1>0, <1>1, <1>2, <1>3, ReceiveEffect, DrainEffect, ForwardEffect
        DEF EncoderThread

LEMMA SinkEffect ==
  ASSUME StateTypes, NEW n \in Sinks, SinkThread(n)
  PROVE  ThreadEffect(n)
<1> USE DEF InForward
<1>0. n \in Nodes /\ n \in Receivers
  BY NodeKinds DEF Receivers
<1>1. CASE Consume(n)
  <2>1. /\ Move(n, "consume", "wait")
        /\ UNCHANGED <<attached, locked, todo, target, cpc, ctl>>
    BY <1>1 DEF Consume, feedVars, controlVars
  <2> QED BY <1>0, <2>1, IdleEffect
<1>2. CASE StopSink(n)
  <2>1. PICK from \in {"finish", "pause"}, to \in {"drain", "wait"} : Move(n, from, to)
    BY <1>2 DEF StopSink
  <2>2. UNCHANGED <<attached, locked, todo, target, cpc, ctl>>
    BY <1>2 DEF StopSink, feedVars, controlVars
  <2> QED BY <1>0, <2>1, <2>2, IdleEffect
<1> QED BY <1>0, <1>1, <1>2, ReceiveEffect, DrainEffect DEF SinkThread


-----------------------------------------------------------------------------
(* The threads keep the invariant.                                           *)

LEMMA SilenceLasts ==
  ASSUME NEW m \in Feeders, attached' = attached,
         todo'[m] \subseteq todo[m] \cup attached[m],
         target'[m] \in todo[m] \cup {None, target[m]}
  PROVE  /\ Detached(m) => Detached(m)'
         /\ \A r : r # None /\ SilentTo(m, r) => SilentTo(m, r)'
BY DEF Detached, SilentTo

(* Every feeder gives to nobody it did not feed before. *)
LEMMA NobodyNewIsFed ==
  ASSUME NEW n, ThreadEffect(n), NEW m \in Feeders
  PROVE  /\ todo'[m] \subseteq todo[m] \cup attached[m]
         /\ target'[m] \in todo[m] \cup {None, target[m]}
<1>1. CASE m = n
  BY <1>1 DEF ThreadEffect, FeederEffect
<1>2. CASE m # n
  BY <1>2 DEF ThreadEffect
<1> QED BY <1>1, <1>2

LEMMA ThreadKeepsMutex ==
  ASSUME MutexInv, NEW n, ThreadEffect(n)
  PROVE  MutexInv'
<1> SUFFICES ASSUME NEW m \in Feeders
             PROVE  /\ pc'[m] \in {"forward", "post"} => locked'[m] /\ ~ControllerHolds(m)'
                    /\ ControllerHolds(m)' => locked'[m]
                    /\ todo'[m] # {} => pc'[m] \in {"forward", "post"}
                    /\ target'[m] # None => pc'[m] = "post"
  BY DEF MutexInv
<1>1. /\ pc[m] \in {"forward", "post"} => locked[m] /\ ~ControllerHolds(m)
      /\ ControllerHolds(m) => locked[m]
      /\ todo[m] # {} => pc[m] \in {"forward", "post"}
      /\ target[m] # None => pc[m] = "post"
  BY DEF MutexInv
<1>2. ControllerHolds(m)' <=> ControllerHolds(m)
  BY DEF ThreadEffect, ControllerHolds, Phase, Sending, Encoder
<1>3. CASE m = n
  <2>1. FeederEffect(n)
    BY <1>3 DEF ThreadEffect
  <2> QED BY <1>1, <1>2, <1>3, <2>1 DEF FeederEffect, InForward
<1>4. CASE m # n
  BY <1>1, <1>2, <1>4, NodeKinds DEF ThreadEffect
<1> QED BY <1>3, <1>4

LEMMA ThreadKeepsStopInv ==
  ASSUME FlowInv, StopInv, NEW n, ThreadEffect(n)
  PROVE  StopInv'
<1>0. /\ StateTypes /\ ControlTypes /\ Encoder \in Encoders /\ SourceOf[Encoder] \in Sources
      /\ None \notin Nodes
  BY EncoderOrderTypes, NodesAssumption DEF FlowInv, ControlTypes, Encoder
<1>1. MutexInv /\ TopologyInv /\ CommandInv /\ LeftInv /\ CutInv /\ NodeInv /\ LiveInv
  BY DEF StopInv
<1>2. UNCHANGED <<attached, cpc, ctl>> /\ Phase' = Phase /\ Encoder' = Encoder
  BY DEF ThreadEffect, Phase, Sending, Encoder
<1>3. \A m \in Feeders : /\ todo'[m] \subseteq todo[m] \cup attached[m]
                         /\ target'[m] \in todo[m] \cup {None, target[m]}
  BY NobodyNewIsFed
<1>4. \A m \in Feeders : /\ Detached(m) => Detached(m)'
                         /\ \A r : r # None /\ SilentTo(m, r) => SilentTo(m, r)'
  BY <1>2, <1>3, SilenceLasts
<1>5. MutexInv'
  BY <1>1, ThreadKeepsMutex
<1>6. TopologyInv'
  BY <1>1, <1>2, <1>3 DEF TopologyInv, Fed
<1>7. CommandInv' /\ LeftInv'
  BY <1>1, <1>2 DEF CommandInv, LeftInv
<1>8. CutInv'
  BY <1>1, <1>2, <1>4, EncoderOrderTypes, NodeKinds DEF CutInv
<1>9. NodeInv'
  <2>1. Encoder \in Encoders /\ SourceOf[Encoder] \in Feeders /\ Encoder # None
    BY <1>0, NodeKinds
  <2> QED BY <1>1, <1>2, <1>4, <2>1 DEF NodeInv, Sending
<1>10. LiveInv'
  <2>1. \A s \in Receivers : pc[s] # "none" => pc'[s] # "none"
    BY NodeKinds DEF ThreadEffect
  <2>2. SUFFICES ASSUME NEW m \in Feeders
                 PROVE  /\ \A s \in todo'[m] : pc'[s] # "none"
                        /\ \A s \in attached'[m] :
                             pc'[s] # "none" \/ (Phase' = "stopSinks" /\ m = Encoder')
                        /\ target'[m] # None => pc'[target'[m]] # "none"
    BY DEF LiveInv
  <2>3. /\ todo[m] \subseteq Receivers /\ attached[m] \subseteq Receivers
        /\ target[m] \in Receivers \cup {None}
    BY <1>0 DEF StateTypes
  <2>4. /\ \A s \in todo[m] : pc[s] # "none"
        /\ \A s \in attached[m] : pc[s] # "none" \/ (Phase = "stopSinks" /\ m = Encoder)
        /\ target[m] # None => pc[target[m]] # "none"
    BY <1>1 DEF LiveInv
  <2>5. \A s \in attached'[m] : pc'[s] # "none" \/ (Phase' = "stopSinks" /\ m = Encoder')
    BY <1>2, <2>1, <2>3, <2>4
  <2>6. target'[m] # None => pc'[target'[m]] # "none"
    BY <1>3, <2>1, <2>3, <2>4
  <2>7. \A s \in todo'[m] : pc'[s] # "none"
    <3>1. CASE todo'[m] \subseteq todo[m]
      BY <2>1, <2>3, <2>4, <3>1
    <3>2. CASE m = n /\ todo'[m] = attached[m] /\ ~locked[n]
      <4>1. ~ControllerHolds(m)
        BY <1>1, <3>2 DEF MutexInv
      <4> QED BY <2>1, <2>3, <2>4, <3>2, <4>1 DEF ControllerHolds
    <3> QED BY <3>1, <3>2 DEF ThreadEffect, FeederEffect
  <2> QED BY <2>5, <2>6, <2>7
<1> QED BY <1>5, <1>6, <1>7, <1>8, <1>9, <1>10 DEF StopInv


-----------------------------------------------------------------------------
(* The controller keeps the invariant.                                       *)

Unused(e) == \A j \in DOMAIN EncoderOrder : EncoderOrder[j] # e

(* What a step of the controller, other than the end of a thread, does to     *)
(* lists of sinks, mutexes and threads.                                       *)
MutexEffect(m) ==
  \/ locked'[m] = locked[m] /\ (ControllerHolds(m)' <=> ControllerHolds(m))
  \/ ~locked[m] /\ locked'[m]
  \/ ControllerHolds(m) /\ ~ControllerHolds(m)' /\ ~locked'[m]

ListEffect(m) ==
  /\ \A s \in attached'[m] : s \in attached[m] \/ (s \in Fed(m) /\ pc'[s] # "none")
  /\ Phase = "stopSinks" /\ m = Encoder =>
       attached'[m] = {} \/ (Phase' = "stopSinks" /\ m = Encoder')
  /\ m \in Encoders /\ Unused(m) => attached'[m] \subseteq attached[m]

ControllerEffect ==
  /\ UNCHANGED <<todo, target>>
  /\ \A m \in Nodes : pc'[m] = pc[m] \/ (pc[m] = "none" /\ pc'[m] \in {"poll", "wait"})
  /\ \A m \in Feeders : MutexEffect(m) /\ ListEffect(m)

PlanInv == CommandInv /\ LeftInv /\ CutInv /\ NodeInv

UnusedAreDetached == \A e \in Encoders : Unused(e) => Detached(e)

LEMMA ControllerEffectKeeps ==
  ASSUME FlowInv, StopInv, ControllerEffect
  PROVE  MutexInv' /\ TopologyInv' /\ LiveInv' /\ UnusedAreDetached'
<1>0. StateTypes /\ MutexInv /\ TopologyInv /\ LiveInv /\ CutInv
  BY DEF FlowInv, StopInv
<1>1. /\ UNCHANGED <<todo, target>>
      /\ \A m \in Nodes : pc'[m] = pc[m] \/ (pc[m] = "none" /\ pc'[m] \in {"poll", "wait"})
      /\ \A m \in Feeders : MutexEffect(m) /\ ListEffect(m)
  BY DEF ControllerEffect
<1>2. MutexInv'
  <2> SUFFICES ASSUME NEW m \in Feeders
               PROVE  /\ pc'[m] \in {"forward", "post"} => locked'[m] /\ ~ControllerHolds(m)'
                      /\ ControllerHolds(m)' => locked'[m]
                      /\ todo'[m] # {} => pc'[m] \in {"forward", "post"}
                      /\ target'[m] # None => pc'[m] = "post"
    BY DEF MutexInv
  <2>1. /\ pc[m] \in {"forward", "post"} => locked[m] /\ ~ControllerHolds(m)
        /\ ControllerHolds(m) => locked[m]
        /\ todo[m] # {} => pc[m] \in {"forward", "post"}
        /\ target[m] # None => pc[m] = "post"
    BY <1>0 DEF MutexInv
  <2>2. pc'[m] = pc[m] \/ (pc[m] = "none" /\ pc'[m] \in {"poll", "wait"})
    BY <1>1, NodeKinds
  <2> QED BY <1>1, <2>1, <2>2 DEF MutexEffect
<1>3. TopologyInv'
  BY <1>0, <1>1 DEF TopologyInv, ListEffect, Fed
<1>4. LiveInv'
  <2> SUFFICES ASSUME NEW m \in Feeders
               PROVE  /\ \A s \in todo'[m] : pc'[s] # "none"
                      /\ \A s \in attached'[m] :
                           pc'[s] # "none" \/ (Phase' = "stopSinks" /\ m = Encoder')
                      /\ target'[m] # None => pc'[target'[m]] # "none"
    BY DEF LiveInv
  <2>1. /\ todo[m] \subseteq Receivers /\ attached[m] \subseteq Receivers
        /\ target[m] \in Receivers \cup {None}
    BY <1>0 DEF StateTypes
  <2>2. /\ \A s \in todo[m] : pc[s] # "none"
        /\ \A s \in attached[m] : pc[s] # "none" \/ (Phase = "stopSinks" /\ m = Encoder)
        /\ target[m] # None => pc[target[m]] # "none"
    BY <1>0 DEF LiveInv
  <2>3. \A s \in Receivers : pc[s] # "none" => pc'[s] # "none"
    BY <1>1, NodeKinds
  <2> QED BY <1>1, <2>1, <2>2, <2>3 DEF ListEffect
<1>5. UnusedAreDetached'
  <2> SUFFICES ASSUME NEW e \in Encoders, Unused(e) PROVE Detached(e)'
    BY DEF UnusedAreDetached, Unused
  <2>1. Detached(e)
    BY <1>0 DEF CutInv, Unused
  <2> QED BY <1>1, <2>1, NodeKinds DEF Detached, ListEffect
<1> QED BY <1>2, <1>3, <1>4, <1>5

SendPhases == {"send", "post", "join"}

LEMMA GoToEffect ==
  ASSUME ControlTypes, NEW phase, NEW enc, NEW left, GoTo(phase, enc, left),
         phase \notin SendPhases
  PROVE  /\ cpc' = phase /\ Phase' = phase /\ ~Sending' /\ Encoder' = EncoderOrder[enc]
         /\ ctl'.enc = enc /\ ctl'.left = left
         /\ CommandInv => CommandInv'
         /\ NodeInv'
<1>1. /\ cpc' = phase /\ ctl'.enc = enc /\ ctl'.left = left
      /\ ctl'.msg = ctl.msg /\ ctl'.back = ctl.back
  BY DEF GoTo, ControlTypes
<1>2. Phase' = phase /\ ~Sending'
  BY <1>1 DEF Phase, Sending, SendPhases
<1> QED BY <1>1, <1>2 DEF CommandInv, NodeInv, Encoder, SendPhases

LEMMA CallEffect ==
  ASSUME ControlTypes, NEW n, NEW m, NEW back \in Backs, NEW left,
         Call(n, m, back, left)
  PROVE  /\ cpc' \in {"send", back} /\ Phase' = back /\ Encoder' = Encoder
         /\ ctl'.enc = ctl.enc /\ ctl'.left = left /\ ctl'.node = n
         /\ ctl'.msg = m /\ ctl'.back = back
         /\ (m = "STOP_THREAD" =>
               back \in {"stopSources", "lockStopSinks", "stopSinks", "stopStreams"})
            => CommandInv'
<1>1. /\ cpc' \in {"send", back}
      /\ ctl'.enc = ctl.enc /\ ctl'.left = left /\ ctl'.node = n
      /\ ctl'.msg = m /\ ctl'.back = back
  BY DEF Call, ControlTypes
<1>2. back \notin SendPhases
  BY DEF Backs, SendPhases
<1> QED BY <1>1, <1>2 DEF CommandInv, Phase, Sending, Encoder, SendPhases


(* A command that does not end a thread. *)
LEMMA StartCallEffect ==
  ASSUME ControlTypes, NEW n, NEW m \in {"START", "STOP"}, NEW back \in Backs, NEW left,
         Call(n, m, back, left)
  PROVE  /\ Phase' = back /\ cpc' # "addSinks" /\ Encoder' = Encoder /\ CommandInv'
<1>1. m # "STOP_THREAD" /\ back # "addSinks"
  BY DEF Backs
<1>2. cpc' \in {"send", back} /\ Phase' = back /\ Encoder' = Encoder /\ CommandInv'
  BY <1>1, CallEffect
<1> QED BY <1>1, <1>2

LEMMA NextEncoderEffect ==
  ASSUME ControlTypes, NEW phase, NEW after, NextEncoder(phase, after),
         phase \notin SendPhases, after \notin SendPhases
  PROVE  /\ cpc' \in {phase, after} /\ Phase' = cpc' /\ ~Sending'
         /\ ctl'.left = SinksOf[Encoder']
         /\ CommandInv => CommandInv'
<1>1. CASE ctl.enc < Len(EncoderOrder)
  <2>1. GoTo(phase, ctl.enc + 1, SinksOf[EncoderOrder[ctl.enc + 1]])
    BY <1>1 DEF NextEncoder
  <2> QED BY <2>1, GoToEffect
<1>2. CASE ~(ctl.enc < Len(EncoderOrder))
  <2>1. GoTo(after, 1, SinksOf[EncoderOrder[1]])
    BY <1>2 DEF NextEncoder
  <2> QED BY <2>1, GoToEffect
<1> QED BY <1>1, <1>2

LEMMA StartThreadEffect ==
  ASSUME NEW ns, StartThread(ns)
  PROVE  /\ \A m \in Nodes :
              pc'[m] = pc[m] \/ (pc[m] = "none" /\ pc'[m] \in {"poll", "wait"})
         /\ \A m \in Nodes : m \in ns => pc'[m] # "none"
BY DEF StartThread

(* A step that leaves lists, mutexes and threads alone.                       *)
LEMMA NothingTouched ==
  ASSUME UNCHANGED <<todo, target, attached, locked, pc>>,
         \A m \in Feeders : ControllerHolds(m)' <=> ControllerHolds(m),
         Phase = "stopSinks" => Phase' = "stopSinks" /\ Encoder' = Encoder
  PROVE  ControllerEffect
BY DEF ControllerEffect, MutexEffect, ListEffect

(* The phases of a stop.                                                      *)
StopPhases == {"stopSources", "removeEncoder", "lockStopSinks", "stopSinks", "stopStreams"}

(* Outside of a stop nothing has to be cut off. *)
LEMMA NoStopPlan ==
  ASSUME FlowInv, StopInv, ControllerEffect, Phase' \notin StopPhases, CommandInv',
         cpc' = "addSinks" => ctl'.left \subseteq SinksOf[Encoder']
  PROVE  StopInv'
<1>1. MutexInv' /\ TopologyInv' /\ LiveInv' /\ UnusedAreDetached'
  BY ControllerEffectKeeps
<1>2. CutInv'
  BY <1>1 DEF CutInv, StopPhases, UnusedAreDetached, Unused
<1>3. LeftInv'
  BY DEF LeftInv, StopPhases
<1>4. NodeInv'
  BY DEF NodeInv, Phase, StopPhases
<1> QED BY <1>1, <1>2, <1>3, <1>4 DEF StopInv

LEMMA StartingKeepsStopInv ==
  ASSUME FlowInv, StopInv, StartFlow \/ Starting \/ RestartRecording
  PROVE  StopInv'
<1>0. /\ StateTypes /\ ControlTypes /\ ctl.enc \in DOMAIN EncoderOrder
      /\ Encoder \in Encoders /\ SourceOf[Encoder] \in Sources
      /\ Encoder \in Feeders /\ SourceOf[Encoder] \in Feeders
      /\ Encoder \in Nodes /\ CommandInv
  BY EncoderOrderTypes, NodeKinds DEF FlowInv, ControlTypes, Encoder, StopInv
<1> USE DEF ThreadsLeave, SendPhases, StopPhases
<1>1. CASE StartFlow
  <2>1. /\ cpc = "stopped" /\ StartThread(Sources) /\ GoTo("create", 1, {})
        /\ UNCHANGED <<attached, locked, todo, target>>
    BY <1>1 DEF StartFlow
  <2>2. Phase = "stopped" /\ Phase' = "create" /\ cpc' = "create" /\ CommandInv'
    BY <1>0, <2>1, GoToEffect DEF Phase, Sending
  <2>3. ControllerEffect
    BY <2>1, <2>2, StartThreadEffect
       DEF ControllerEffect, MutexEffect, ListEffect, ControllerHolds
  <2> QED BY <2>2, <2>3, NoStopPlan
<1>2. CASE CreateEncoder
  <2>1. /\ cpc = "create" /\ StartThread({Encoder}) /\ NextEncoder("create", "addSinks")
        /\ attached' = [attached EXCEPT ![SourceOf[Encoder]] = @ \cup {Encoder}]
        /\ UNCHANGED <<locked, todo, target>>
    BY <1>2 DEF CreateEncoder
  <2>2. /\ Phase = "create" /\ Phase' \in {"create", "addSinks"} /\ CommandInv'
        /\ ctl'.left = SinksOf[Encoder']
    BY <1>0, <2>1, NextEncoderEffect DEF Phase, Sending
  <2>3. pc'[Encoder] # "none" /\ Encoder \in Fed(SourceOf[Encoder])
    BY <1>0, <2>1, StartThreadEffect DEF Fed
  <2>4. \A m \in Feeders : attached'[m] =
          IF m = SourceOf[Encoder] THEN attached[m] \cup {Encoder} ELSE attached[m]
    BY <1>0, <2>1 DEF StateTypes
  <2>5. SourceOf[Encoder] \notin Encoders
    BY <1>0, NodeKinds
  <2>6. ControllerEffect
    BY <2>1, <2>2, <2>3, <2>4, <2>5, StartThreadEffect
       DEF ControllerEffect, MutexEffect, ListEffect, ControllerHolds
  <2> QED BY <2>2, <2>6, NoStopPlan
<1>3. CASE AddSink
  <2>1. /\ cpc = "addSinks" /\ UNCHANGED <<locked, todo, target>>
    BY <1>3 DEF AddSink
  <2>2. PICK s \in ctl.left :
          /\ StartThread({s})
          /\ attached' = [attached EXCEPT ![Encoder] = @ \cup {s}]
          /\ GoTo("addSinks", ctl.enc, ctl.left \ {s})
    BY <1>3 DEF AddSink
  <2>3. ctl.left \subseteq SinksOf[Encoder]
    BY <2>1 DEF StopInv, LeftInv
  <2>4. /\ Phase = "addSinks" /\ Phase' = "addSinks" /\ CommandInv'
        /\ ctl'.left = ctl.left \ {s} /\ Encoder' = Encoder
    BY <1>0, <2>1, <2>2, GoToEffect DEF Phase, Sending, Encoder
  <2>5. s \in Sinks /\ s \in Nodes /\ s \in Fed(Encoder)
    BY <1>0, <2>3, NodesAssumption, NodeKinds DEF Fed
  <2>6. pc'[s] # "none"
    BY <2>2, <2>5, StartThreadEffect
  <2>7. \A m \in Feeders : attached'[m] =
          IF m = Encoder THEN attached[m] \cup {s} ELSE attached[m]
    BY <1>0, <2>2 DEF StateTypes
  <2>8. ~Unused(Encoder)
    BY <1>0 DEF Unused, Encoder
  <2>9. ControllerEffect
    BY <2>1, <2>2, <2>4, <2>5, <2>6, <2>7, <2>8, StartThreadEffect
       DEF ControllerEffect, MutexEffect, ListEffect, ControllerHolds
  <2> QED BY <2>3, <2>4, <2>9, NoStopPlan
<1>4. CASE AllSinksAdded
  <2>1. /\ cpc = "addSinks" /\ NextEncoder("addSinks", "startEncoder")
        /\ UNCHANGED <<attached, locked, pc, todo, target>>
    BY <1>4 DEF AllSinksAdded
  <2>2. /\ Phase = "addSinks" /\ Phase' \in {"addSinks", "startEncoder"} /\ CommandInv'
        /\ ctl'.left = SinksOf[Encoder']
    BY <1>0, <2>1, NextEncoderEffect DEF Phase, Sending
  <2>3. ControllerEffect
    BY <2>1, <2>2, NothingTouched DEF ControllerHolds
  <2> QED BY <2>2, <2>3, NoStopPlan
<1>5. CASE StartEncoder
  <2>1. /\ cpc = "startEncoder" /\ Call(Encoder, "START", "lockSinks", attached[Encoder])
        /\ UNCHANGED <<attached, locked, pc, todo, target>>
    BY <1>5 DEF StartEncoder
  <2>2. /\ Phase = "startEncoder" /\ Phase' = "lockSinks" /\ cpc' # "addSinks"
        /\ CommandInv'
    BY <1>0, <2>1, StartCallEffect DEF Phase, Sending, Backs
  <2>3. ControllerEffect
    BY <2>1, <2>2, NothingTouched DEF ControllerHolds
  <2> QED BY <2>2, <2>3, NoStopPlan
<1>6. CASE StartSinks
  <2>1. /\ cpc = "startSinks"
        /\ UNCHANGED <<attached, locked, pc, todo, target>>
    BY <1>6 DEF StartSinks
  <2>2. PICK s \in ctl.left : Call(s, "START", "startSinks", ctl.left \ {s})
    BY <1>6 DEF StartSinks
  <2>3. /\ Phase = "startSinks" /\ Phase' = "startSinks" /\ cpc' # "addSinks"
        /\ CommandInv' /\ Encoder' = Encoder
    BY <1>0, <2>1, <2>2, StartCallEffect DEF Phase, Sending, Backs
  <2>4. ControllerEffect
    BY <2>1, <2>3, NothingTouched DEF ControllerHolds
  <2> QED BY <2>3, <2>4, NoStopPlan
<1>7. CASE AllSinksStarted
  <2>1. /\ cpc = "startSinks" /\ locked' = [locked EXCEPT ![Encoder] = FALSE]
        /\ UNCHANGED <<attached, pc, todo, target>>
    BY <1>7 DEF AllSinksStarted
  <2>a. PICK phase \in {"startEncoder", "startSources"} :
          \E enc, left : GoTo(phase, enc, left)
    BY <1>7 DEF AllSinksStarted
  <2>2. PICK enc, left : GoTo(phase, enc, left)
    BY <2>a
  <2>3. /\ Phase = "startSinks" /\ Phase' = phase /\ cpc' = phase /\ CommandInv'
    BY <1>0, <2>1, <2>2, GoToEffect DEF Phase, Sending
  <2>4. /\ ~locked'[Encoder]
        /\ \A m \in Feeders : m # Encoder => locked'[m] = locked[m]
    BY <1>0, <2>1 DEF StateTypes
  <2>5. ControllerEffect
    BY <2>1, <2>2, <2>3, <2>4 DEF ControllerEffect, MutexEffect, ListEffect, ControllerHolds
  <2> QED BY <2>2, <2>3, <2>5, NoStopPlan
<1>8. CASE StartSources
  <2>1. /\ cpc = "startSources" /\ UNCHANGED <<attached, locked, pc, todo, target>>
    BY <1>8 DEF StartSources
  <2>2. Phase = "startSources"
    BY <2>1 DEF Phase, Sending
  <2>3. Phase' \in {"startSources", "running"} /\ cpc' # "addSinks" /\ CommandInv'
    <3>1. CASE \E s \in ctl.left : Call(s, "START", "startSources", ctl.left \ {s})
      BY <1>0, <3>1, StartCallEffect DEF Backs
    <3>2. CASE GoTo("running", 1, {})
      BY <1>0, <3>2, GoToEffect
    <3> QED BY <1>8, <3>1, <3>2 DEF StartSources
  <2>4. ControllerEffect
    BY <2>1, <2>2, <2>3, NothingTouched DEF ControllerHolds
  <2> QED BY <2>3, <2>4, NoStopPlan
<1>9. CASE RestartRecording
  <2>1. /\ cpc \in {"running", "restart", "restarting"}
        /\ UNCHANGED <<attached, locked, pc, todo, target>>
    BY <1>9 DEF RestartRecording
  <2>2. Phase \in {"running", "restart", "restarting"}
    BY <2>1 DEF Phase, Sending
  <2>3. Phase' \in {"running", "restart", "restarting"} /\ cpc' # "addSinks" /\ CommandInv'
    <3>1. CASE GoTo("restart", 1, Recorders) \/ GoTo("running", 1, {})
      BY <1>0, <3>1, GoToEffect
    <3>2. CASE \E r \in ctl.left : Call(r, "STOP", "restarting", ctl.left \ {r})
      BY <1>0, <3>2, StartCallEffect DEF Backs
    <3>3. CASE Call(ctl.node, "START", "restart", ctl.left)
      BY <1>0, <3>3, StartCallEffect DEF Backs
    <3> QED BY <1>9, <3>1, <3>2, <3>3 DEF RestartRecording
  <2>4. ControllerEffect
    BY <2>1, <2>2, <2>3, NothingTouched DEF ControllerHolds
  <2> QED BY <2>3, <2>4, NoStopPlan
<1> QED BY <1>1, <1>2, <1>3, <1>4, <1>5, <1>6, <1>7, <1>8, <1>9 DEF Starting


(* A feeder whose mutex is free, or held by the controller, is not forwarding. *)
LEMMA NotForwarding ==
  ASSUME MutexInv, NEW m \in Feeders, ~locked[m] \/ ControllerHolds(m)
  PROVE  todo[m] = {} /\ target[m] = None
BY DEF MutexInv

(* What is cut off stays cut off, as the lists only get shorter. *)
LEMMA StaysDetached ==
  ASSUME UNCHANGED <<todo, target>>, NEW m, attached'[m] \subseteq attached[m], Detached(m)
  PROVE  Detached(m)'
BY DEF Detached

LEMMA StoppingKeepsStopInv ==
  ASSUME FlowInv, StopInv, StopFlow \/ Stopping \/ LockSinksOf
  PROVE  StopInv'
<1>0. /\ StateTypes /\ ControlTypes /\ ctl.enc \in DOMAIN EncoderOrder
      /\ Encoder \in Encoders /\ SourceOf[Encoder] \in Sources
      /\ Encoder \in Feeders /\ SourceOf[Encoder] \in Feeders
      /\ Encoder \in Nodes /\ None \notin Nodes
      /\ MutexInv /\ TopologyInv /\ CommandInv /\ LeftInv /\ CutInv
  BY EncoderOrderTypes, NodeKinds, NodesAssumption
     DEF FlowInv, ControlTypes, Encoder, StopInv
<1> USE DEF ThreadsLeave, SendPhases
<1>1. CASE StopFlow
  <2>1. /\ cpc = "running" /\ GoTo("stopSources", 1, Sources \ CaptureSources)
        /\ UNCHANGED <<attached, locked, pc, todo, target>>
    BY <1>1 DEF StopFlow
  <2>2. /\ Phase = "running" /\ Phase' = "stopSources" /\ cpc' = "stopSources"
        /\ ~Sending' /\ CommandInv' /\ NodeInv' /\ ctl'.left = Sources \ CaptureSources
    BY <1>0, <2>1, GoToEffect DEF Phase, Sending
  <2>3. ControllerEffect
    BY <2>1, <2>2, NothingTouched DEF ControllerHolds
  <2>4. MutexInv' /\ TopologyInv' /\ LiveInv' /\ UnusedAreDetached'
    BY <2>3, ControllerEffectKeeps
  <2>5. CutInv' /\ LeftInv'
    BY <2>2, <2>4 DEF CutInv, LeftInv, UnusedAreDetached, Unused
  <2> QED BY <2>2, <2>4, <2>5 DEF StopInv
<1>2. CASE StopSource
  <2>1. cpc = "stopSources" /\ UNCHANGED <<locked, pc, todo, target>>
    BY <1>2 DEF StopSource
  <2>2. PICK s \in ctl.left :
          /\ ~locked[s] /\ attached' = [attached EXCEPT ![s] = {}]
          /\ Call(s, "STOP_THREAD", "stopSources", ctl.left \ {s})
    BY <1>2 DEF StopSource
  <2>3. Phase = "stopSources" /\ s \in Sources /\ s \in Feeders /\ ctl.left \subseteq Sources
    BY <1>0, <2>1, NodeKinds DEF Phase, Sending, LeftInv
  <2>4. /\ cpc' \in {"send", "stopSources"} /\ Phase' = "stopSources" /\ Encoder' = Encoder
        /\ ctl'.left = ctl.left \ {s} /\ ctl'.node = s /\ ctl'.back = "stopSources"
    BY <1>0, <2>2, CallEffect DEF Backs
  <2>5. CommandInv'
    BY <1>0, <2>2, CallEffect DEF Backs
  <2>6. /\ attached'[s] = {}
        /\ \A m \in Feeders : attached'[m] \subseteq attached[m]
    BY <1>0, <2>2, <2>3 DEF StateTypes
  <2>7. ControllerEffect
    BY <2>1, <2>3, <2>4, <2>6 DEF ControllerEffect, MutexEffect, ListEffect, ControllerHolds
  <2>8. MutexInv' /\ TopologyInv' /\ LiveInv' /\ UnusedAreDetached'
    BY <2>7, ControllerEffectKeeps
  <2>9. Detached(s)'
    BY <1>0, <2>1, <2>2, <2>3, <2>6, NotForwarding DEF Detached
  <2>10. CutInv'
    <3>1. ASSUME NEW u \in Sources, u \notin CaptureSources, u \notin ctl'.left
          PROVE  Detached(u)'
      <4>1. CASE u = s
        BY <2>9, <4>1
      <4>2. CASE u # s
        <5>1. Detached(u)
          BY <1>0, <2>3, <2>4, <3>1, <4>2 DEF CutInv
        <5> QED BY <2>1, <2>6, <5>1, StaysDetached, NodeKinds
      <4> QED BY <4>1, <4>2
    <3> QED BY <2>4, <2>8, <3>1 DEF CutInv, UnusedAreDetached, Unused
  <2>11. LeftInv' /\ NodeInv'
    BY <2>3, <2>4 DEF LeftInv, NodeInv
  <2> QED BY <2>5, <2>8, <2>10, <2>11 DEF StopInv
<1>3. CASE AllSourcesStopped
  <2>1. /\ cpc = "stopSources" /\ ctl.left = {} /\ GoTo("removeEncoder", 1, {})
        /\ UNCHANGED <<attached, locked, pc, todo, target>>
    BY <1>3 DEF AllSourcesStopped
  <2>2. /\ Phase = "stopSources" /\ Phase' = "removeEncoder" /\ cpc' = "removeEncoder"
        /\ CommandInv' /\ NodeInv' /\ ctl'.enc = 1
    BY <1>0, <2>1, GoToEffect DEF Phase, Sending
  <2>3. ControllerEffect
    BY <2>1, <2>2, NothingTouched DEF ControllerHolds
  <2>4. MutexInv' /\ TopologyInv' /\ LiveInv' /\ UnusedAreDetached'
    BY <2>3, ControllerEffectKeeps
  <2>5. \A s \in Sources : s \notin CaptureSources => Detached(s)'
    BY <1>0, <2>1, <2>2, StaysDetached DEF CutInv
  <2>6. \A j \in DOMAIN EncoderOrder : ~(j < ctl'.enc)
    BY <2>2, EncoderOrderTypes
  <2>7. CutInv' /\ LeftInv'
    BY <2>2, <2>4, <2>5, <2>6 DEF CutInv, LeftInv, UnusedAreDetached, Unused
  <2> QED BY <2>2, <2>4, <2>7 DEF StopInv
<1>4. CASE RemoveEncoder
  <2>1. /\ cpc = "removeEncoder" /\ UNCHANGED <<locked, pc, todo, target>>
        /\ Call(Encoder, "STOP_THREAD", "lockStopSinks", {})
    BY <1>4 DEF RemoveEncoder
  <2>2. Phase = "removeEncoder"
    BY <2>1 DEF Phase, Sending
  <2>3. /\ cpc' \in {"send", "lockStopSinks"} /\ Phase' = "lockStopSinks"
        /\ Encoder' = Encoder /\ ctl'.enc = ctl.enc
        /\ ctl'.node = Encoder /\ ctl'.back = "lockStopSinks"
    BY <1>0, <2>1, CallEffect DEF Backs
  <2>4. CommandInv'
    BY <1>0, <2>1, CallEffect DEF Backs
  <2>5. \A m \in Feeders : attached'[m] \subseteq attached[m]
    <3>1. attached \in [Feeders -> SUBSET Receivers]
      BY <1>0 DEF StateTypes
    <3>2. \/ attached' = [attached EXCEPT ![SourceOf[Encoder]] = @ \ {Encoder}]
          \/ attached' = attached
      BY <1>4 DEF RemoveEncoder
    <3> QED BY <1>0, <3>1, <3>2
  <2>6. ControllerEffect
    BY <2>1, <2>2, <2>3, <2>5 DEF ControllerEffect, MutexEffect, ListEffect, ControllerHolds
  <2>7. MutexInv' /\ TopologyInv' /\ LiveInv' /\ UnusedAreDetached'
    BY <2>6, ControllerEffectKeeps
  <2>8. CutInv'
    <3>1. \A s \in Sources : s \notin CaptureSources => Detached(s)'
      BY <1>0, <2>1, <2>2, <2>5, StaysDetached, NodeKinds DEF CutInv
    <3>2. \A j \in DOMAIN EncoderOrder : j < ctl.enc => Detached(EncoderOrder[j])'
      BY <1>0, <2>1, <2>2, <2>5, StaysDetached, NodeKinds, EncoderOrderTypes DEF CutInv
    <3> QED BY <2>3, <2>7, <3>1, <3>2 DEF CutInv, UnusedAreDetached, Unused
  <2>9. SilentTo(SourceOf[Encoder], Encoder)'
    <3>1. CASE SourceOf[Encoder] \in CaptureSources
      <4>1. todo[SourceOf[Encoder]] = {} /\ target[SourceOf[Encoder]] = None
        BY <1>0, <1>4, <3>1, NotForwarding DEF RemoveEncoder
      <4>2. Encoder \notin attached'[SourceOf[Encoder]]
        BY <1>0, <1>4, <3>1 DEF RemoveEncoder, StateTypes
      <4> QED BY <1>0, <2>1, <2>3, <4>1, <4>2 DEF SilentTo
    <3>2. CASE SourceOf[Encoder] \notin CaptureSources
      <4>1. Detached(SourceOf[Encoder])
        BY <1>0, <2>2, <3>2 DEF CutInv
      <4> QED BY <1>0, <2>1, <2>3, <2>5, <4>1 DEF SilentTo, Detached
    <3> QED BY <3>1, <3>2
  <2>10. NodeInv' /\ LeftInv'
    BY <2>3, <2>9 DEF NodeInv, LeftInv
  <2> QED BY <2>4, <2>7, <2>8, <2>10 DEF StopInv
<1>5. CASE StopSinks
  <2>1. cpc = "stopSinks" /\ UNCHANGED <<attached, locked, pc, todo, target>>
    BY <1>5 DEF StopSinks
  <2>2. PICK s \in ctl.left : Call(s, "STOP_THREAD", "stopSinks", ctl.left \ {s})
    BY <1>5 DEF StopSinks
  <2>3. Phase = "stopSinks" /\ ctl.left \subseteq SinksOf[Encoder]
    BY <1>0, <2>1 DEF Phase, Sending, LeftInv
  <2>4. /\ cpc' \in {"send", "stopSinks"} /\ Phase' = "stopSinks" /\ Encoder' = Encoder
        /\ ctl'.enc = ctl.enc /\ ctl'.left = ctl.left \ {s} /\ ctl'.node = s
        /\ ctl'.back = "stopSinks"
    BY <1>0, <2>2, CallEffect DEF Backs
  <2>5. CommandInv'
    BY <1>0, <2>2, CallEffect DEF Backs
  <2>6. ControllerEffect
    BY <2>1, <2>3, <2>4, NothingTouched DEF ControllerHolds
  <2>7. MutexInv' /\ TopologyInv' /\ LiveInv' /\ UnusedAreDetached'
    BY <2>6, ControllerEffectKeeps
  <2>8. CutInv'
    <3>1. \A s1 \in Sources : s1 \notin CaptureSources => Detached(s1)'
      BY <1>0, <2>1, <2>3, StaysDetached DEF CutInv
    <3>2. \A j \in DOMAIN EncoderOrder : j < ctl.enc => Detached(EncoderOrder[j])'
      BY <1>0, <2>1, <2>3, StaysDetached DEF CutInv
    <3> QED BY <2>4, <2>7, <3>1, <3>2 DEF CutInv, UnusedAreDetached, Unused
  <2>9. NodeInv' /\ LeftInv'
    BY <2>3, <2>4 DEF NodeInv, LeftInv
  <2> QED BY <2>5, <2>7, <2>8, <2>9 DEF StopInv
<1>6. CASE DeleteEncoder
  <2>1. /\ cpc = "stopSinks" /\ locked' = [locked EXCEPT ![Encoder] = FALSE]
        /\ attached' = [attached EXCEPT ![Encoder] = {}]
        /\ UNCHANGED <<pc, todo, target>>
        /\ IF ctl.enc < Len(EncoderOrder) THEN GoTo("removeEncoder", ctl.enc + 1, {})
                                          ELSE GoTo("stopStreams", 1, Recorders)
    BY <1>6 DEF DeleteEncoder
  <2>2. Phase = "stopSinks" /\ ControllerHolds(Encoder)
    BY <2>1 DEF Phase, Sending, ControllerHolds
  <2>3. /\ attached'[Encoder] = {} /\ ~locked'[Encoder]
        /\ \A m \in Feeders : attached'[m] \subseteq attached[m]
        /\ \A m \in Feeders : m # Encoder => locked'[m] = locked[m]
    BY <1>0, <2>1 DEF StateTypes
  <2>5. \A j \in DOMAIN EncoderOrder : j < ctl.enc => Detached(EncoderOrder[j])'
    BY <1>0, <2>1, <2>2, <2>3, StaysDetached, NodeKinds, EncoderOrderTypes DEF CutInv
  <2>6. \A j \in DOMAIN EncoderOrder : j < ctl.enc + 1 => Detached(EncoderOrder[j])'
    <3> SUFFICES ASSUME NEW j \in DOMAIN EncoderOrder, j < ctl.enc + 1
                 PROVE  Detached(EncoderOrder[j])'
      OBVIOUS
    <3>1. j < ctl.enc \/ j = ctl.enc
      BY <1>0, EncoderOrderTypes
    <3>2. CASE j = ctl.enc
      <4>1. EncoderOrder[j] = Encoder
        BY <3>2 DEF Encoder
      <4>2. todo'[Encoder] = {} /\ target'[Encoder] = None
        BY <1>0, <2>1, <2>2, NotForwarding
      <4> QED BY <2>3, <4>1, <4>2 DEF Detached
    <3> QED BY <2>5, <3>1, <3>2
  <2>7. \A s \in Sources : s \notin CaptureSources => Detached(s)'
    BY <1>0, <2>1, <2>2, <2>3, StaysDetached, NodeKinds DEF CutInv
  <2>8. /\ Phase' \in {"removeEncoder", "stopStreams"} /\ cpc' = Phase'
        /\ CommandInv' /\ NodeInv'
        /\ Phase' = "removeEncoder" => ctl'.enc = ctl.enc + 1
        /\ Phase' = "stopStreams" => ~(ctl.enc < Len(EncoderOrder)) /\ ctl'.left = Recorders
    <3>1. CASE ctl.enc < Len(EncoderOrder)
      BY <1>0, <2>1, <3>1, GoToEffect
    <3>2. CASE ~(ctl.enc < Len(EncoderOrder))
      BY <1>0, <2>1, <3>2, GoToEffect
    <3> QED BY <3>1, <3>2
  <2>9. ControllerEffect
    BY <2>1, <2>2, <2>3, <2>8 DEF ControllerEffect, MutexEffect, ListEffect, ControllerHolds
  <2>10. MutexInv' /\ TopologyInv' /\ LiveInv' /\ UnusedAreDetached'
    BY <2>9, ControllerEffectKeeps
  <2>11. ASSUME Phase' = "stopStreams", NEW e \in Encoders PROVE Detached(e)'
    <3>1. CASE \E j \in DOMAIN EncoderOrder : EncoderOrder[j] = e
      <4>1. PICK j \in DOMAIN EncoderOrder : EncoderOrder[j] = e
        BY <3>1
      <4>2. j < ctl.enc + 1
        BY <1>0, <2>8, <2>11, EncoderOrderTypes
      <4> QED BY <2>6, <4>1, <4>2
    <3>2. CASE \A j \in DOMAIN EncoderOrder : EncoderOrder[j] # e
      BY <2>10, <3>2 DEF UnusedAreDetached, Unused
    <3> QED BY <3>1, <3>2
  <2>12. CutInv' /\ LeftInv'
    BY <2>6, <2>7, <2>8, <2>10, <2>11 DEF CutInv, LeftInv, UnusedAreDetached, Unused
  <2> QED BY <2>8, <2>10, <2>12 DEF StopInv
<1>7. CASE StopStreams
  <2>1. cpc = "stopStreams" /\ UNCHANGED <<attached, locked, pc, todo, target>>
    BY <1>7 DEF StopStreams
  <2>2. Phase = "stopStreams" /\ ctl.left \subseteq Recorders
    BY <1>0, <2>1 DEF Phase, Sending, LeftInv
  <2>3. /\ CommandInv' /\ NodeInv'
        /\ cpc' # "addSinks" /\ Phase' \in {"stopStreams", "stopped"}
        /\ Phase' = "stopStreams" => ctl'.left \subseteq Recorders
    <3>1. CASE \E r \in ctl.left : Call(r, "STOP_THREAD", "stopStreams", ctl.left \ {r})
      <4>1. PICK r \in ctl.left : Call(r, "STOP_THREAD", "stopStreams", ctl.left \ {r})
        BY <3>1
      <4>2. /\ cpc' \in {"send", "stopStreams"} /\ Phase' = "stopStreams"
            /\ ctl'.left = ctl.left \ {r} /\ ctl'.node = r /\ ctl'.back = "stopStreams"
        BY <1>0, <4>1, CallEffect DEF Backs
      <4>3. CommandInv'
        BY <1>0, <4>1, CallEffect DEF Backs
      <4> QED BY <2>2, <4>2, <4>3 DEF NodeInv
    <3>2. CASE GoTo("stopped", 1, {})
      BY <1>0, <3>2, GoToEffect
    <3> QED BY <1>7, <3>1, <3>2 DEF StopStreams
  <2>4. ControllerEffect
    BY <2>1, <2>2, <2>3, NothingTouched DEF ControllerHolds
  <2>5. MutexInv' /\ TopologyInv' /\ LiveInv' /\ UnusedAreDetached'
    BY <2>4, ControllerEffectKeeps
  <2>6. \A e \in Encoders : Detached(e)'
    BY <1>0, <2>1, <2>2, StaysDetached DEF CutInv
  <2>7. CutInv' /\ LeftInv'
    BY <2>3, <2>5, <2>6 DEF CutInv, LeftInv, UnusedAreDetached, Unused
  <2> QED BY <2>3, <2>5, <2>7 DEF StopInv
<1>8. CASE LockSinksOf
  <2>1. /\ cpc \in {"lockSinks", "lockStopSinks"} /\ ~locked[Encoder]
        /\ locked' = [locked EXCEPT ![Encoder] = TRUE]
        /\ GoTo(IF cpc = "lockSinks" THEN "startSinks" ELSE "stopSinks", ctl.enc,
                attached[Encoder])
        /\ UNCHANGED <<attached, pc, todo, target>>
    BY <1>8 DEF LockSinksOf
  <2>2. Phase = cpc
    BY <2>1 DEF Phase, Sending
  <2>3. /\ Phase' = IF cpc = "lockSinks" THEN "startSinks" ELSE "stopSinks"
        /\ cpc' # "addSinks" /\ Encoder' = Encoder /\ ctl'.enc = ctl.enc
        /\ ctl'.left = attached[Encoder] /\ CommandInv' /\ NodeInv'
    BY <1>0, <2>1, GoToEffect DEF Encoder
  <2>4. /\ locked'[Encoder]
        /\ \A m \in Feeders : m # Encoder => locked'[m] = locked[m]
    BY <1>0, <2>1 DEF StateTypes
  <2>5. ControllerEffect
    BY <2>1, <2>2, <2>3, <2>4 DEF ControllerEffect, MutexEffect, ListEffect, ControllerHolds
  <2>6. MutexInv' /\ TopologyInv' /\ LiveInv' /\ UnusedAreDetached'
    BY <2>5, ControllerEffectKeeps
  <2>7. attached[Encoder] \subseteq SinksOf[Encoder]
    BY <1>0, NodeKinds DEF TopologyInv, Fed
  <2>8. cpc = "lockStopSinks" =>
          /\ \A s \in Sources : s \notin CaptureSources => Detached(s)'
          /\ \A j \in DOMAIN EncoderOrder : j < ctl.enc => Detached(EncoderOrder[j])'
    BY <1>0, <2>1, <2>2, StaysDetached DEF CutInv
  <2>9. CutInv' /\ LeftInv'
    BY <2>1, <2>3, <2>6, <2>7, <2>8 DEF CutInv, LeftInv, UnusedAreDetached, Unused
  <2> QED BY <2>3, <2>6, <2>9 DEF StopInv
<1> QED BY <1>1, <1>2, <1>3, <1>4, <1>5, <1>6, <1>7, <1>8 DEF Stopping


(* Nobody feeds a node that is told to end. *)
LEMMA NodeIsCutOff ==
  ASSUME NoSinkIsShared, FlowInv, StopInv, Sending, ctl.msg = "STOP_THREAD",
         NEW m \in Feeders
  PROVE  /\ ctl.node \notin todo[m] /\ ctl.node \in Nodes
         /\ target[m] # ctl.node
         /\ ctl.node \in attached[m] => Phase = "stopSinks" /\ m = Encoder
<1>0. /\ StateTypes /\ ControlTypes
      /\ Encoder \in Encoders /\ SourceOf[Encoder] \in Sources
      /\ Encoder \in Feeders /\ SourceOf[Encoder] \in Feeders
      /\ MutexInv /\ TopologyInv /\ CommandInv /\ NodeInv /\ CutInv
      /\ m \in Sources \/ m \in Encoders
  BY EncoderOrderTypes, NodeKinds DEF FlowInv, ControlTypes, Encoder, StopInv, Feeders
<1>1. Phase = ctl.back
  BY DEF Phase
<1>2. /\ attached[m] \subseteq Fed(m) /\ todo[m] \subseteq Fed(m)
      /\ target[m] \in Fed(m) \cup {None} /\ None \notin Nodes
  BY <1>0, NodesAssumption DEF TopologyInv
<1>3. /\ m \in Sources => m \notin Encoders /\ Fed(m) = {e \in Encoders : SourceOf[e] = m}
      /\ m \in Encoders => m \notin Sources /\ Fed(m) = SinksOf[m] /\ Fed(m) \subseteq Sinks
      /\ Fed(m) \subseteq Receivers
  BY <1>0, NodesAssumption, NodeKinds DEF Fed, Receivers
<1>4. CASE ctl.back = "stopSources"
  <2>1. ctl.node \in Sources
    BY <1>0, <1>4 DEF NodeInv
  <2>2. ctl.node \notin Fed(m) /\ ctl.node \in Nodes
    BY <1>3, <2>1, NodesAssumption, NodeKinds DEF Receivers
  <2> QED BY <1>2, <2>2
<1>5. CASE ctl.back = "lockStopSinks"
  <2>1. ctl.node = Encoder /\ SilentTo(SourceOf[Encoder], Encoder)
    BY <1>0, <1>5 DEF NodeInv
  <2>2. Encoder \in Nodes
    BY <1>0, NodeKinds
  <2>3. CASE m = SourceOf[Encoder]
    BY <2>1, <2>2, <2>3 DEF SilentTo
  <2>4. CASE m # SourceOf[Encoder]
    <3>1. Encoder \notin Fed(m)
      BY <1>0, <1>3, <2>4, NodeKinds
    <3> QED BY <1>2, <2>1, <2>2, <3>1
  <2> QED BY <2>3, <2>4
<1>6. CASE ctl.back = "stopSinks"
  <2>1. ctl.node \in SinksOf[Encoder] /\ SinksOf[Encoder] \subseteq Sinks
    BY <1>0, <1>6, NodesAssumption DEF NodeInv
  <2>2. ctl.node \in Nodes /\ ctl.node \notin Encoders
    BY <2>1, NodeKinds
  <2>3. CASE m = Encoder
    <3>1. ControllerHolds(m)
      BY <1>1, <1>6, <2>3 DEF ControllerHolds
    <3> QED BY <1>0, <1>1, <1>2, <1>6, <2>2, <2>3, <3>1, NotForwarding
  <2>4. CASE m # Encoder
    <3>1. ctl.node \notin Fed(m)
      BY <1>0, <1>3, <2>1, <2>2, <2>4 DEF NoSinkIsShared
    <3> QED BY <1>2, <2>2, <3>1
  <2> QED BY <2>3, <2>4
<1>7. CASE ctl.back = "stopStreams"
  <2>1. ctl.node \in Sinks /\ ctl.node \in Nodes
    BY <1>0, <1>7, NodesAssumption, NodeKinds DEF NodeInv
  <2>2. CASE m \in Encoders
    <3>1. Detached(m)
      BY <1>0, <1>1, <1>7, <2>2 DEF CutInv
    <3> QED BY <1>2, <2>1, <3>1 DEF Detached
  <2>3. CASE m \in Sources
    <3>1. ctl.node \notin Fed(m)
      BY <1>3, <2>1, <2>3, NodeKinds
    <3> QED BY <1>2, <2>1, <3>1
  <2> QED BY <1>0, <2>2, <2>3
<1> QED BY <1>0, <1>4, <1>5, <1>6, <1>7 DEF CommandInv

LEMMA MessagesKeepStopInv ==
  ASSUME NoSinkIsShared, FlowInv, StopInv, ControllerSend \/ ControllerPost \/ Join
  PROVE  StopInv'
<1>0. /\ StateTypes /\ ControlTypes /\ CommandInv /\ LeftInv /\ CutInv /\ NodeInv
      /\ ctl.back \in Backs
  BY DEF FlowInv, ControlTypes, StopInv
<1> USE DEF ThreadsLeave
<1>1. /\ UNCHANGED <<attached, locked, todo, target, ctl>>
      /\ cpc \in {"send", "post", "join"} /\ cpc' \in {"post", "join", ctl.back}
  BY DEF ControllerSend, ControllerPost, Join
<1>2. /\ Phase = ctl.back /\ Phase' = Phase /\ Encoder' = Encoder
      /\ Sending' => Sending /\ cpc' # "addSinks"
  BY <1>0, <1>1 DEF Phase, Sending, Backs, Encoder
<1>3. \A m \in Feeders : ControllerHolds(m)' <=> ControllerHolds(m)
  BY <1>2 DEF ControllerHolds
<1>4. CommandInv'
  <2>1. cpc' = "join" => ctl.msg = "STOP_THREAD"
    BY <1>0 DEF ControllerSend, ControllerPost, Join, CommandInv, Backs
  <2> QED BY <1>0, <1>1, <2>1 DEF CommandInv
<1>5. LeftInv'
  BY <1>0, <1>1, <1>2 DEF LeftInv, Backs
<1>6. \A m : Detached(m)' <=> Detached(m)
  BY <1>1 DEF Detached
<1>7. CutInv'
  <2>1. /\ Phase' = Phase /\ ctl' = ctl
        /\ \A e \in Encoders : Detached(e) => Detached(e)'
        /\ \A s \in Sources : Detached(s) => Detached(s)'
        /\ \A j \in DOMAIN EncoderOrder : Detached(EncoderOrder[j]) => Detached(EncoderOrder[j])'
    BY <1>1, <1>2, <1>6
  <2> QED BY <1>0, <2>1 DEF CutInv
<1>8. NodeInv'
  <2>1. SilentTo(SourceOf[Encoder], Encoder) => SilentTo(SourceOf[Encoder], Encoder)'
    BY <1>1, <1>2 DEF SilentTo
  <2> QED BY <1>0, <1>1, <1>2, <2>1 DEF NodeInv, Sending
<1>9. CASE UNCHANGED pc
  <2>1. ControllerEffect
    BY <1>1, <1>2, <1>3, <1>9, NothingTouched
  <2>2. MutexInv' /\ TopologyInv' /\ LiveInv'
    BY <2>1, ControllerEffectKeeps
  <2> QED BY <1>4, <1>5, <1>7, <1>8, <2>2 DEF StopInv
<1>10. CASE Join
  <2>1. /\ cpc = "join" /\ pc[ctl.node] = "exited"
        /\ pc' = [pc EXCEPT ![ctl.node] = "none"]
    BY <1>10 DEF Join
  <2>2. Sending /\ ctl.msg = "STOP_THREAD"
    BY <1>0, <2>1 DEF Sending, CommandInv
  <2>3. \A m \in Feeders :
          /\ ctl.node \notin todo[m] /\ target[m] # ctl.node
          /\ ctl.node \in attached[m] => Phase = "stopSinks" /\ m = Encoder
    BY <2>2, NodeIsCutOff
  <2>4. \A s \in Nodes : IF s = ctl.node THEN pc[s] = "exited" /\ pc'[s] = "none"
                                         ELSE pc'[s] = pc[s]
    BY <1>0, <2>1 DEF StateTypes
  <2>5. MutexInv'
    BY <1>1, <1>3, <2>4, NodeKinds DEF StopInv, MutexInv
  <2>6. TopologyInv'
    BY <1>1 DEF StopInv, TopologyInv, Fed
  <2>7. LiveInv'
    <3> SUFFICES ASSUME NEW m \in Feeders
                 PROVE  /\ \A s \in todo'[m] : pc'[s] # "none"
                        /\ \A s \in attached'[m] :
                             pc'[s] # "none" \/ (Phase' = "stopSinks" /\ m = Encoder')
                        /\ target'[m] # None => pc'[target'[m]] # "none"
      BY DEF LiveInv
    <3>1. /\ todo[m] \subseteq Nodes /\ attached[m] \subseteq Nodes
          /\ target[m] \in Nodes \cup {None}
      BY <1>0, NodeKinds DEF StateTypes
    <3>2. /\ \A s \in todo[m] : pc[s] # "none"
          /\ \A s \in attached[m] : pc[s] # "none" \/ (Phase = "stopSinks" /\ m = Encoder)
          /\ target[m] # None => pc[target[m]] # "none"
      BY DEF StopInv, LiveInv
    <3> QED BY <1>1, <1>2, <2>3, <2>4, <3>1, <3>2
  <2> QED BY <1>4, <1>5, <1>7, <1>8, <2>5, <2>6, <2>7 DEF StopInv
<1> QED BY <1>9, <1>10 DEF ControllerSend, ControllerPost


-----------------------------------------------------------------------------
(* The semaphores.                                                           *)

LEMMA InitStopInv == Init => StopInv
<1> SUFFICES ASSUME Init PROVE StopInv
  OBVIOUS
<1> USE DEF Init
<1>0. Phase = "stopped" /\ ~Sending /\ cpc = "stopped" /\ ctl.msg = "START"
  BY DEF Phase, Sending
<1>1. \A m \in Feeders : /\ attached[m] = {} /\ todo[m] = {} /\ target[m] = None
                         /\ pc[m] = "none"
  BY NodeKinds
<1>2. MutexInv /\ TopologyInv /\ LiveInv
  BY <1>0, <1>1 DEF MutexInv, TopologyInv, LiveInv, ControllerHolds
<1>3. CommandInv /\ LeftInv /\ NodeInv
  BY <1>0 DEF CommandInv, LeftInv, NodeInv
<1>4. CutInv
  BY <1>0, <1>1, NodeKinds DEF CutInv, Detached
<1> QED BY <1>2, <1>3, <1>4 DEF StopInv

LEMMA AnyThreadEffect ==
  ASSUME StateTypes,
         \/ \E n \in Sources : SourceThread(n)
         \/ \E n \in Encoders : EncoderThread(n)
         \/ \E n \in Sinks : SinkThread(n)
  PROVE  \E n \in Nodes : ThreadEffect(n)
BY SourceEffect, EncoderEffect, SinkEffect, NodeKinds

LEMMA NextStopInv ==
  ASSUME NoSinkIsShared, FlowInv, StopInv, [Next]_vars
  PROVE  StopInv'
<1>0. StateTypes
  BY DEF FlowInv
<1>1. CASE \/ \E n \in Sources : SourceThread(n)
           \/ \E n \in Encoders : EncoderThread(n)
           \/ \E n \in Sinks : SinkThread(n)
  BY <1>0, <1>1, AnyThreadEffect, ThreadKeepsStopInv
<1>2. CASE Controller
  BY <1>2, StartingKeepsStopInv, StoppingKeepsStopInv, MessagesKeepStopInv
     DEF Controller, Messages
<1>3. CASE UNCHANGED vars
  <2>1. UNCHANGED <<attached, locked, todo, target, pc, cpc, ctl>>
    BY <1>3 DEF vars, feedVars, nodeVars, controlVars
  <2>2. Phase' = Phase /\ Encoder' = Encoder
    BY <2>1 DEF Phase, Sending, Encoder
  <2>3. ControllerEffect
    BY <2>1, <2>2, NothingTouched DEF ControllerHolds
  <2>4. MutexInv' /\ TopologyInv' /\ LiveInv'
    BY <2>3, ControllerEffectKeeps
  <2>5. CommandInv' /\ LeftInv'
    BY <2>1, <2>2 DEF StopInv, CommandInv, LeftInv
  <2>6. CutInv' /\ NodeInv'
    BY <2>1, <2>2 DEF StopInv, CutInv, NodeInv, Detached, SilentTo, Sending
  <2> QED BY <2>4, <2>5, <2>6 DEF StopInv
<1> QED BY <1>1, <1>2, <1>3 DEF Next

LEMMA StopInvInductive ==
  NoSinkIsShared /\ FlowInv /\ StopInv /\ [Next]_vars => StopInv'
BY NextStopInv

(* CMediaNode::StopThread destroys the semaphore of a node after it has      *)
(* waited for the node's thread only.  CMediaFeeder::RemoveSink, StopSinks   *)
(* and RemoveAllSinks see to it, with the mutex of the sink list, that no    *)
(* feeder is between EnqueueFrame and the post: no thread ever posts a       *)
(* semaphore that is gone.                                                   *)
THEOREM SemaphoresOutliveSenders ==
  ASSUME NoSinkIsShared
  PROVE  Spec => []SemaphoreOutlivesSenders
<1>1. Init => FlowInv /\ StopInv
  BY InitFlowInv, InitStopInv
<1>2. FlowInv /\ StopInv /\ [Next]_vars => (FlowInv /\ StopInv)'
  BY NextFlowInv, StopInvInductive
<1>3. FlowInv /\ StopInv => SemaphoreOutlivesSenders
  BY DEF StopInv, LiveInv, SemaphoreOutlivesSenders
<1> QED BY <1>1, <1>2, <1>3, PTL DEF Spec


-----------------------------------------------------------------------------
(* The end of a node.                                                        *)

(* The node has been told to end: the command is in its queue, or its thread *)
(* has left the main loop; an encoder that flushes forwards a frame that is  *)
(* no message's.                                                             *)
Ending(s) ==
  \/ pc[s] \in {"flush", "finish", "drain", "exited"}
  \/ pc[s] \in {"lock", "forward", "post"} /\ item[s] = None
  \/ Contains(inbox[s], "STOP_THREAD")

(* The controller waits for the one node that ends, or is about to.          *)
EndingInv ==
  \A s \in Receivers :
    /\ Ending(s) => cpc \in {"post", "join"} /\ ctl.node = s /\ ctl.msg = "STOP_THREAD"
    /\ pc[s] = "encode" => item[s] \in Frames
    /\ pc[s] = "exited" => inbox[s] = << >>
    /\ pc[s] = "none" => \A f \in Frames : ~Contains(inbox[s], f)

(* What a step of the thread of n does to the messages of others. *)
OthersMessages(n) ==
  \A s \in Receivers : s # n =>
    /\ item'[s] = item[s]
    /\ \/ inbox'[s] = inbox[s]
       \/ \E f \in Frames : /\ inbox'[s] = Append(inbox[s], f)
                            /\ n \in Feeders /\ s \in todo[n]

(* What it does to its own. *)
OwnMessages(n) ==
  n \in Receivers =>
    /\ Ending(n)' => Ending(n)
    /\ pc'[n] = "encode" => item'[n] \in Frames
    /\ pc'[n] = "exited" => inbox'[n] = << >>

LEMMA ForwardMessages ==
  ASSUME FlowInv, TopologyInv, NEW n \in Feeders, Forward(n)
  PROVE  OthersMessages(n) /\ OwnMessages(n)
<1>0. /\ StateTypes /\ n \in Nodes /\ n \notin Fed(n) /\ todo[n] \subseteq Fed(n)
      /\ todo[n] \subseteq Nodes
  BY NodesAssumption, NodeKinds DEF FlowInv, StateTypes, TopologyInv, Fed, Feeders, Receivers, Nodes
<1>1. UNCHANGED item
  BY DEF Forward, LockSinks, EnqueueFrame, PostFrame, FinishForward
<1>2. CASE EnqueueFrame(n)
  <2>1. PICK s \in todo[n] : /\ inbox' = [inbox EXCEPT ![s] = Append(@, out[n])]
                             /\ Move(n, "forward", "post")
    BY <1>2 DEF EnqueueFrame
  <2>2. pc[n] = "forward" /\ pc'[n] = "post"
    BY <1>0, <2>1, MoveEffect
  <2>3. out[n] \in Frames
    BY <2>2 DEF FlowInv, ForwardedFrameIsNew, Forwarding
  <2>4. s # n /\ s \in Nodes
    BY <1>0
  <2>5. /\ inbox'[s] = Append(inbox[s], out[n])
        /\ \A r \in Nodes : r # s => inbox'[r] = inbox[r]
    BY <1>0, <2>1, <2>4 DEF StateTypes
  <2>6. OthersMessages(n)
    BY <1>1, <2>3, <2>5, NodeKinds DEF OthersMessages
  <2>7. OwnMessages(n)
    BY <1>0, <1>1, <2>2, <2>4, <2>5 DEF OwnMessages, Ending
  <2> QED BY <2>6, <2>7
<1>3. CASE LockSinks(n) \/ PostFrame(n)
  <2>1. UNCHANGED inbox
    BY <1>3 DEF LockSinks, PostFrame, queueVars
  <2>2. PICK from \in {"lock", "post"} : Move(n, from, "forward")
    BY <1>3 DEF LockSinks, PostFrame
  <2>3. pc[n] \in {"lock", "post"} /\ pc'[n] = "forward"
    BY <1>0, <2>2, MoveEffect
  <2> QED BY <1>1, <2>1, <2>3 DEF OthersMessages, OwnMessages, Ending
<1>4. CASE FinishForward(n)
  <2>1. UNCHANGED inbox /\ Move(n, "forward", Resume(n))
    BY <1>4 DEF FinishForward, queueVars
  <2>2. pc[n] = "forward" /\ pc'[n] = Resume(n)
    BY <1>0, <2>1, MoveEffect
  <2>3. /\ Resume(n) \in {"poll", "release", "drain"}
        /\ Resume(n) = "drain" => item[n] = None
    BY DEF Resume
  <2> QED BY <1>1, <2>1, <2>2, <2>3 DEF OthersMessages, OwnMessages, Ending
<1> QED BY <1>2, <1>3, <1>4 DEF Forward

LEMMA OnlyMoves ==
  ASSUME FlowInv, NEW n \in Nodes, NEW from, NEW to, Move(n, from, to),
         UNCHANGED <<inbox, item>>,
         n \in Receivers =>
           /\ to \notin {"encode", "exited"}
           /\ to \in {"flush", "finish", "drain"} => from \in {"flush", "finish", "drain"}
           /\ to \in {"lock", "forward", "post"} =>
                from \in {"flush", "finish", "drain"} \/ item[n] \in Frames
  PROVE  OthersMessages(n) /\ OwnMessages(n)
<1>1. pc[n] = from /\ pc'[n] = to /\ None \notin Frames
  BY MoveEffect, FramesAssumption DEF FlowInv
<1> QED BY <1>1 DEF OthersMessages, OwnMessages, Ending

LEMMA SourceMessages ==
  ASSUME FlowInv, TopologyInv, NEW n \in Sources, SourceThread(n)
  PROVE  OthersMessages(n) /\ OwnMessages(n)
<1>0. n \in Nodes /\ n \in Feeders /\ n \notin Receivers
  BY NodesAssumption, NodeKinds DEF Receivers
<1>1. CASE Poll(n)
  <2>1. /\ \A s \in Nodes : s # n => inbox'[s] = inbox[s]
        /\ UNCHANGED item
    BY <1>1 DEF Poll, FlowInv, StateTypes
  <2> QED BY <1>0, <2>1, NodeKinds DEF OthersMessages, OwnMessages
<1>2. CASE Capture(n)
  <2>1. UNCHANGED <<inbox, item>>
    BY <1>2 DEF Capture, queueVars
  <2> QED BY <1>0, <2>1 DEF OthersMessages, OwnMessages
<1> QED BY <1>0, <1>1, <1>2, ForwardMessages DEF SourceThread

LEMMA ReceiveMessages ==
  ASSUME FlowInv, NEW n \in Receivers, Receive(n)
  PROVE  OthersMessages(n) /\ OwnMessages(n)
<1>0. /\ StateTypes /\ n \in Nodes /\ inbox[n] \in Seq(Messagable)
      /\ None \notin Frames /\ Frames \cap Commands = {}
  BY NodeKinds, FramesAssumption DEF FlowInv, StateTypes
<1> DEFINE m == Head(inbox[n])
<1>1. /\ inbox[n] # << >> /\ inbox' = [inbox EXCEPT ![n] = Tail(@)]
      /\ Move(n, "wait", Handler(n, m))
      /\ item' = IF m \in Frames THEN [item EXCEPT ![n] = m] ELSE item
  BY DEF Receive
<1>2. /\ m \in Messagable /\ Contains(inbox[n], m)
      /\ \A f : Contains(Tail(inbox[n]), f) => Contains(inbox[n], f)
  BY <1>0, <1>1, TailOfQueue
<1>3. /\ inbox'[n] = Tail(inbox[n])
      /\ \A s \in Nodes : s # n => inbox'[s] = inbox[s] /\ item'[s] = item[s]
      /\ m \in Frames => item'[n] = m
  BY <1>0, <1>1 DEF StateTypes
<1>4. pc[n] = "wait" /\ pc'[n] = Handler(n, m)
  BY <1>0, <1>1, MoveEffect
<1> HIDE DEF m
<1>5. /\ Handler(n, m) \in {"flush", "finish", "pause", "wait", "encode", "consume"}
      /\ Handler(n, m) \in {"flush", "finish"} => m = "STOP_THREAD"
      /\ Handler(n, m) = "encode" => m \in Frames
  <2>1. m \in Frames \/ m = "START" \/ m = "STOP" \/ m = "STOP_THREAD"
    BY <1>2 DEF Messagable, Commands
  <2> QED BY <2>1 DEF Handler
<1>6. OthersMessages(n)
  BY <1>3, NodeKinds DEF OthersMessages
<1>7. OwnMessages(n)
  BY <1>2, <1>3, <1>4, <1>5 DEF OwnMessages, Ending
<1> QED BY <1>6, <1>7

LEMMA DrainMessages ==
  ASSUME FlowInv, NEW n \in Receivers, Drain(n)
  PROVE  OthersMessages(n) /\ OwnMessages(n)
<1>0. StateTypes /\ n \in Nodes
  BY NodeKinds DEF FlowInv
<1>1. UNCHANGED item
  BY DEF Drain
<1>2. PICK to \in {"exited", "drain"} : Move(n, "drain", to)
  BY DEF Drain
<1>3. pc[n] = "drain" /\ pc'[n] = to
  BY <1>0, <1>2, MoveEffect
<1>4. to = "exited" => inbox[n] = << >> /\ inbox' = inbox
  <2>1. CASE Move(n, "drain", "drain")
    BY <1>0, <1>3, <2>1, MoveEffect
  <2>2. CASE ~Move(n, "drain", "drain")
    BY <2>2 DEF Drain
  <2> QED BY <2>1, <2>2
<1>5. \A s \in Nodes : s # n => inbox'[s] = inbox[s]
  BY <1>0 DEF Drain, StateTypes
<1>6. OthersMessages(n)
  BY <1>1, <1>5, NodeKinds DEF OthersMessages
<1>7. OwnMessages(n)
  BY <1>3, <1>4 DEF OwnMessages, Ending
<1> QED BY <1>6, <1>7


LEMMA EncoderMessages ==
  ASSUME FlowInv, TopologyInv, EndingInv, NEW n \in Encoders, EncoderThread(n)
  PROVE  OthersMessages(n) /\ OwnMessages(n)
<1>0. /\ StateTypes /\ n \in Nodes /\ n \in Feeders /\ n \in Receivers
      /\ None \notin Frames
  BY NodeKinds, FramesAssumption DEF FlowInv, Receivers
<1>1. CASE Encode(n)
  <2>1. PICK to \in {"lock", "release"} : Move(n, "encode", to)
    BY <1>1 DEF Encode
  <2>2. pc[n] = "encode"
    BY <1>0, <2>1, MoveEffect
  <2>3. item[n] \in Frames /\ UNCHANGED <<inbox, item>>
    BY <1>0, <1>1, <2>2 DEF Encode, EndingInv, queueVars
  <2> QED BY <1>0, <2>1, <2>3, OnlyMoves
<1>2. CASE ReleaseItem(n)
  <2>1. /\ Move(n, "release", "wait") /\ UNCHANGED inbox
        /\ item' = [item EXCEPT ![n] = None]
    BY <1>2 DEF ReleaseItem, queueVars
  <2>2. pc[n] = "release" /\ pc'[n] = "wait"
    BY <1>0, <2>1, MoveEffect
  <2>3. \A s \in Nodes : s # n => item'[s] = item[s]
    BY <1>0, <2>1 DEF StateTypes
  <2> QED BY <2>1, <2>2, <2>3, NodeKinds DEF OthersMessages, OwnMessages, Ending
<1>3. CASE Flush(n)
  <2>1. PICK to \in {"lock", "drain"} : Move(n, "flush", to)
    BY <1>3 DEF Flush
  <2>2. UNCHANGED <<inbox, item>>
    BY <1>3 DEF Flush, queueVars
  <2> QED BY <1>0, <2>1, <2>2, OnlyMoves
<1> QED BY <1>0, <1>1, <1>2, <1>3, ReceiveMessages, DrainMessages, ForwardMessages
        DEF EncoderThread

LEMMA SinkMessages ==
  ASSUME FlowInv, NEW n \in Sinks, SinkThread(n)
  PROVE  OthersMessages(n) /\ OwnMessages(n)
<1>0. StateTypes /\ n \in Nodes /\ n \in Receivers
  BY NodeKinds DEF FlowInv, Receivers
<1>1. CASE Consume(n)
  <2>1. /\ Move(n, "consume", "wait") /\ UNCHANGED inbox
        /\ item' = [item EXCEPT ![n] = None]
    BY <1>1 DEF Consume, queueVars
  <2>2. pc[n] = "consume" /\ pc'[n] = "wait"
    BY <1>0, <2>1, MoveEffect
  <2>3. \A s \in Nodes : s # n => item'[s] = item[s]
    BY <1>0, <2>1 DEF StateTypes
  <2> QED BY <2>1, <2>2, <2>3, NodeKinds DEF OthersMessages, OwnMessages, Ending
<1>2. CASE StopSink(n)
  <2>1. UNCHANGED <<inbox, item>>
    BY <1>2 DEF StopSink, queueVars
  <2>2. CASE Move(n, "finish", "drain")
    BY <1>0, <2>1, <2>2, OnlyMoves
  <2>3. CASE Move(n, "pause", "wait")
    BY <1>0, <2>1, <2>3, OnlyMoves
  <2> QED BY <1>2, <2>2, <2>3 DEF StopSink
<1> QED BY <1>0, <1>1, <1>2, ReceiveMessages, DrainMessages DEF SinkThread

LEMMA ThreadKeepsEndingInv ==
  ASSUME NoSinkIsShared, FlowInv, StopInv, EndingInv, NEW n \in Nodes, ThreadEffect(n),
         OthersMessages(n), OwnMessages(n)
  PROVE  EndingInv'
<1> SUFFICES ASSUME NEW s \in Receivers
             PROVE  /\ Ending(s)' => cpc' \in {"post", "join"} /\ ctl'.node = s
                                      /\ ctl'.msg = "STOP_THREAD"
                    /\ pc'[s] = "encode" => item'[s] \in Frames
                    /\ pc'[s] = "exited" => inbox'[s] = << >>
                    /\ pc'[s] = "none" => \A f \in Frames : ~Contains(inbox'[s], f)
  BY DEF EndingInv
<1>0. /\ UNCHANGED <<cpc, ctl>> /\ s \in Nodes /\ inbox[s] \in Seq(Messagable)
      /\ Frames \cap Commands = {}
  BY NodeKinds, FramesAssumption DEF ThreadEffect, FlowInv, StateTypes
<1>1. /\ Ending(s) => cpc \in {"post", "join"} /\ ctl.node = s /\ ctl.msg = "STOP_THREAD"
      /\ pc[s] = "encode" => item[s] \in Frames
      /\ pc[s] = "exited" => inbox[s] = << >>
      /\ pc[s] = "none" => \A f \in Frames : ~Contains(inbox[s], f)
  BY DEF EndingInv
<1>2. CASE s = n
  <2>1. pc'[s] # "none"
    BY <1>2 DEF ThreadEffect
  <2> QED BY <1>0, <1>1, <1>2, <2>1 DEF OwnMessages
<1>3. CASE s # n /\ inbox'[s] = inbox[s]
  <2>1. pc'[s] = pc[s] /\ item'[s] = item[s]
    BY <1>0, <1>3 DEF ThreadEffect, OthersMessages
  <2>2. Ending(s)' <=> Ending(s)
    BY <1>3, <2>1 DEF Ending
  <2> QED BY <1>0, <1>1, <1>3, <2>1, <2>2
<1>4. CASE s # n /\ inbox'[s] # inbox[s]
  <2>1. PICK f \in Frames : /\ inbox'[s] = Append(inbox[s], f)
                            /\ n \in Feeders /\ s \in todo[n]
    BY <1>4 DEF OthersMessages
  <2>2. pc'[s] = pc[s] /\ item'[s] = item[s]
    BY <1>0, <1>4 DEF ThreadEffect, OthersMessages
  <2>3. \A m : Contains(inbox'[s], m) <=> Contains(inbox[s], m) \/ m = f
    <3>1. f \in Messagable
      BY DEF Messagable
    <3> QED BY <1>0, <2>1, <3>1, AppendToQueue
  <2>4. f # "STOP_THREAD"
    BY <1>0 DEF Commands
  <2>5. Ending(s)' <=> Ending(s)
    BY <2>2, <2>3, <2>4 DEF Ending
  <2>6. pc[s] # "none"
    BY <2>1 DEF StopInv, LiveInv
  <2>7. pc[s] # "exited"
    <3>1. SUFFICES ASSUME pc[s] = "exited" PROVE FALSE
      OBVIOUS
    <3>2. Sending /\ ctl.node = s /\ ctl.msg = "STOP_THREAD"
      BY <1>1, <3>1 DEF Ending, Sending
    <3>3. s \notin todo[n]
      BY <2>1, <3>2, NodeIsCutOff
    <3> QED BY <2>1, <3>3
  <2> QED BY <1>0, <1>1, <2>2, <2>5, <2>6, <2>7
<1> QED BY <1>2, <1>3, <1>4


(* What a step of the controller that is not part of sending does to the      *)
(* messages: at most, a queue is deleted.                                     *)
QuietEffect ==
  /\ cpc \notin {"post", "join"} /\ UNCHANGED item
  /\ \A s \in Nodes : pc'[s] = pc[s] \/ (pc[s] = "none" /\ pc'[s] \in {"poll", "wait"})
  /\ \A s \in Nodes : inbox'[s] = inbox[s] \/ inbox'[s] = << >>

LEMMA QuietController ==
  ASSUME StateTypes, Controller, ~ControllerSend, ~ControllerPost, ~Join
  PROVE  QuietEffect
<1> USE DEF ThreadsLeave, QuietEffect, queueVars
<1>1. CASE StartFlow
  BY <1>1, StartThreadEffect DEF StartFlow
<1>2. CASE CreateEncoder
  BY <1>2, StartThreadEffect DEF CreateEncoder
<1>3. CASE AddSink
  BY <1>3, StartThreadEffect DEF AddSink
<1>4. CASE DeleteEncoder
  BY <1>4 DEF DeleteEncoder, Delete
<1>5. CASE StopStreams
  BY <1>5 DEF StopStreams, Delete
<1>6. CASE \/ AllSinksAdded \/ StartEncoder \/ StartSinks \/ AllSinksStarted
           \/ StartSources \/ RestartRecording
  BY <1>6 DEF AllSinksAdded, StartEncoder, StartSinks, AllSinksStarted, StartSources,
              RestartRecording
<1>7. CASE \/ StopFlow \/ StopSource \/ AllSourcesStopped \/ RemoveEncoder
           \/ StopSinks \/ LockSinksOf
  BY <1>7 DEF StopFlow, StopSource, AllSourcesStopped, RemoveEncoder, StopSinks,
              LockSinksOf
<1> QED BY <1>1, <1>2, <1>3, <1>4, <1>5, <1>6, <1>7
        DEF Controller, Starting, Stopping, Messages

LEMMA QuietKeepsEndingInv ==
  ASSUME EndingInv, QuietEffect
  PROVE  EndingInv'
<1> SUFFICES ASSUME NEW s \in Receivers
             PROVE  /\ ~Ending(s)'
                    /\ pc'[s] = "encode" => item'[s] \in Frames
                    /\ pc'[s] = "exited" => inbox'[s] = << >>
                    /\ pc'[s] = "none" => \A f \in Frames : ~Contains(inbox'[s], f)
  BY DEF EndingInv
<1>1. /\ ~Ending(s)
      /\ pc[s] = "encode" => item[s] \in Frames
      /\ pc[s] = "exited" => inbox[s] = << >>
      /\ pc[s] = "none" => \A f \in Frames : ~Contains(inbox[s], f)
  BY DEF EndingInv, QuietEffect
<1>2. /\ item'[s] = item[s] /\ (inbox'[s] = inbox[s] \/ inbox'[s] = << >>)
      /\ pc'[s] = pc[s] \/ (pc[s] = "none" /\ pc'[s] \in {"poll", "wait"})
  BY NodeKinds DEF QuietEffect
<1>3. \A m : ~Contains(<< >>, m)
  BY DEF Contains
<1> QED BY <1>1, <1>2, <1>3 DEF Ending

LEMMA SendKeepsEndingInv ==
  ASSUME FlowInv, EndingInv, ControllerSend
  PROVE  EndingInv'
<1>0. /\ StateTypes /\ ctl.msg \in Messagable /\ Frames \cap Commands = {}
      /\ ctl.msg \in Commands
  BY FramesAssumption DEF FlowInv, ControlTypes, Messagable
<1>1. /\ cpc = "send" /\ cpc' = "post" /\ UNCHANGED <<ctl, pc, item>>
      /\ inbox' = [inbox EXCEPT ![ctl.node] = Append(@, ctl.msg)]
  BY DEF ControllerSend, ThreadsLeave
<1> SUFFICES ASSUME NEW s \in Receivers
             PROVE  /\ Ending(s)' => ctl.node = s /\ ctl.msg = "STOP_THREAD"
                    /\ pc[s] = "encode" => item[s] \in Frames
                    /\ pc[s] # "exited"
                    /\ pc[s] = "none" => \A f \in Frames : ~Contains(inbox'[s], f)
  BY <1>1 DEF EndingInv
<1>2. /\ ~Ending(s) /\ s \in Nodes /\ inbox[s] \in Seq(Messagable)
      /\ pc[s] = "encode" => item[s] \in Frames
      /\ pc[s] = "none" => \A f \in Frames : ~Contains(inbox[s], f)
  BY <1>0, <1>1, NodeKinds DEF EndingInv, StateTypes
<1>3. pc[s] # "exited"
  BY <1>2 DEF Ending
<1>4. CASE s # ctl.node
  <2>1. inbox'[s] = inbox[s]
    BY <1>0, <1>1, <1>2, <1>4 DEF StateTypes
  <2> QED BY <1>1, <1>2, <1>3, <2>1 DEF Ending
<1>5. CASE s = ctl.node
  <2>1. inbox'[s] = Append(inbox[s], ctl.msg)
    BY <1>0, <1>1, <1>2, <1>5 DEF StateTypes
  <2>2. \A m : Contains(inbox'[s], m) <=> Contains(inbox[s], m) \/ m = ctl.msg
    BY <1>0, <1>2, <2>1, AppendToQueue
  <2>3. \A f \in Frames : f # ctl.msg
    BY <1>0
  <2> QED BY <1>1, <1>2, <1>3, <1>5, <2>2, <2>3 DEF Ending
<1> QED BY <1>4, <1>5

LEMMA PostKeepsEndingInv ==
  ASSUME EndingInv, ControllerPost
  PROVE  EndingInv'
<1>1. /\ cpc = "post" /\ cpc' = IF ctl.msg = "STOP_THREAD" THEN "join" ELSE ctl.back
      /\ UNCHANGED <<ctl, pc, item, inbox>>
  BY DEF ControllerPost, ThreadsLeave
<1>2. \A s : Ending(s)' <=> Ending(s)
  BY <1>1 DEF Ending
<1> QED BY <1>1, <1>2 DEF EndingInv

LEMMA JoinKeepsEndingInv ==
  ASSUME FlowInv, EndingInv, Join
  PROVE  EndingInv'
<1>1. /\ cpc = "join" /\ UNCHANGED <<inbox, item, ctl>> /\ pc[ctl.node] = "exited"
      /\ pc' = [pc EXCEPT ![ctl.node] = "none"]
  BY DEF Join, ThreadsLeave, queueVars
<1> SUFFICES ASSUME NEW s \in Receivers
             PROVE  /\ ~Ending(s)'
                    /\ pc'[s] = "encode" => item[s] \in Frames
                    /\ pc'[s] = "exited" => inbox[s] = << >>
                    /\ pc'[s] = "none" => \A f \in Frames : ~Contains(inbox[s], f)
  BY <1>1 DEF EndingInv
<1>2. /\ Ending(s) => ctl.node = s
      /\ pc[s] = "encode" => item[s] \in Frames
      /\ pc[s] = "exited" => inbox[s] = << >>
      /\ pc[s] = "none" => \A f \in Frames : ~Contains(inbox[s], f)
  BY DEF EndingInv
<1>3. pc'[s] = IF s = ctl.node THEN "none" ELSE pc[s]
  BY <1>1, NodeKinds DEF FlowInv, StateTypes
<1>4. CASE s # ctl.node
  BY <1>1, <1>2, <1>3, <1>4 DEF Ending
<1>5. CASE s = ctl.node
  <2>1. inbox[s] = << >>
    BY <1>1, <1>2, <1>5
  <2> QED BY <1>1, <1>3, <1>5, <2>1 DEF Ending, Contains
<1> QED BY <1>4, <1>5

LEMMA InitEndingInv == Init => EndingInv
<1> SUFFICES ASSUME Init, NEW s \in Receivers
             PROVE  /\ ~Ending(s) /\ pc[s] = "none"
                    /\ \A f \in Frames : ~Contains(inbox[s], f)
  BY DEF EndingInv
<1>1. pc[s] = "none" /\ inbox[s] = << >>
  BY NodeKinds DEF Init
<1> QED BY <1>1 DEF Ending, Contains

LEMMA NextEndingInv ==
  ASSUME NoSinkIsShared, FlowInv, StopInv, EndingInv, [Next]_vars
  PROVE  EndingInv'
<1>0. StateTypes /\ TopologyInv
  BY DEF FlowInv, StopInv
<1>1. ASSUME NEW n \in Sources, SourceThread(n) PROVE EndingInv'
  <2>1. n \in Nodes /\ ThreadEffect(n)
    BY <1>0, <1>1, SourceEffect, NodeKinds
  <2>2. OthersMessages(n) /\ OwnMessages(n)
    BY <1>0, <1>1, SourceMessages
  <2> QED BY <2>1, <2>2, ThreadKeepsEndingInv
<1>2. ASSUME NEW n \in Encoders, EncoderThread(n) PROVE EndingInv'
  <2>1. n \in Nodes /\ ThreadEffect(n)
    BY <1>0, <1>2, EncoderEffect, NodeKinds
  <2>2. OthersMessages(n) /\ OwnMessages(n)
    BY <1>0, <1>2, EncoderMessages
  <2> QED BY <2>1, <2>2, ThreadKeepsEndingInv
<1>3. ASSUME NEW n \in Sinks, SinkThread(n) PROVE EndingInv'
  <2>1. n \in Nodes /\ ThreadEffect(n)
    BY <1>0, <1>3, SinkEffect, NodeKinds
  <2>2. OthersMessages(n) /\ OwnMessages(n)
    BY <1>3, SinkMessages
  <2> QED BY <2>1, <2>2, ThreadKeepsEndingInv
<1>4. CASE Controller
  BY <1>0, <1>4, QuietController, QuietKeepsEndingInv, SendKeepsEndingInv,
     PostKeepsEndingInv, JoinKeepsEndingInv
<1>5. CASE UNCHANGED vars
  <2>1. UNCHANGED <<inbox, item, pc, cpc, ctl>>
    BY <1>5 DEF vars, queueVars, nodeVars, controlVars
  <2>2. \A s : Ending(s)' <=> Ending(s)
    BY <2>1 DEF Ending
  <2> QED BY <2>1, <2>2 DEF EndingInv
<1> QED BY <1>1, <1>2, <1>3, <1>4, <1>5 DEF Next

LEMMA EndingInvInductive ==
  NoSinkIsShared /\ FlowInv /\ StopInv /\ EndingInv /\ [Next]_vars => EndingInv'
BY NextEndingInv

(* A node's thread drains its queue before it ends, and CMediaNode::         *)
(* StopThread is called only when no feeder has the node in its list any     *)
(* more: no frame is put into the queue of a node after its thread has       *)
(* drained it, so every frame that was forwarded is taken and released.      *)
THEOREM ForwardedFramesAreTakenAlways ==
  ASSUME NoSinkIsShared
  PROVE  Spec => []ForwardedFramesAreTaken
<1>1. Init => FlowInv /\ StopInv /\ EndingInv
  BY InitFlowInv, InitStopInv, InitEndingInv
<1>2. FlowInv /\ StopInv /\ EndingInv /\ [Next]_vars => (FlowInv /\ StopInv /\ EndingInv)'
  BY NextFlowInv, StopInvInductive, EndingInvInductive
<1>3. EndingInv => ForwardedFramesAreTaken
  <2> SUFFICES ASSUME EndingInv, NEW n \in Receivers, pc[n] \in {"exited", "none"},
                      NEW f \in Frames
               PROVE  ~InQueue(n, f)
    BY DEF ForwardedFramesAreTaken
  <2>1. ~Contains(inbox[n], f)
    BY DEF EndingInv, Contains
  <2> QED BY <2>1 DEF InQueue, Contains
<1> QED BY <1>1, <1>2, <1>3, PTL DEF Spec


-----------------------------------------------------------------------------
(* No frame is lost.                                                         *)

Handling == {"encode", "release", "consume", "lock", "forward", "post"}

(* A thread has a frame only while it handles or forwards it. *)
HandledInv ==
  /\ \A n \in Nodes : item[n] # None => n \in Receivers /\ pc[n] \in Handling
  /\ \A n \in Feeders : out[n] # None => Forwarding(n)

(* A sink is given each frame once: it never has a frame in two places, so   *)
(* that it would count as one holder with two references or the reverse.     *)
GivenOnce ==
  \A s \in Sinks :
    /\ item[s] \notin kept[s]
    /\ \A f \in Frames : Contains(inbox[s], f) => f \notin kept[s] /\ f # item[s]
    /\ \A n \in Feeders : pc[n] = "lock" \/ s \in todo[n] =>
         out[n] \notin kept[s] /\ out[n] # item[s]

(* A queue is deleted only after the thread of its node has ended. *)
Stopped(s) == pc[s] = "none" \/ s \in ctl.left \/ (Sending /\ s = ctl.node)

DeletedInv ==
  /\ Phase = "stopSinks" \/ cpc = "lockStopSinks" => pc[Encoder] = "none"
  /\ Phase = "stopSinks" => \A s \in attached[Encoder] : Stopped(s)
  /\ Phase = "stopStreams" => \A s \in Recorders : Stopped(s)
  /\ Sending /\ ctl.back \in {"stopSources", "lockStopSinks", "stopSinks", "stopStreams"} =>
       ctl.msg = "STOP_THREAD"

LeakInv == HandledInv /\ GivenOnce /\ NoFrameLeaks

(* The number of holders covers a count after a change of both. *)
LEMMA HoldersCover ==
  ASSUME NEW A, NEW B, IsFiniteSet(A), IsFiniteSet(B), NEW r \in Int, NEW s \in Int,
         r <= Cardinality(A),
         \/ A \subseteq B /\ s <= r
         \/ \E h : A \ {h} \subseteq B /\ s <= r - 1
         \/ \E g : g \notin A /\ A \cup {g} \subseteq B /\ s <= r + 1
         \/ \E h, g : g \notin A /\ (A \ {h}) \cup {g} \subseteq B /\ s <= r
  PROVE  s <= Cardinality(B)
<1>0. Cardinality(A) \in Nat /\ Cardinality(B) \in Nat
  BY FS_CardinalityType
<1>1. ASSUME NEW C, C \subseteq B, NEW c \in Int, c <= Cardinality(C)
      PROVE  c <= Cardinality(B)
  <2>1. Cardinality(C) <= Cardinality(B) /\ Cardinality(C) \in Nat
    BY <1>1, FS_Subset, FS_CardinalityType
  <2> QED BY <1>0, <1>1, <2>1
<1>2. ASSUME NEW h
      PROVE  /\ IsFiniteSet(A \ {h}) /\ Cardinality(A \ {h}) \in Nat
             /\ Cardinality(A \ {h}) >= Cardinality(A) - 1
  <2>1. CASE h \in A
    <3>1. IsFiniteSet(A \ {h}) /\ Cardinality(A \ {h}) = Cardinality(A) - 1
      BY <2>1, FS_RemoveElement
    <3>2. Cardinality(A \ {h}) \in Nat
      BY <3>1, FS_CardinalityType
    <3> QED BY <1>0, <3>1, <3>2
  <2>2. CASE h \notin A
    <3>1. A \ {h} = A
      BY <2>2
    <3> QED BY <1>0, <3>1
  <2> QED BY <2>1, <2>2
<1>3. ASSUME NEW C, IsFiniteSet(C), NEW g, g \notin C
      PROVE  Cardinality(C \cup {g}) = Cardinality(C) + 1
  BY <1>3, FS_AddElement
<1>4. CASE A \subseteq B /\ s <= r
  <2>1. s <= Cardinality(A)
    BY <1>0, <1>4
  <2> QED BY <1>1, <1>4, <2>1
<1>5. ASSUME NEW h, A \ {h} \subseteq B, s <= r - 1
      PROVE  s <= Cardinality(B)
  <2>0. /\ Cardinality(A \ {h}) \in Nat
        /\ Cardinality(A \ {h}) >= Cardinality(A) - 1
    BY <1>2
  <2>1. s <= Cardinality(A \ {h})
    BY <1>0, <1>5, <2>0
  <2> QED BY <1>1, <1>5, <2>1
<1>6. ASSUME NEW g, g \notin A, A \cup {g} \subseteq B, s <= r + 1
      PROVE  s <= Cardinality(B)
  <2>1. Cardinality(A \cup {g}) = Cardinality(A) + 1
    BY <1>3, <1>6
  <2>2. s <= Cardinality(A \cup {g})
    BY <1>0, <1>6, <2>1
  <2> QED BY <1>1, <1>6, <2>2
<1>7. ASSUME NEW h, NEW g, g \notin A, (A \ {h}) \cup {g} \subseteq B, s <= r
      PROVE  s <= Cardinality(B)
  <2>1. Cardinality((A \ {h}) \cup {g}) = Cardinality(A \ {h}) + 1
    BY <1>2, <1>3, <1>7
  <2>2. s <= Cardinality((A \ {h}) \cup {g})
    BY <1>0, <1>2, <1>7, <2>1
  <2> QED BY <1>1, <1>7, <2>2
<1> QED BY <1>4, <1>5, <1>6, <1>7

(* The holders that are left after a step which takes away those of lost and  *)
(* adds those of gained.                                                      *)
StillHeld(f, lost, gained) ==
  /\ gained \subseteq Holders(f)'
  /\ \A n \in Nodes : Contains(inbox[n], f) =>
       Contains(inbox'[n], f) \/ <<"queue", n>> \in lost
  /\ \A n \in Nodes : item[n] = f => item'[n] = f \/ <<"item", n>> \in lost
  /\ \A n \in Feeders : out[n] = f => out'[n] = f \/ <<"out", n>> \in lost
  /\ \A n \in Sinks : f \in kept[n] => f \in kept'[n] \/ <<"kept", n>> \in lost

LEMMA HoldersLeft ==
  ASSUME NEW f, NEW lost, NEW gained, StillHeld(f, lost, gained)
  PROVE  (Holders(f) \ lost) \cup gained \subseteq Holders(f)'
BY DEF Holders, InQueue, Contains, StillHeld

LEMMA CountStays ==
  ASSUME FlowInv, NoFrameLeaks, NEW f \in Frames, refs'[f] \in Int,
         \/ StillHeld(f, {}, {}) /\ refs'[f] <= refs[f]
         \/ \E h : StillHeld(f, {h}, {}) /\ refs'[f] <= refs[f] - 1
         \/ \E g : g \notin Holders(f) /\ StillHeld(f, {}, {g}) /\ refs'[f] <= refs[f] + 1
         \/ \E h, g : g \notin Holders(f) /\ StillHeld(f, {h}, {g}) /\ refs'[f] <= refs[f]
  PROVE  refs'[f] <= Cardinality(Holders(f)')
<1>1. /\ refs[f] \in Int /\ refs[f] <= Cardinality(Holders(f))
      /\ IsFiniteSet(Holders(f))
  BY HoldersNow DEF FlowInv, NoFrameLeaks
<1>2. IsFiniteSet(Holders(f)')
  <2>1. Holders(f)' = HoldersIn(f, inbox', item', out', kept')
    BY DEF Holders, HoldersIn, InQueue
  <2> QED BY <2>1, HoldersFinite
<1>3. CASE StillHeld(f, {}, {}) /\ refs'[f] <= refs[f]
  <2>1. Holders(f) \subseteq Holders(f)'
    BY <1>3, HoldersLeft
  <2> QED BY <1>1, <1>2, <1>3, <2>1, HoldersCover
<1>4. ASSUME NEW h, StillHeld(f, {h}, {}), refs'[f] <= refs[f] - 1
      PROVE  refs'[f] <= Cardinality(Holders(f)')
  <2>1. Holders(f) \ {h} \subseteq Holders(f)'
    BY <1>4, HoldersLeft
  <2> QED BY <1>1, <1>2, <1>4, <2>1, HoldersCover
<1>5. ASSUME NEW g, g \notin Holders(f), StillHeld(f, {}, {g}), refs'[f] <= refs[f] + 1
      PROVE  refs'[f] <= Cardinality(Holders(f)')
  <2>1. Holders(f) \cup {g} \subseteq Holders(f)'
    BY <1>5, HoldersLeft
  <2> QED BY <1>1, <1>2, <1>5, <2>1, HoldersCover
<1>6. ASSUME NEW h, NEW g, g \notin Holders(f), StillHeld(f, {h}, {g}), refs'[f] <= refs[f]
      PROVE  refs'[f] <= Cardinality(Holders(f)')
  <2>1. (Holders(f) \ {h}) \cup {g} \subseteq Holders(f)'
    BY <1>6, HoldersLeft
  <2> QED BY <1>1, <1>2, <1>6, <2>1, HoldersCover
<1> QED BY <1>3, <1>4, <1>5, <1>6


(* A step of the thread of n, which has let go of what it does not handle.    *)
LEMMA HandledStays ==
  ASSUME HandledInv, StateTypes, NEW n \in Nodes, NEW from, NEW to, Move(n, from, to),
         \A s \in Nodes : s # n => item'[s] = item[s],
         \A s \in Feeders : s # n => out'[s] = out[s],
         item'[n] # None => n \in Receivers /\ to \in Handling,
         n \in Feeders /\ out'[n] # None => to \in {"lock", "forward", "post"}
  PROVE  HandledInv'
<1>1. /\ pc'[n] = to
      /\ \A s \in Nodes : s # n => pc'[s] = pc[s]
  BY MoveEffect
<1> QED BY <1>1, NodeKinds DEF HandledInv, Forwarding

(* A step by which no frame goes to a sink. *)
LEMMA GivenOnceStays ==
  ASSUME FlowInv, MutexInv, GivenOnce,
         \A s \in Sinks : /\ kept'[s] \subseteq kept[s] /\ item'[s] \in {item[s], None}
                          /\ \A f \in Frames : Contains(inbox'[s], f) => Contains(inbox[s], f),
         \A n \in Feeders : \A s \in Sinks :
           pc'[n] = "lock" \/ s \in todo'[n] =>
             (pc[n] = "lock" \/ s \in todo[n]) /\ out'[n] = out[n]
  PROVE  GivenOnce'
<1> SUFFICES ASSUME NEW s \in Sinks
             PROVE  /\ item'[s] \notin kept'[s]
                    /\ \A f \in Frames : Contains(inbox'[s], f) => f \notin kept'[s] /\ f # item'[s]
                    /\ \A n \in Feeders : pc'[n] = "lock" \/ s \in todo'[n] =>
                         out'[n] \notin kept'[s] /\ out'[n] # item'[s]
  BY DEF GivenOnce
<1>1. None \notin kept[s] /\ None \notin Frames
  BY FramesAssumption DEF FlowInv, StateTypes
<1>2. \A n \in Feeders : pc[n] = "lock" \/ s \in todo[n] => out[n] \in Frames
  BY DEF FlowInv, ForwardedFrameIsNew, Forwarding, MutexInv
<1> QED BY <1>1, <1>2 DEF GivenOnce

(* A step by which nobody lets go of anything. *)
LEMMA HoldersStay ==
  ASSUME FlowInv, NoFrameLeaks, UNCHANGED <<refs, item, out, kept>>,
         \A s \in Nodes, f \in Frames : Contains(inbox[s], f) => Contains(inbox'[s], f)
  PROVE  NoFrameLeaks'
<1> SUFFICES ASSUME NEW f \in Frames PROVE refs'[f] <= Cardinality(Holders(f)')
  BY DEF NoFrameLeaks
<1>1. StillHeld(f, {}, {})
  BY DEF StillHeld
<1>2. refs'[f] \in Int /\ refs'[f] <= refs[f]
  BY DEF FlowInv
<1> QED BY <1>1, <1>2, CountStays

LEMMA TakeKeeps ==
  ASSUME FlowInv, NEW n \in Nodes, inbox[n] # << >>,
         inbox' = [inbox EXCEPT ![n] = Tail(@)]
  PROVE  \A s \in Nodes, f \in Frames : Contains(inbox[s], f) =>
           Contains(inbox'[s], f) \/ (s = n /\ f = Head(inbox[n]))
<1>1. /\ inbox[n] \in Seq(Messagable) /\ inbox'[n] = Tail(inbox[n])
      /\ \A s \in Nodes : s # n => inbox'[s] = inbox[s]
  BY DEF FlowInv, StateTypes
<1>2. ASSUME NEW f, Contains(inbox[n], f), f # Head(inbox[n])
      PROVE  Contains(inbox'[n], f)
  <2>1. PICK j \in DOMAIN inbox[n] : inbox[n][j] = f
    BY <1>2 DEF Contains
  <2>2. /\ j \in 1 .. Len(inbox[n]) /\ j # 1
    BY <1>1, <1>2, <2>1
  <2>3. j - 1 \in DOMAIN Tail(inbox[n]) /\ Tail(inbox[n])[j - 1] = inbox[n][j]
    BY <1>1, <2>2
  <2> QED BY <1>1, <2>1, <2>3 DEF Contains
<1> QED BY <1>1, <1>2

LEMMA LockSinksLeak ==
  ASSUME FlowInv, MutexInv, LeakInv, NEW n \in Feeders, LockSinks(n)
  PROVE  LeakInv'
<1>0. StateTypes /\ n \in Nodes
  BY NodeKinds DEF FlowInv
<1>1. /\ Move(n, "lock", "forward") /\ todo' = [todo EXCEPT ![n] = attached[n]]
      /\ UNCHANGED <<refs, item, out, kept, inbox>>
  BY DEF LockSinks, frameVars, queueVars
<1>2. /\ pc[n] = "lock" /\ pc'[n] = "forward"
      /\ \A s \in Nodes : s # n => pc'[s] = pc[s]
      /\ \A s \in Feeders : s # n => todo'[s] = todo[s]
  BY <1>0, <1>1, MoveEffect DEF StateTypes
<1>3. HandledInv'
  <2>1. item'[n] # None => n \in Receivers /\ "forward" \in Handling
    BY <1>0, <1>1 DEF LeakInv, HandledInv, Handling
  <2> QED BY <1>0, <1>1, <2>1, HandledStays DEF LeakInv
<1>4. GivenOnce'
  BY <1>1, <1>2, GivenOnceStays, NodeKinds DEF LeakInv
<1>5. NoFrameLeaks'
  BY <1>1, HoldersStay DEF LeakInv
<1> QED BY <1>3, <1>4, <1>5 DEF LeakInv

LEMMA PostFrameLeak ==
  ASSUME FlowInv, MutexInv, LeakInv, NEW n \in Feeders, PostFrame(n)
  PROVE  LeakInv'
<1>0. StateTypes /\ n \in Nodes
  BY NodeKinds DEF FlowInv
<1>1. /\ Move(n, "post", "forward")
      /\ UNCHANGED <<refs, item, out, kept, inbox, todo>>
  BY DEF PostFrame, frameVars
<1>2. /\ pc'[n] = "forward"
      /\ \A s \in Nodes : s # n => pc'[s] = pc[s]
  BY <1>0, <1>1, MoveEffect
<1>3. HandledInv'
  <2>1. item'[n] # None => n \in Receivers /\ "forward" \in Handling
    BY <1>0, <1>1 DEF LeakInv, HandledInv, Handling
  <2> QED BY <1>0, <1>1, <2>1, HandledStays DEF LeakInv
<1>4. GivenOnce'
  BY <1>1, <1>2, GivenOnceStays, NodeKinds DEF LeakInv
<1>5. NoFrameLeaks'
  BY <1>1, HoldersStay DEF LeakInv
<1> QED BY <1>3, <1>4, <1>5 DEF LeakInv

LEMMA FinishForwardLeak ==
  ASSUME FlowInv, MutexInv, LeakInv, NEW n \in Feeders, FinishForward(n)
  PROVE  LeakInv'
<1>0. StateTypes /\ n \in Nodes /\ refs \in [Frames -> Int] /\ None \notin Frames
  BY NodeKinds, FramesAssumption DEF FlowInv
<1>1. /\ todo[n] = {} /\ Move(n, "forward", Resume(n)) /\ Release({out[n]})
      /\ out' = [out EXCEPT ![n] = None]
      /\ UNCHANGED <<item, kept, inbox, todo>>
  BY DEF FinishForward, queueVars
<1>2. /\ pc[n] = "forward" /\ pc'[n] = Resume(n)
      /\ \A s \in Nodes : s # n => pc'[s] = pc[s]
      /\ out'[n] = None
      /\ \A s \in Feeders : s # n => out'[s] = out[s]
  BY <1>0, <1>1, MoveEffect DEF StateTypes
<1>3. /\ Resume(n) # "lock"
      /\ item[n] # None /\ n \in Receivers => Resume(n) \in Handling
  BY NodesAssumption DEF Resume, Handling, Receivers
<1>4. HandledInv'
  <2>1. item'[n] # None => n \in Receivers /\ Resume(n) \in Handling
    BY <1>0, <1>1, <1>3 DEF LeakInv, HandledInv
  <2> QED BY <1>0, <1>1, <1>2, <2>1, HandledStays DEF LeakInv
<1>5. GivenOnce'
  BY <1>1, <1>2, <1>3, GivenOnceStays, NodeKinds DEF LeakInv
<1>6. NoFrameLeaks'
  <2> SUFFICES ASSUME NEW f \in Frames PROVE refs'[f] <= Cardinality(Holders(f)')
    BY DEF NoFrameLeaks
  <2>1. /\ refs[f] \in Int /\ refs'[f] \in Int
        /\ refs'[f] = IF f = out[n] THEN refs[f] - 1 ELSE refs[f]
    BY <1>0, <1>1, ReleaseEffect
  <2>2. CASE f = out[n]
    <3>1. StillHeld(f, {<<"out", n>>}, {})
      BY <1>1, <1>2 DEF StillHeld
    <3>2. refs'[f] <= refs[f] - 1
      BY <2>1, <2>2
    <3> QED BY <2>1, <3>1, <3>2, CountStays DEF LeakInv
  <2>3. CASE f # out[n]
    <3>1. StillHeld(f, {}, {})
      BY <1>1, <1>2, <2>3 DEF StillHeld
    <3>2. refs'[f] <= refs[f]
      BY <2>1, <2>3
    <3> QED BY <2>1, <3>1, <3>2, CountStays DEF LeakInv
  <2> QED BY <2>2, <2>3
<1> QED BY <1>4, <1>5, <1>6 DEF LeakInv


LEMMA EnqueueFrameLeak ==
  ASSUME FlowInv, MutexInv, LeakInv, NEW n \in Feeders, EnqueueFrame(n)
  PROVE  LeakInv'
<1>0. /\ StateTypes /\ n \in Nodes /\ refs \in [Frames -> Int] /\ None \notin Frames
  BY NodeKinds, FramesAssumption DEF FlowInv
<1>1. PICK s \in todo[n] :
        /\ Move(n, "forward", "post")
        /\ refs' = [refs EXCEPT ![out[n]] = @ + 1]
        /\ inbox' = [inbox EXCEPT ![s] = Append(@, out[n])]
        /\ todo' = [todo EXCEPT ![n] = @ \ {s}]
        /\ UNCHANGED <<maker, out, item, kept>>
  BY DEF EnqueueFrame
<1>2. /\ s \in Receivers /\ s \in Nodes
      /\ pc[n] = "forward" /\ pc'[n] = "post" /\ Forwarding(n)
      /\ \A r \in Nodes : r # n => pc'[r] = pc[r]
      /\ todo'[n] = todo[n] \ {s}
      /\ \A r \in Feeders : r # n => todo'[r] = todo[r]
  BY <1>0, <1>1, MoveEffect, NodeKinds DEF StateTypes, Forwarding
<1>3. /\ out[n] \in Frames /\ maker[out[n]] = n /\ ~Contains(inbox[s], out[n])
      /\ \A m \in Feeders : m # n /\ Forwarding(m) => out[m] # out[n]
  BY <1>1, <1>2 DEF FlowInv, ForwardedFrameIsNew
<1>4. /\ \A r \in Nodes : r # s => inbox'[r] = inbox[r]
      /\ \A f : Contains(inbox'[s], f) <=> Contains(inbox[s], f) \/ f = out[n]
  <2>1. /\ inbox[s] \in Seq(Messagable) /\ out[n] \in Messagable
        /\ inbox'[s] = Append(inbox[s], out[n])
    BY <1>0, <1>1, <1>2, <1>3 DEF StateTypes, Messagable
  <2>2. \A f : Contains(inbox'[s], f) <=> Contains(inbox[s], f) \/ f = out[n]
    BY <2>1, AppendToQueue
  <2> QED BY <1>0, <1>1, <2>2 DEF StateTypes
<1>5. HandledInv'
  <2>1. item'[n] # None => n \in Receivers /\ "post" \in Handling
    BY <1>0, <1>1 DEF LeakInv, HandledInv, Handling
  <2> QED BY <1>0, <1>1, <2>1, HandledStays DEF LeakInv
<1>6. GivenOnce'
  <2> SUFFICES ASSUME NEW r \in Sinks
               PROVE  /\ item[r] \notin kept[r]
                      /\ \A f \in Frames : Contains(inbox'[r], f) => f \notin kept[r] /\ f # item[r]
                      /\ \A m \in Feeders : pc'[m] = "lock" \/ r \in todo'[m] =>
                           out[m] \notin kept[r] /\ out[m] # item[r]
    BY <1>1 DEF GivenOnce
  <2>1. /\ item[r] \notin kept[r]
        /\ \A f \in Frames : Contains(inbox[r], f) => f \notin kept[r] /\ f # item[r]
        /\ \A m \in Feeders : pc[m] = "lock" \/ r \in todo[m] =>
             out[m] \notin kept[r] /\ out[m] # item[r]
    BY DEF LeakInv, GivenOnce
  <2>2. \A m \in Feeders : pc'[m] = "lock" \/ r \in todo'[m] => pc[m] = "lock" \/ r \in todo[m]
    BY <1>2, NodeKinds
  <2>3. \A f \in Frames : Contains(inbox'[r], f) => f \notin kept[r] /\ f # item[r]
    BY <1>1, <1>4, <2>1, NodeKinds
  <2> QED BY <2>1, <2>2, <2>3
<1>7. NoFrameLeaks'
  <2> SUFFICES ASSUME NEW f \in Frames PROVE refs'[f] <= Cardinality(Holders(f)')
    BY DEF NoFrameLeaks
  <2>1. /\ refs[f] \in Int /\ refs'[f] \in Int
        /\ refs'[f] = IF f = out[n] THEN refs[f] + 1 ELSE refs[f]
    BY <1>0, <1>1, <1>3
  <2>2. \A r \in Nodes : Contains(inbox[r], f) => Contains(inbox'[r], f)
    BY <1>4
  <2>3. CASE f = out[n]
    <3>1. <<"queue", s>> \notin Holders(f)
      BY <1>3, <2>3, HoldersKnown
    <3>2. Contains(inbox'[s], f)
      BY <1>4, <2>3
    <3>3. <<"queue", s>> \in Holders(f)'
      BY <1>2, <3>2 DEF Holders, InQueue, Contains
    <3>4. StillHeld(f, {}, {<<"queue", s>>})
      BY <1>1, <2>2, <3>3 DEF StillHeld
    <3>5. refs'[f] <= refs[f] + 1
      BY <2>1, <2>3
    <3> QED BY <2>1, <3>1, <3>4, <3>5, CountStays DEF LeakInv
  <2>4. CASE f # out[n]
    <3>1. StillHeld(f, {}, {})
      BY <1>1, <2>2 DEF StillHeld
    <3>2. refs'[f] <= refs[f]
      BY <2>1, <2>4
    <3> QED BY <2>1, <3>1, <3>2, CountStays DEF LeakInv
  <2> QED BY <2>3, <2>4
<1> QED BY <1>5, <1>6, <1>7 DEF LeakInv

LEMMA EmitLeak ==
  ASSUME FlowInv, MutexInv, LeakInv, NEW n \in Feeders,
         NEW from \in {"capture", "encode", "flush"}, Move(n, from, "lock"), Emit(n),
         UNCHANGED <<queueVars, item, kept>>
  PROVE  LeakInv'
<1>0. /\ StateTypes /\ n \in Nodes /\ refs \in [Frames -> Int] /\ None \notin Frames
  BY NodeKinds, FramesAssumption DEF FlowInv
<1>1. PICK f \in Frames : /\ refs[f] = 0 /\ refs' = [refs EXCEPT ![f] = 1]
                          /\ out' = [out EXCEPT ![n] = f]
                          /\ UNCHANGED <<todo, inbox, item, kept>>
  BY DEF Emit, queueVars
<1>2. /\ pc[n] = from /\ pc'[n] = "lock" /\ out'[n] = f
      /\ \A s \in Nodes : s # n => pc'[s] = pc[s]
      /\ \A s \in Feeders : s # n => out'[s] = out[s]
  BY <1>0, <1>1, MoveEffect DEF StateTypes
<1>3. /\ \A s \in Nodes : ~Contains(inbox[s], f) /\ item[s] # f
      /\ \A s \in Feeders : out[s] # f
      /\ \A s \in Sinks : f \notin kept[s]
  <2>1. Cardinality(Holders(f)) <= 0
    BY <1>1 DEF FlowInv, HeldFramesLive
  <2>2. Holders(f) = {}
    BY <2>1, HoldersNow, NoCountNoHolder
  <2> QED BY <2>2, HoldersKnown
<1>4. out[n] = None
  BY <1>2 DEF LeakInv, HandledInv, Forwarding
<1>5. HandledInv'
  <2>1. item'[n] # None => n \in Receivers /\ "lock" \in Handling
    BY <1>0, <1>1 DEF LeakInv, HandledInv, Handling
  <2> QED BY <1>0, <1>1, <1>2, <2>1, HandledStays DEF LeakInv
<1>6. GivenOnce'
  <2> SUFFICES ASSUME NEW s \in Sinks
               PROVE  /\ item[s] \notin kept[s]
                      /\ \A g \in Frames : Contains(inbox[s], g) => g \notin kept[s] /\ g # item[s]
                      /\ \A m \in Feeders : pc'[m] = "lock" \/ s \in todo[m] =>
                           out'[m] \notin kept[s] /\ out'[m] # item[s]
    BY <1>1 DEF GivenOnce
  <2> QED BY <1>2, <1>3, NodeKinds DEF LeakInv, GivenOnce
<1>7. NoFrameLeaks'
  <2> SUFFICES ASSUME NEW g \in Frames PROVE refs'[g] <= Cardinality(Holders(g)')
    BY DEF NoFrameLeaks
  <2>1. /\ refs[g] \in Int /\ refs'[g] \in Int
        /\ refs'[g] = IF g = f THEN refs[g] + 1 ELSE refs[g]
    BY <1>0, <1>1
  <2>2. \A s \in Feeders : out[s] = g => out'[s] = g
    BY <1>0, <1>2, <1>4
  <2>3. CASE g = f
    <3>1. <<"out", n>> \notin Holders(g) /\ <<"out", n>> \in Holders(g)'
      BY <1>2, <1>3, <2>3, HoldersKnown DEF Holders
    <3>2. StillHeld(g, {}, {<<"out", n>>})
      BY <1>1, <2>2, <3>1 DEF StillHeld
    <3>3. refs'[g] <= refs[g] + 1
      BY <2>1, <2>3
    <3> QED BY <2>1, <3>1, <3>2, <3>3, CountStays DEF LeakInv
  <2>4. CASE g # f
    <3>1. StillHeld(g, {}, {})
      BY <1>1, <2>2 DEF StillHeld
    <3>2. refs'[g] <= refs[g]
      BY <2>1, <2>4
    <3> QED BY <2>1, <3>1, <3>2, CountStays DEF LeakInv
  <2> QED BY <2>3, <2>4
<1> QED BY <1>5, <1>6, <1>7 DEF LeakInv


(* A step of a thread that takes no frame and gives none back. *)
LEMMA MoveLeak ==
  ASSUME FlowInv, MutexInv, LeakInv, NEW n \in Nodes, NEW from, NEW to, Move(n, from, to),
         from \notin {"lock", "forward", "post"}, to # "lock",
         item[n] # None => to \in Handling,
         UNCHANGED <<refs, item, out, todo, kept>>,
         \A s \in Nodes, f \in Frames : Contains(inbox'[s], f) <=> Contains(inbox[s], f)
  PROVE  LeakInv'
<1>0. StateTypes
  BY DEF FlowInv
<1>1. /\ pc[n] = from /\ pc'[n] = to
      /\ \A s \in Nodes : s # n => pc'[s] = pc[s]
  BY <1>0, MoveEffect
<1>2. HandledInv'
  <2>1. /\ item'[n] # None => n \in Receivers /\ to \in Handling
        /\ n \in Feeders => out'[n] = None
    BY <1>1 DEF LeakInv, HandledInv, Forwarding
  <2> QED BY <1>0, <2>1, HandledStays DEF LeakInv
<1>3. GivenOnce'
  <2>1. \A m \in Feeders : pc'[m] = "lock" => pc[m] = "lock"
    BY <1>1, NodeKinds
  <2> QED BY <2>1, GivenOnceStays, NodeKinds DEF LeakInv
<1>4. NoFrameLeaks'
  BY HoldersStay DEF LeakInv
<1> QED BY <1>2, <1>3, <1>4 DEF LeakInv

(* A step of a thread that gives references back and does not forward. *)
LEMMA LetGoLeak ==
  ASSUME FlowInv, LeakInv, NEW n \in Nodes, NEW from, NEW to, Move(n, from, to),
         from \notin {"lock", "forward", "post"}, UNCHANGED out,
         item'[n] = None, \A s \in Nodes : s # n => item'[s] = item[s],
         GivenOnce', NEW fs, Release(fs),
         \A f \in Frames :
           \/ StillHeld(f, {}, {})
           \/ \E h : f \in fs /\ StillHeld(f, {h}, {})
           \/ \E h, g : g \notin Holders(f) /\ StillHeld(f, {h}, {g})
  PROVE  LeakInv'
<1>0. StateTypes /\ refs \in [Frames -> Int]
  BY DEF FlowInv
<1>1. pc[n] = from
  BY <1>0, MoveEffect
<1>2. HandledInv'
  <2>1. n \in Feeders => out'[n] = None
    BY <1>1 DEF LeakInv, HandledInv, Forwarding
  <2> QED BY <1>0, <2>1, HandledStays DEF LeakInv
<1>3. NoFrameLeaks'
  <2> SUFFICES ASSUME NEW f \in Frames PROVE refs'[f] <= Cardinality(Holders(f)')
    BY DEF NoFrameLeaks
  <2>1. /\ refs[f] \in Int /\ refs'[f] \in Int
        /\ refs'[f] = IF f \in fs THEN refs[f] - 1 ELSE refs[f]
    BY <1>0, ReleaseEffect
  <2>2. /\ refs'[f] <= refs[f]
        /\ f \in fs => refs'[f] <= refs[f] - 1
    BY <2>1
  <2> QED BY <2>1, <2>2, CountStays DEF LeakInv
<1> QED BY <1>2, <1>3 DEF LeakInv

LEMMA CommandTaken ==
  ASSUME FlowInv, NEW n \in Nodes, inbox[n] # << >>, Head(inbox[n]) \notin Frames,
         inbox' = [inbox EXCEPT ![n] = Tail(@)]
  PROVE  \A s \in Nodes, f \in Frames : Contains(inbox'[s], f) <=> Contains(inbox[s], f)
BY TakeEffect, TakeKeeps

LEMMA PollLeak ==
  ASSUME FlowInv, MutexInv, LeakInv, NEW n \in Sources, Poll(n)
  PROVE  LeakInv'
<1>0. StateTypes /\ n \in Nodes
  BY NodeKinds DEF FlowInv
<1>1. UNCHANGED <<refs, item, out, todo, kept>>
  BY DEF Poll, frameVars, feedVars
<1>2. PICK to \in {"exited", "capture", "poll"} : Move(n, "poll", to)
  BY DEF Poll
<1>3. item[n] = None
  BY <1>0, <1>2, MoveEffect DEF LeakInv, HandledInv, Handling
<1>4. \A s \in Nodes, f \in Frames : Contains(inbox'[s], f) <=> Contains(inbox[s], f)
  <2>1. CASE /\ inbox[n] # << >> /\ inbox' = [inbox EXCEPT ![n] = Tail(@)]
             /\ Head(inbox[n]) \in Commands
    <3>1. Head(inbox[n]) \notin Frames
      BY <2>1, FramesAssumption
    <3> QED BY <1>0, <2>1, <3>1, CommandTaken
  <2>2. CASE UNCHANGED inbox
    BY <2>2
  <2> QED BY <2>1, <2>2 DEF Poll, Commands
<1> QED BY <1>0, <1>1, <1>2, <1>3, <1>4, MoveLeak

LEMMA MakerLeak ==
  ASSUME FlowInv, MutexInv, LeakInv, NEW n \in Feeders, Capture(n) \/ Encode(n) \/ Flush(n)
  PROVE  LeakInv'
<1>0. /\ StateTypes /\ n \in Nodes /\ UNCHANGED <<queueVars, inbox, item, kept>>
  BY NodeKinds DEF FlowInv, Capture, Encode, Flush, queueVars
<1>1. ASSUME NEW from \in {"capture", "encode", "flush"}, Move(n, from, "lock"), Emit(n)
      PROVE  LeakInv'
  BY <1>0, <1>1, EmitLeak
<1>2. ASSUME NEW from, NEW to, Move(n, from, to), UNCHANGED <<frameVars, feedVars>>,
             <<from, to>> \in {<<"capture", "poll">>, <<"encode", "release">>, <<"flush", "drain">>}
      PROVE  LeakInv'
  <2>1. pc[n] = from
    BY <1>0, <1>2, MoveEffect
  <2>2. /\ from \notin {"lock", "forward", "post"} /\ to # "lock"
        /\ from \in Handling => to \in Handling
    BY <1>2 DEF Handling
  <2>3. item[n] # None => to \in Handling
    BY <1>0, <2>1, <2>2 DEF LeakInv, HandledInv
  <2>4. UNCHANGED <<refs, item, out, todo, kept>>
    BY <1>0, <1>2 DEF frameVars, feedVars
  <2>5. \A s \in Nodes, f \in Frames : Contains(inbox'[s], f) <=> Contains(inbox[s], f)
    BY <1>0
  <2> QED BY <1>0, <1>2, <2>2, <2>3, <2>4, <2>5, MoveLeak
<1> QED BY <1>1, <1>2 DEF Capture, Encode, Flush


LEMMA ReceiveLeak ==
  ASSUME FlowInv, MutexInv, LeakInv, NEW n \in Receivers, Receive(n)
  PROVE  LeakInv'
<1> DEFINE m == Head(inbox[n])
<1>0. /\ StateTypes /\ n \in Nodes /\ refs \in [Frames -> Int] /\ None \notin Frames
      /\ inbox[n] # << >> /\ inbox' = [inbox EXCEPT ![n] = Tail(@)]
      /\ Move(n, "wait", Handler(n, m)) /\ UNCHANGED <<refs, out, todo, kept>>
  BY NodeKinds, FramesAssumption DEF FlowInv, Receive, frameVars, feedVars
<1>1. /\ m \in Messagable /\ Contains(inbox[n], m)
      /\ \A s \in Nodes, f \in Frames : Contains(inbox'[s], f) => Contains(inbox[s], f)
      /\ m \in Frames => ~Contains(inbox'[n], m)
      /\ \A s \in Nodes, f \in Frames : Contains(inbox[s], f) =>
           Contains(inbox'[s], f) \/ (s = n /\ f = m)
  BY <1>0, TakeEffect, TakeKeeps
<1>2. /\ pc[n] = "wait" /\ pc'[n] = Handler(n, m) /\ item[n] = None
      /\ \A s \in Nodes : s # n => pc'[s] = pc[s]
  <2>1. pc[n] = "wait" /\ pc'[n] = Handler(n, m) /\ \A s \in Nodes : s # n => pc'[s] = pc[s]
    BY <1>0, MoveEffect
  <2> QED BY <1>0, <2>1 DEF LeakInv, HandledInv, Handling
<1>3. /\ Handler(n, m) \notin {"lock", "forward", "post"}
      /\ m \notin Commands => Handler(n, m) \in Handling
  BY DEF Handler, Handling, Commands
<1>4. CASE m \notin Frames
  <2>1. UNCHANGED item
    BY <1>4 DEF Receive
  <2>2. \A s \in Nodes, f \in Frames : Contains(inbox'[s], f) <=> Contains(inbox[s], f)
    BY <1>0, <1>4, CommandTaken
  <2>3. "wait" \notin {"lock", "forward", "post"} /\ Handler(n, m) # "lock"
    BY <1>3
  <2> HIDE DEF m
  <2> QED BY <1>0, <1>2, <2>1, <2>2, <2>3, MoveLeak
<1>5. CASE m \in Frames
  <2>1. /\ item' = [item EXCEPT ![n] = m] /\ item'[n] = m
        /\ \A s \in Nodes : s # n => item'[s] = item[s]
    BY <1>0, <1>5 DEF Receive, StateTypes
  <2>2. Handler(n, m) \in Handling
    BY <1>3, <1>5, FramesAssumption
  <2> HIDE DEF m
  <2>3. HandledInv'
    <3>1. n \in Feeders => out'[n] = None
      BY <1>0, <1>2 DEF LeakInv, HandledInv, Forwarding
    <3> QED BY <1>0, <2>1, <2>2, <3>1, HandledStays DEF LeakInv
  <2>4. GivenOnce'
    <3> SUFFICES ASSUME NEW s \in Sinks
                 PROVE  /\ item'[s] \notin kept[s]
                        /\ \A f \in Frames : Contains(inbox'[s], f) => f \notin kept[s] /\ f # item'[s]
                        /\ \A r \in Feeders : pc'[r] = "lock" \/ s \in todo[r] =>
                             out[r] \notin kept[s] /\ out[r] # item'[s]
      BY <1>0 DEF GivenOnce
    <3>1. /\ item[s] \notin kept[s]
          /\ \A f \in Frames : Contains(inbox[s], f) => f \notin kept[s] /\ f # item[s]
          /\ \A r \in Feeders : pc[r] = "lock" \/ s \in todo[r] =>
               out[r] \notin kept[s] /\ out[r] # item[s]
      BY DEF LeakInv, GivenOnce
    <3>2. \A r \in Feeders : pc'[r] = "lock" => pc[r] = "lock"
      BY <1>2, <1>3, NodeKinds
    <3>3. \A r \in Feeders : pc[r] = "lock" \/ s \in todo[r] => ~Contains(inbox[s], out[r])
      BY NodesAssumption DEF FlowInv, ForwardedFrameIsNew, MutexInv, Forwarding, Receivers
    <3>4. CASE s = n
      <4>1. item'[s] = m /\ Contains(inbox[s], m) /\ ~Contains(inbox'[s], m)
        BY <1>1, <1>5, <2>1, <3>4
      <4>2. m \notin kept[s]
        BY <1>5, <3>1, <4>1
      <4>3. \A f \in Frames : Contains(inbox'[s], f) => f \notin kept[s]
        BY <1>1, <3>1, NodeKinds
      <4> QED BY <3>1, <3>2, <3>3, <4>1, <4>2, <4>3
    <3>5. CASE s # n
      BY <1>1, <2>1, <3>1, <3>2, <3>5, NodeKinds
    <3> QED BY <3>4, <3>5
  <2>5. NoFrameLeaks'
    <3> SUFFICES ASSUME NEW f \in Frames PROVE refs'[f] <= Cardinality(Holders(f)')
      BY DEF NoFrameLeaks
    <3>1. refs[f] \in Int /\ refs'[f] \in Int /\ refs'[f] <= refs[f]
      BY <1>0
    <3>2. \A s \in Nodes : item[s] = f => item'[s] = f
      BY <1>0, <1>2, <2>1
    <3>3. CASE f = m
      <4>0. item[n] # f
        BY <1>0, <1>2
      <4>1. <<"item", n>> \notin Holders(f)
        BY <4>0, HoldersKnown
      <4>2. <<"item", n>> \in Holders(f)'
        BY <1>0, <2>1, <3>3 DEF Holders
      <4>3. StillHeld(f, {<<"queue", n>>}, {<<"item", n>>})
        BY <1>0, <1>1, <3>2, <4>2 DEF StillHeld
      <4> QED BY <3>1, <4>1, <4>3, CountStays DEF LeakInv
    <3>4. CASE f # m
      <4>1. StillHeld(f, {}, {})
        BY <1>0, <1>1, <3>2, <3>4 DEF StillHeld
      <4> QED BY <3>1, <4>1, CountStays DEF LeakInv
    <3> QED BY <3>3, <3>4
  <2> QED BY <2>3, <2>4, <2>5 DEF LeakInv
<1> QED BY <1>4, <1>5

LEMMA ReleaseItemLeak ==
  ASSUME FlowInv, MutexInv, LeakInv, NEW n \in Encoders, ReleaseItem(n)
  PROVE  LeakInv'
<1>0. StateTypes /\ n \in Nodes /\ n \notin Sinks
  BY NodeKinds DEF FlowInv
<1>1. /\ Move(n, "release", "wait") /\ Release({item[n]})
      /\ item' = [item EXCEPT ![n] = None]
      /\ UNCHANGED <<inbox, out, todo, kept>>
  BY DEF ReleaseItem, queueVars, feedVars
<1>2. /\ item'[n] = None
      /\ \A s \in Nodes : s # n => item'[s] = item[s]
      /\ \A m \in Feeders : pc'[m] = "lock" => pc[m] = "lock"
  BY <1>0, <1>1, MoveEffect, NodeKinds DEF StateTypes
<1>3. GivenOnce'
  BY <1>0, <1>1, <1>2, GivenOnceStays, NodeKinds DEF LeakInv
<1> DEFINE fs == {item[n]}
<1>4. ASSUME NEW f \in Frames
      PROVE  StillHeld(f, {}, {}) \/ \E h : f \in fs /\ StillHeld(f, {h}, {})
  <2>1. CASE f = item[n]
    <3>1. StillHeld(f, {<<"item", n>>}, {})
      BY <1>1, <1>2 DEF StillHeld
    <3>2. f \in fs
      BY <2>1
    <3> HIDE DEF fs
    <3> QED BY <3>1, <3>2
  <2>2. CASE f # item[n]
    <3>1. StillHeld(f, {}, {})
      BY <1>1, <1>2, <2>2 DEF StillHeld
    <3> QED BY <3>1
  <2> QED BY <2>1, <2>2
<1>5. Release(fs)
  BY <1>1
<1>6. "release" \notin {"lock", "forward", "post"} /\ UNCHANGED out
  BY <1>1
<1> HIDE DEF fs
<1> QED BY <1>0, <1>1, <1>2, <1>3, <1>4, <1>5, <1>6, LetGoLeak

LEMMA DrainLeak ==
  ASSUME FlowInv, MutexInv, LeakInv, NEW n \in Receivers, Drain(n)
  PROVE  LeakInv'
<1>0. StateTypes /\ n \in Nodes
  BY NodeKinds DEF FlowInv
<1>1. UNCHANGED <<out, todo, item, kept>>
  BY DEF Drain, feedVars
<1>2. PICK to \in {"drain", "exited"} : Move(n, "drain", to)
  BY DEF Drain
<1>3. /\ item[n] = None
      /\ \A m \in Feeders : pc'[m] = "lock" => pc[m] = "lock"
  <2>1. pc[n] = "drain" /\ pc'[n] = to /\ \A s \in Nodes : s # n => pc'[s] = pc[s]
    BY <1>0, <1>2, MoveEffect
  <2> QED BY <1>0, <1>2, <2>1, NodeKinds DEF LeakInv, HandledInv, Handling
<1>4. "drain" \notin {"lock", "forward", "post"} /\ to # "lock"
  OBVIOUS
<1>5. CASE UNCHANGED <<refs, inbox>>
  BY <1>0, <1>1, <1>2, <1>3, <1>4, <1>5, MoveLeak
<1>6. CASE /\ inbox[n] # << >> /\ inbox' = [inbox EXCEPT ![n] = Tail(@)]
           /\ Release({Head(inbox[n])} \cap Frames)
  <2>1. /\ \A s \in Nodes, f \in Frames : Contains(inbox'[s], f) => Contains(inbox[s], f)
        /\ \A s \in Nodes, f \in Frames : Contains(inbox[s], f) =>
             Contains(inbox'[s], f) \/ (s = n /\ f = Head(inbox[n]))
    BY <1>0, <1>6, TakeEffect, TakeKeeps
  <2>2. GivenOnce'
    BY <1>1, <1>3, <2>1, GivenOnceStays, NodeKinds DEF LeakInv
  <2>3. ASSUME NEW f \in Frames
        PROVE  \/ StillHeld(f, {}, {})
               \/ \E h : f \in {Head(inbox[n])} \cap Frames /\ StillHeld(f, {h}, {})
    <3>1. CASE f = Head(inbox[n])
      <4>1. StillHeld(f, {<<"queue", n>>}, {})
        BY <1>1, <2>1 DEF StillHeld
      <4> QED BY <3>1, <4>1
    <3>2. CASE f # Head(inbox[n])
      <4>1. StillHeld(f, {}, {})
        BY <1>1, <2>1, <3>2 DEF StillHeld
      <4> QED BY <4>1
    <3> QED BY <3>1, <3>2
  <2> QED BY <1>0, <1>1, <1>2, <1>3, <1>4, <1>6, <2>2, <2>3, LetGoLeak
<1> QED BY <1>5, <1>6 DEF Drain

LEMMA StopSinkLeak ==
  ASSUME FlowInv, MutexInv, LeakInv, NEW n \in Sinks, StopSink(n)
  PROVE  LeakInv'
<1>0. StateTypes /\ n \in Nodes
  BY NodeKinds DEF FlowInv
<1>1. /\ Release(kept[n]) /\ kept' = [kept EXCEPT ![n] = {}]
      /\ UNCHANGED <<inbox, out, todo, item>>
  BY DEF StopSink, queueVars, feedVars
<1>2. PICK from \in {"finish", "pause"}, to \in {"drain", "wait"} : Move(n, from, to)
  BY DEF StopSink
<1>3. /\ item[n] = None
      /\ \A m \in Feeders : pc'[m] = "lock" => pc[m] = "lock"
  <2>1. pc[n] = from /\ pc'[n] = to /\ \A s \in Nodes : s # n => pc'[s] = pc[s]
    BY <1>0, <1>2, MoveEffect
  <2> QED BY <1>0, <1>2, <2>1, NodeKinds DEF LeakInv, HandledInv, Handling
<1>4. /\ kept'[n] = {}
      /\ \A s \in Sinks : s # n => kept'[s] = kept[s]
  BY <1>0, <1>1 DEF StateTypes
<1>5. GivenOnce'
  BY <1>1, <1>3, <1>4, GivenOnceStays, NodeKinds DEF LeakInv
<1>6. ASSUME NEW f \in Frames
      PROVE  StillHeld(f, {}, {}) \/ \E h : f \in kept[n] /\ StillHeld(f, {h}, {})
  <2>1. CASE f \in kept[n]
    <3>1. StillHeld(f, {<<"kept", n>>}, {})
      BY <1>1, <1>4 DEF StillHeld
    <3> QED BY <2>1, <3>1
  <2>2. CASE f \notin kept[n]
    <3>1. StillHeld(f, {}, {})
      BY <1>1, <1>4, <2>2 DEF StillHeld
    <3> QED BY <3>1
  <2> QED BY <2>1, <2>2
<1>7. from \notin {"lock", "forward", "post"}
  OBVIOUS
<1> QED BY <1>0, <1>1, <1>2, <1>3, <1>5, <1>6, <1>7, LetGoLeak

LEMMA ConsumeLeak ==
  ASSUME FlowInv, MutexInv, LeakInv, NEW n \in Sinks, Consume(n)
  PROVE  LeakInv'
<1>0. StateTypes /\ n \in Nodes /\ n \in Receivers /\ None \notin Frames
  BY NodeKinds, FramesAssumption DEF FlowInv, Receivers
<1>1. /\ Move(n, "consume", "wait") /\ item' = [item EXCEPT ![n] = None]
      /\ UNCHANGED <<inbox, out, todo>>
  BY DEF Consume, queueVars, feedVars
<1>2. PICK ks \in KeptAfter(n) : /\ kept' = [kept EXCEPT ![n] = ks]
                                 /\ Release((kept[n] \cup {item[n]}) \ ks)
  BY DEF Consume
<1>3. /\ pc[n] = "consume" /\ item[n] \in Frames /\ item[n] \notin kept[n]
      /\ kept[n] \subseteq Frames /\ ks \subseteq kept[n] \cup {item[n]}
      /\ \A m \in Feeders : pc'[m] = "lock" => pc[m] = "lock"
  BY <1>0, <1>1, MoveEffect, KeptAreHeld, NodeKinds
     DEF FlowInv, ConsumerHasFrame, StateTypes, LeakInv, GivenOnce
<1>4. /\ kept'[n] = ks /\ item'[n] = None
      /\ \A s \in Sinks : s # n => kept'[s] = kept[s]
      /\ \A s \in Nodes : s # n => item'[s] = item[s]
  BY <1>0, <1>1, <1>2 DEF StateTypes
<1>5. GivenOnce'
  <2> SUFFICES ASSUME NEW s \in Sinks
               PROVE  /\ item'[s] \notin kept'[s]
                      /\ \A f \in Frames : Contains(inbox[s], f) => f \notin kept'[s] /\ f # item'[s]
                      /\ \A m \in Feeders : pc'[m] = "lock" \/ s \in todo[m] =>
                           out[m] \notin kept'[s] /\ out[m] # item'[s]
    BY <1>1 DEF GivenOnce
  <2>1. /\ item[s] \notin kept[s]
        /\ \A f \in Frames : Contains(inbox[s], f) => f \notin kept[s] /\ f # item[s]
        /\ \A m \in Feeders : pc[m] = "lock" \/ s \in todo[m] =>
             out[m] \notin kept[s] /\ out[m] # item[s]
    BY DEF LeakInv, GivenOnce
  <2>2. \A m \in Feeders : pc[m] = "lock" \/ s \in todo[m] => out[m] \in Frames
    BY DEF FlowInv, ForwardedFrameIsNew, Forwarding, MutexInv
  <2>3. CASE s = n
    BY <1>0, <1>3, <1>4, <2>1, <2>2, <2>3
  <2>4. CASE s # n
    BY <1>3, <1>4, <2>1, <2>4, NodeKinds
  <2> QED BY <2>3, <2>4
<1> DEFINE fs == (kept[n] \cup {item[n]}) \ ks
<1>6. ASSUME NEW f \in Frames
      PROVE  \/ StillHeld(f, {}, {})
             \/ \E h : f \in fs /\ StillHeld(f, {h}, {})
             \/ \E h, g : g \notin Holders(f) /\ StillHeld(f, {h}, {g})
  <2>1. CASE f \in kept[n]
    <3>1. f # item[n]
      BY <1>3, <2>1
    <3>2. CASE f \in ks
      <4>1. StillHeld(f, {}, {})
        BY <1>1, <1>4, <3>1, <3>2 DEF StillHeld
      <4> QED BY <4>1
    <3>3. CASE f \notin ks
      <4>1. StillHeld(f, {<<"kept", n>>}, {})
        BY <1>1, <1>4, <3>1 DEF StillHeld
      <4> QED BY <2>1, <3>3, <4>1
    <3> QED BY <3>2, <3>3
  <2>2. CASE f = item[n]
    <3>1. f \notin kept[n]
      BY <1>3, <2>2
    <3>2. CASE f \in ks
      <4>1. <<"kept", n>> \notin Holders(f)
        BY <3>1, HoldersKnown
      <4>2. <<"kept", n>> \in Holders(f)'
        BY <1>4, <3>2 DEF Holders
      <4>3. StillHeld(f, {<<"item", n>>}, {<<"kept", n>>})
        BY <1>1, <1>4, <3>1, <4>2 DEF StillHeld
      <4> QED BY <4>1, <4>3
    <3>3. CASE f \notin ks
      <4>1. StillHeld(f, {<<"item", n>>}, {})
        BY <1>1, <1>4, <3>1 DEF StillHeld
      <4> QED BY <2>2, <3>3, <4>1
    <3> QED BY <3>2, <3>3
  <2>3. CASE f \notin kept[n] /\ f # item[n]
    <3>1. StillHeld(f, {}, {})
      BY <1>1, <1>4, <2>3 DEF StillHeld
    <3> QED BY <3>1
  <2> QED BY <2>1, <2>2, <2>3
<1>7. "consume" \notin {"lock", "forward", "post"} /\ UNCHANGED out
  BY <1>1
<1>8. Release(fs)
  BY <1>2
<1> HIDE DEF fs
<1> QED BY <1>0, <1>1, <1>4, <1>5, <1>6, <1>7, <1>8, LetGoLeak


(* The phases before a stop. *)
LEMMA StartingPhase ==
  ASSUME FlowInv, StartFlow \/ Starting \/ RestartRecording
  PROVE  Phase' \notin StopPhases
<1>0. ControlTypes
  BY DEF FlowInv
<1> USE DEF SendPhases
<1>1. CASE StartFlow
  <2>1. GoTo("create", 1, {})
    BY <1>1 DEF StartFlow
  <2>2. Phase' = "create"
    BY <1>0, <2>1, GoToEffect
  <2> QED BY <2>2 DEF StopPhases
<1>2. CASE CreateEncoder \/ AllSinksAdded
  <2>1. NextEncoder("create", "addSinks") \/ NextEncoder("addSinks", "startEncoder")
    BY <1>2 DEF CreateEncoder, AllSinksAdded
  <2>2. Phase' \in {"create", "addSinks", "startEncoder"}
    BY <1>0, <2>1, NextEncoderEffect
  <2> QED BY <2>2 DEF StopPhases
<1>3. CASE AddSink
  <2>1. PICK left : GoTo("addSinks", ctl.enc, left)
    BY <1>3 DEF AddSink
  <2>2. Phase' = "addSinks"
    BY <1>0, <2>1, GoToEffect
  <2> QED BY <2>2 DEF StopPhases
<1>4. CASE AllSinksStarted
  <2>a. PICK phase \in {"startEncoder", "startSources"} :
          \E enc, left : GoTo(phase, enc, left)
    BY <1>4 DEF AllSinksStarted
  <2>1. PICK enc, left : GoTo(phase, enc, left)
    BY <2>a
  <2>2. Phase' = phase
    BY <1>0, <2>1, GoToEffect
  <2> QED BY <2>2 DEF StopPhases
<1>5. CASE StartEncoder \/ StartSinks \/ StartSources \/ RestartRecording
  <2>2. ASSUME NEW n, NEW left, NEW m \in {"START", "STOP"},
               NEW back \in {"lockSinks", "startSinks", "startSources", "restarting", "restart"},
               Call(n, m, back, left)
        PROVE  Phase' \notin StopPhases
    <3>1. back \in Backs
      BY DEF Backs
    <3>2. Phase' = back
      BY <1>0, <2>2, <3>1, StartCallEffect
    <3> QED BY <3>2 DEF StopPhases
  <2>3. ASSUME NEW left, NEW phase \in {"running", "restart"}, GoTo(phase, 1, left)
        PROVE  Phase' \notin StopPhases
    <3>1. Phase' = phase
      BY <1>0, <2>3, GoToEffect
    <3> QED BY <3>1 DEF StopPhases
  <2>4. CASE StartEncoder
    <3>1. Call(Encoder, "START", "lockSinks", attached[Encoder])
      BY <2>4 DEF StartEncoder
    <3> QED BY <2>2, <3>1
  <2>5. CASE StartSinks
    <3>1. PICK s \in ctl.left : Call(s, "START", "startSinks", ctl.left \ {s})
      BY <2>5 DEF StartSinks
    <3> QED BY <2>2, <3>1
  <2>6. CASE StartSources
    <3>1. CASE \E s \in ctl.left : Call(s, "START", "startSources", ctl.left \ {s})
      BY <2>2, <3>1
    <3>2. CASE GoTo("running", 1, {})
      BY <2>3, <3>2
    <3> QED BY <2>6, <3>1, <3>2 DEF StartSources
  <2>7. CASE RestartRecording
    <3>1. CASE GoTo("restart", 1, Recorders) \/ GoTo("running", 1, {})
      BY <2>3, <3>1
    <3>2. CASE \E r \in ctl.left : Call(r, "STOP", "restarting", ctl.left \ {r})
      BY <2>2, <3>2
    <3>3. CASE Call(ctl.node, "START", "restart", ctl.left)
      BY <2>2, <3>3
    <3> QED BY <2>7, <3>1, <3>2, <3>3 DEF RestartRecording
  <2> QED BY <1>5, <2>4, <2>5, <2>6, <2>7
<1> QED BY <1>1, <1>2, <1>3, <1>4, <1>5 DEF Starting

LEMMA NothingStops ==
  ASSUME Phase' \notin StopPhases
  PROVE  DeletedInv'
BY DEF DeletedInv, Phase, Sending, StopPhases

(* A command that ends a thread. *)
LEMMA StopCallEffect ==
  ASSUME ControlTypes, NEW n, NEW left,
         NEW back \in {"stopSources", "lockStopSinks", "stopSinks", "stopStreams"},
         Call(n, "STOP_THREAD", back, left)
  PROVE  /\ Phase' = back /\ Encoder' = Encoder /\ ctl'.left = left /\ ctl'.node = n
         /\ ctl'.msg = "STOP_THREAD"
         /\ Sending' <=> pc[n] # "none"
         /\ cpc' = back => pc[n] = "none"
<1>1. back \in Backs /\ back \notin SendPhases
  BY DEF Backs, SendPhases
<1>2. /\ Phase' = back /\ Encoder' = Encoder /\ ctl'.left = left /\ ctl'.node = n
      /\ ctl'.msg = "STOP_THREAD"
  BY <1>1, CallEffect
<1>3. cpc' = IF pc[n] = "none" THEN back ELSE "send"
  BY DEF Call
<1> QED BY <1>1, <1>2, <1>3 DEF Sending, SendPhases

LEMMA StoppingKeepsDeletedInv ==
  ASSUME FlowInv, StopInv, DeletedInv, StopFlow \/ Stopping \/ LockSinksOf
  PROVE  DeletedInv'
<1>0. /\ StateTypes /\ ControlTypes /\ Encoder \in Encoders /\ Encoder \in Feeders
  BY EncoderOrderTypes, NodeKinds DEF FlowInv, ControlTypes, Encoder
<1> USE DEF ThreadsLeave, SendPhases
<1>1. CASE StopFlow \/ StopSource \/ AllSourcesStopped
  <2>1. /\ Phase' \in {"stopSources", "removeEncoder"} /\ cpc' # "lockStopSinks"
        /\ Sending' => ctl'.msg = "STOP_THREAD"
    <3>1. CASE GoTo("stopSources", 1, Sources \ CaptureSources) \/ GoTo("removeEncoder", 1, {})
      BY <1>0, <3>1, GoToEffect
    <3>2. CASE \E s, left : Call(s, "STOP_THREAD", "stopSources", left)
      <4>1. PICK s, left : Call(s, "STOP_THREAD", "stopSources", left)
        BY <3>2
      <4> QED BY <1>0, <4>1, StopCallEffect DEF Phase, Sending
    <3> QED BY <1>1, <3>1, <3>2 DEF StopFlow, StopSource, AllSourcesStopped
  <2> QED BY <2>1 DEF DeletedInv
<1>2. CASE RemoveEncoder
  <2>1. Call(Encoder, "STOP_THREAD", "lockStopSinks", {}) /\ UNCHANGED pc
    BY <1>2 DEF RemoveEncoder
  <2>2. /\ Phase' = "lockStopSinks" /\ Encoder' = Encoder /\ ctl'.msg = "STOP_THREAD"
        /\ cpc' = "lockStopSinks" => pc[Encoder] = "none"
    BY <1>0, <2>1, StopCallEffect
  <2> QED BY <2>1, <2>2 DEF DeletedInv
<1>3. CASE LockSinksOf
  <2>1. /\ cpc \in {"lockSinks", "lockStopSinks"} /\ UNCHANGED <<attached, pc>>
        /\ GoTo(IF cpc = "lockSinks" THEN "startSinks" ELSE "stopSinks", ctl.enc,
                attached[Encoder])
    BY <1>3 DEF LockSinksOf
  <2>2. /\ Phase' = (IF cpc = "lockSinks" THEN "startSinks" ELSE "stopSinks")
        /\ ~Sending' /\ cpc' = Phase' /\ ctl'.left = attached[Encoder]
        /\ Encoder' = Encoder
    BY <1>0, <2>1, GoToEffect DEF Encoder
  <2>3. cpc = "lockStopSinks" => pc[Encoder] = "none"
    BY DEF DeletedInv
  <2> QED BY <2>1, <2>2, <2>3 DEF DeletedInv, Stopped
<1>4. CASE StopSinks
  <2>1. cpc = "stopSinks" /\ UNCHANGED <<attached, pc>>
    BY <1>4 DEF StopSinks
  <2>2. PICK n \in ctl.left : Call(n, "STOP_THREAD", "stopSinks", ctl.left \ {n})
    BY <1>4 DEF StopSinks
  <2>3. /\ Phase' = "stopSinks" /\ Encoder' = Encoder /\ ctl'.left = ctl.left \ {n}
        /\ ctl'.node = n /\ ctl'.msg = "STOP_THREAD" /\ (Sending' <=> pc[n] # "none")
    BY <1>0, <2>2, StopCallEffect
  <2>4. Phase = "stopSinks" /\ ~Sending /\ cpc' # "lockStopSinks"
    BY <2>1, <2>3 DEF Phase, Sending
  <2> QED BY <2>1, <2>3, <2>4 DEF DeletedInv, Stopped
<1>5. CASE DeleteEncoder
  <2>1. /\ Phase' \in {"removeEncoder", "stopStreams"} /\ cpc' = Phase' /\ ~Sending'
        /\ Phase' = "stopStreams" => ctl'.left = Recorders
    <3>1. CASE GoTo("removeEncoder", ctl.enc + 1, {})
      BY <1>0, <3>1, GoToEffect
    <3>2. CASE GoTo("stopStreams", 1, Recorders)
      BY <1>0, <3>2, GoToEffect
    <3> QED BY <1>5, <3>1, <3>2 DEF DeleteEncoder
  <2> QED BY <2>1 DEF DeletedInv, Stopped
<1>6. CASE StopStreams
  <2>1. cpc = "stopStreams" /\ UNCHANGED pc
    BY <1>6 DEF StopStreams
  <2>2. CASE \E n \in ctl.left : Call(n, "STOP_THREAD", "stopStreams", ctl.left \ {n})
    <3>1. PICK n \in ctl.left : Call(n, "STOP_THREAD", "stopStreams", ctl.left \ {n})
      BY <2>2
    <3>2. /\ Phase' = "stopStreams" /\ ctl'.left = ctl.left \ {n}
          /\ ctl'.node = n /\ ctl'.msg = "STOP_THREAD" /\ (Sending' <=> pc[n] # "none")
      BY <1>0, <3>1, StopCallEffect
    <3>3. Phase = "stopStreams" /\ ~Sending /\ cpc' # "lockStopSinks"
      BY <2>1, <3>2 DEF Phase, Sending
    <3> QED BY <2>1, <3>2, <3>3 DEF DeletedInv, Stopped
  <2>3. CASE GoTo("stopped", 1, {})
    <3>1. Phase' = "stopped"
      BY <1>0, <2>3, GoToEffect
    <3> QED BY <3>1, NothingStops DEF StopPhases
  <2> QED BY <1>6, <2>2, <2>3 DEF StopStreams
<1> QED BY <1>1, <1>2, <1>3, <1>4, <1>5, <1>6 DEF Stopping


LEMMA MessagesKeepDeletedInv ==
  ASSUME FlowInv, StopInv, DeletedInv, ControllerSend \/ ControllerPost \/ Join
  PROVE  DeletedInv'
<1>0. /\ StateTypes /\ ControlTypes /\ CommandInv /\ NodeInv
      /\ ctl.back \in Backs /\ Encoder \in Encoders /\ Encoder \in Feeders
  BY EncoderOrderTypes, NodeKinds DEF FlowInv, ControlTypes, Encoder, StopInv
<1> USE DEF ThreadsLeave
<1>1. /\ UNCHANGED <<attached, ctl>> /\ Sending /\ Phase = ctl.back
      /\ cpc' \in {"post", "join", ctl.back}
  BY DEF ControllerSend, ControllerPost, Join, Sending, Phase
<1>2. /\ Phase' = ctl.back /\ Encoder' = Encoder
  BY <1>0, <1>1 DEF Phase, Sending, Backs, Encoder
<1>3. CASE ControllerSend \/ ControllerPost
  <2>1. UNCHANGED pc
    BY <1>3 DEF ControllerSend, ControllerPost
  <2>2. ctl.back \in {"stopSources", "lockStopSinks", "stopSinks", "stopStreams"} => Sending'
    <3>1. ctl.back \in {"stopSources", "lockStopSinks", "stopSinks", "stopStreams"} =>
            ctl.msg = "STOP_THREAD"
      BY <1>1 DEF DeletedInv
    <3> QED BY <1>3, <3>1 DEF ControllerSend, ControllerPost, Sending
  <2>3. cpc' # "lockStopSinks"
    BY <1>1, <2>2 DEF Sending
  <2> QED BY <1>1, <1>2, <2>1, <2>2, <2>3 DEF DeletedInv, Stopped
<1>4. CASE Join
  <2>1. /\ cpc = "join" /\ cpc' = ctl.back /\ pc' = [pc EXCEPT ![ctl.node] = "none"]
    BY <1>4 DEF Join
  <2>2. ~Sending' /\ ctl.msg = "STOP_THREAD"
    BY <1>0, <2>1 DEF Sending, Backs, CommandInv
  <2>3. \A s \in Nodes : pc'[s] = IF s = ctl.node THEN "none" ELSE pc[s]
    BY <1>0, <2>1 DEF StateTypes
  <2>4. \A s \in Nodes : Stopped(s) => Stopped(s)'
    BY <1>1, <2>3 DEF Stopped
  <2>5. attached[Encoder] \subseteq Nodes /\ Recorders \subseteq Nodes /\ Encoder \in Nodes
    BY <1>0, NodeKinds, NodesAssumption DEF StateTypes
  <2>6. ctl.back = "lockStopSinks" => ctl.node = Encoder
    BY <1>0, <1>1 DEF NodeInv
  <2> QED BY <1>1, <1>2, <2>1, <2>2, <2>3, <2>4, <2>5, <2>6 DEF DeletedInv
<1> QED BY <1>3, <1>4

LEMMA ThreadKeepsDeletedInv ==
  ASSUME FlowInv, DeletedInv, NEW n \in Nodes, ThreadEffect(n)
  PROVE  DeletedInv'
<1>0. /\ StateTypes /\ Encoder \in Encoders /\ Encoder \in Feeders
  BY EncoderOrderTypes, NodeKinds DEF FlowInv, ControlTypes, Encoder
<1>1. /\ UNCHANGED <<attached, cpc, ctl>>
      /\ \A s \in Nodes : pc[s] = "none" => pc'[s] = "none"
  BY DEF ThreadEffect
<1>2. Phase' = Phase /\ Encoder' = Encoder /\ (Sending' <=> Sending)
  BY <1>1 DEF Phase, Sending, Encoder
<1>3. \A s \in Nodes : Stopped(s) => Stopped(s)'
  BY <1>1, <1>2 DEF Stopped
<1>4. attached[Encoder] \subseteq Nodes /\ Recorders \subseteq Nodes /\ Encoder \in Nodes
  BY <1>0, NodeKinds, NodesAssumption DEF StateTypes
<1> QED BY <1>1, <1>2, <1>3, <1>4 DEF DeletedInv

(* The controller keeps every reference. *)
LEMMA DeletedQueuesAreEmpty ==
  ASSUME FlowInv, StopInv, EndingInv, DeletedInv, Controller
  PROVE  \A s \in Nodes : inbox'[s] = << >> => \A f \in Frames : ~Contains(inbox[s], f)
<1>0. /\ StateTypes /\ ControlTypes /\ Encoder \in Encoders /\ Encoder \in Feeders
      /\ \A s \in Receivers : pc[s] = "none" => \A f \in Frames : ~Contains(inbox[s], f)
  BY EncoderOrderTypes, NodeKinds DEF FlowInv, ControlTypes, Encoder, EndingInv
<1> SUFFICES ASSUME NEW s \in Nodes, inbox'[s] = << >>
             PROVE  \A f \in Frames : ~Contains(inbox[s], f)
  OBVIOUS
<1>1. CASE inbox[s] = << >>
  BY <1>1 DEF Contains
<1>2. CASE DeleteEncoder /\ inbox'[s] # inbox[s]
  <2>1. /\ cpc = "stopSinks" /\ ctl.left = {}
        /\ s \in {Encoder} \cup (attached[Encoder] \ Recorders)
    BY <1>2 DEF DeleteEncoder, Delete
  <2>2. Phase = "stopSinks" /\ ~Sending
    BY <2>1 DEF Phase, Sending
  <2>3. pc[s] = "none"
    BY <2>1, <2>2 DEF DeletedInv, Stopped
  <2>4. s \in Receivers
    BY <1>0, <2>1 DEF StateTypes, Receivers
  <2> QED BY <1>0, <2>3, <2>4
<1>3. CASE StopStreams /\ inbox'[s] # inbox[s]
  <2>1. cpc = "stopStreams" /\ ctl.left = {} /\ s \in Recorders
    BY <1>3 DEF StopStreams, Delete
  <2>2. Phase = "stopStreams" /\ ~Sending
    BY <2>1 DEF Phase, Sending
  <2>3. pc[s] = "none" /\ s \in Receivers
    BY <2>1, <2>2, NodesAssumption DEF DeletedInv, Stopped, Receivers
  <2> QED BY <1>0, <2>3
<1>4. CASE inbox'[s] = inbox[s]
  BY <1>1, <1>4
<1>5. CASE ControllerSend
  <2>1. inbox[s] \in Seq(Messagable) /\ ctl.msg \in Messagable
    BY <1>0 DEF StateTypes, ControlTypes, Messagable
  <2>2. inbox'[s] = IF s = ctl.node THEN Append(inbox[s], ctl.msg) ELSE inbox[s]
    BY <1>0, <1>5 DEF ControllerSend, StateTypes
  <2>3. Append(inbox[s], ctl.msg) # << >>
    BY <2>1
  <2> QED BY <1>4, <2>2, <2>3
<1>6. CASE ControllerPost \/ Join
  BY <1>4, <1>6 DEF ControllerPost, Join, queueVars
<1>7. CASE /\ Controller /\ ~ControllerSend /\ ~ControllerPost /\ ~Join
           /\ ~DeleteEncoder /\ ~StopStreams
  <2>1. UNCHANGED inbox
    <3>1. CASE \/ StartFlow \/ CreateEncoder \/ AddSink \/ AllSinksAdded \/ StartEncoder
               \/ StartSinks \/ AllSinksStarted \/ StartSources \/ RestartRecording
      BY <3>1 DEF StartFlow, CreateEncoder, AddSink, AllSinksAdded, StartEncoder, StartSinks,
                  AllSinksStarted, StartSources, RestartRecording, queueVars
    <3>2. CASE \/ StopFlow \/ StopSource \/ AllSourcesStopped \/ RemoveEncoder
               \/ StopSinks \/ LockSinksOf
      BY <3>2 DEF StopFlow, StopSource, AllSourcesStopped, RemoveEncoder, StopSinks,
                  LockSinksOf, queueVars
    <3> QED BY <1>7, <3>1, <3>2 DEF Controller, Starting, Stopping, Messages
  <2> QED BY <1>4, <2>1
<1> QED BY <1>2, <1>3, <1>4, <1>5, <1>6, <1>7

LEMMA ControllerKeepsLeakInv ==
  ASSUME FlowInv, MutexInv, LeakInv, Quiet,
         \A s \in Nodes : pc'[s] = pc[s] \/ (pc[s] \in {"none", "exited"} /\ pc'[s] \in Threads),
         \A s \in Nodes : inbox'[s] = << >> => \A f \in Frames : ~Contains(inbox[s], f)
  PROVE  LeakInv'
<1>0. /\ StateTypes /\ UNCHANGED <<refs, item, out, todo, kept>>
      /\ \A s \in Nodes : \/ inbox'[s] = inbox[s] \/ inbox'[s] = << >>
                          \/ \E m \in Commands : inbox'[s] = Append(inbox[s], m)
  BY DEF FlowInv, Quiet
<1>1. HandledInv'
  <2>1. \A s \in Nodes : pc[s] \in Handling => pc'[s] = pc[s]
    BY DEF Handling
  <2>2. \A s \in Feeders : Forwarding(s) => pc'[s] = pc[s]
    BY NodeKinds DEF Forwarding
  <2> QED BY <1>0, <2>1, <2>2 DEF LeakInv, HandledInv, Forwarding
<1>2. \A s \in Nodes, f \in Frames : Contains(inbox'[s], f) <=> Contains(inbox[s], f)
  <2> SUFFICES ASSUME NEW s \in Nodes, NEW f \in Frames
               PROVE  Contains(inbox'[s], f) <=> Contains(inbox[s], f)
    OBVIOUS
  <2>1. CASE inbox'[s] = << >>
    BY <2>1 DEF Contains
  <2>2. ASSUME NEW m \in Commands, inbox'[s] = Append(inbox[s], m)
        PROVE  Contains(inbox'[s], f) <=> Contains(inbox[s], f)
    <3>1. m \in Messagable /\ f # m /\ inbox[s] \in Seq(Messagable)
      BY <1>0, FramesAssumption DEF Messagable, StateTypes
    <3> QED BY <2>2, <3>1, AppendToQueue
  <2> QED BY <1>0, <2>1, <2>2
<1>3. GivenOnce'
  <2>1. \A m \in Feeders : pc'[m] = "lock" => pc[m] = "lock"
    BY NodeKinds DEF Threads
  <2> QED BY <1>0, <1>2, <2>1, GivenOnceStays, NodeKinds DEF LeakInv
<1>4. NoFrameLeaks'
  BY <1>0, <1>2, HoldersStay DEF LeakInv
<1> QED BY <1>1, <1>3, <1>4 DEF LeakInv


LEMMA ControllerMoves ==
  ASSUME StateTypes, Controller
  PROVE  \A s \in Nodes :
           pc'[s] = pc[s] \/ (pc[s] \in {"none", "exited"} /\ pc'[s] \in Threads)
<1> USE DEF Threads
<1>1. CASE ControllerSend \/ ControllerPost
  BY <1>1 DEF ControllerSend, ControllerPost
<1>2. CASE Join
  BY <1>2 DEF Join, StateTypes
<1>3. CASE ~ControllerSend /\ ~ControllerPost /\ ~Join
  BY <1>3, QuietController DEF QuietEffect
<1> QED BY <1>1, <1>2, <1>3

LEMMA NextLeakInv ==
  ASSUME FlowInv, StopInv, EndingInv, DeletedInv, LeakInv, [Next]_vars
  PROVE  LeakInv'
<1>0. StateTypes /\ MutexInv
  BY DEF FlowInv, StopInv
<1>1. ASSUME NEW n \in Feeders, Forward(n) PROVE LeakInv'
  BY <1>0, <1>1, LockSinksLeak, EnqueueFrameLeak, PostFrameLeak, FinishForwardLeak DEF Forward
<1>2. ASSUME NEW n \in Sources, SourceThread(n) PROVE LeakInv'
  BY <1>0, <1>1, <1>2, PollLeak, MakerLeak, NodeKinds DEF SourceThread
<1>3. ASSUME NEW n \in Encoders, EncoderThread(n) PROVE LeakInv'
  <2>1. n \in Feeders /\ n \in Receivers
    BY DEF Feeders, Receivers
  <2> QED BY <1>0, <1>1, <1>3, <2>1, ReceiveLeak, MakerLeak, ReleaseItemLeak, DrainLeak
          DEF EncoderThread
<1>4. ASSUME NEW n \in Sinks, SinkThread(n) PROVE LeakInv'
  <2>1. n \in Receivers
    BY DEF Receivers
  <2> QED BY <1>0, <1>4, <2>1, ReceiveLeak, ConsumeLeak, StopSinkLeak, DrainLeak
          DEF SinkThread
<1>5. CASE Controller
  <2>1. Quiet
    BY <1>5, StartingStep, StoppingStep, MessagesStep DEF Controller
  <2> QED BY <1>0, <1>5, <2>1, ControllerMoves, DeletedQueuesAreEmpty, ControllerKeepsLeakInv
<1>6. CASE UNCHANGED vars
  <2>1. UNCHANGED <<refs, item, out, todo, kept, inbox, pc>>
    BY <1>6 DEF vars, frameVars, feedVars, queueVars, nodeVars
  <2>2. HandledInv'
    BY <2>1 DEF LeakInv, HandledInv, Forwarding
  <2>3. GivenOnce'
    BY <2>1 DEF LeakInv, GivenOnce
  <2>4. NoFrameLeaks'
    BY <2>1, HoldersStay DEF LeakInv
  <2> QED BY <2>2, <2>3, <2>4 DEF LeakInv
<1> QED BY <1>2, <1>3, <1>4, <1>5, <1>6 DEF Next

LEMMA NextDeletedInv ==
  ASSUME FlowInv, StopInv, DeletedInv, [Next]_vars
  PROVE  DeletedInv'
<1>0. StateTypes
  BY DEF FlowInv
<1>1. CASE \/ \E n \in Sources : SourceThread(n)
           \/ \E n \in Encoders : EncoderThread(n)
           \/ \E n \in Sinks : SinkThread(n)
  BY <1>0, <1>1, AnyThreadEffect, ThreadKeepsDeletedInv
<1>2. CASE Controller
  BY <1>2, StartingPhase, NothingStops, StoppingKeepsDeletedInv, MessagesKeepDeletedInv
     DEF Controller, Messages
<1>3. CASE UNCHANGED vars
  <2>1. UNCHANGED <<attached, pc, cpc, ctl>>
    BY <1>3 DEF vars, feedVars, nodeVars, controlVars
  <2> QED BY <2>1 DEF DeletedInv, Stopped, Phase, Sending, Encoder
<1> QED BY <1>1, <1>2, <1>3 DEF Next

LEMMA InitLeakInv == Init => LeakInv /\ DeletedInv
<1> SUFFICES ASSUME Init PROVE LeakInv /\ DeletedInv
  OBVIOUS
<1>1. HandledInv
  BY NodeKinds DEF Init, HandledInv
<1>2. GivenOnce
  BY NodeKinds, FramesAssumption DEF Init, GivenOnce, Contains
<1>3. NoFrameLeaks
  <2> SUFFICES ASSUME NEW f \in Frames PROVE refs[f] <= Cardinality(Holders(f))
    BY DEF NoFrameLeaks
  <2>1. refs[f] = 0 /\ IsFiniteSet(Holders(f))
    BY HoldersNow DEF Init
  <2>2. Cardinality(Holders(f)) \in Nat
    BY <2>1, FS_CardinalityType
  <2> QED BY <2>1, <2>2
<1>4. DeletedInv
  BY DEF Init, DeletedInv, Phase, Sending
<1> QED BY <1>1, <1>2, <1>3, <1>4 DEF LeakInv

LEMMA LeakInvInductive ==
  FlowInv /\ StopInv /\ EndingInv /\ DeletedInv /\ LeakInv /\ [Next]_vars =>
    (DeletedInv /\ LeakInv)'
BY NextLeakInv, NextDeletedInv

(* CMediaFrame::RemoveReference, called by whoever has done with a frame: an *)
(* encoder, a recorder that writes the frame before, a transmitter that has  *)
(* sent its bundle, the loop that drains a queue, the stop of a sink.  None  *)
(* forgets one, and no queue is deleted with a frame in it: a frame that     *)
(* nobody holds any more is gone from memory.                                *)
THEOREM NoFrameIsLost ==
  ASSUME NoSinkIsShared
  PROVE  Spec => []NoFrameLeaks
<1>1. Init => FlowInv /\ StopInv /\ EndingInv /\ DeletedInv /\ LeakInv
  BY InitFlowInv, InitStopInv, InitEndingInv, InitLeakInv
<1>2. FlowInv /\ StopInv /\ EndingInv /\ DeletedInv /\ LeakInv /\ [Next]_vars =>
        (FlowInv /\ StopInv /\ EndingInv /\ DeletedInv /\ LeakInv)'
  BY NextFlowInv, StopInvInductive, EndingInvInductive, LeakInvInductive
<1>3. LeakInv => NoFrameLeaks
  BY DEF LeakInv
<1> QED BY <1>1, <1>2, <1>3, PTL DEF Spec
=============================================================================
