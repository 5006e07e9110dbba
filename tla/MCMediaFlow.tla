----------------------------- MODULE MCMediaFlow -----------------------------
(* Flows for TLC.  A flow with audio and video has a capture video source,   *)
(* an audio source and an encoder for each; either each encoder has a sink   *)
(* of its own, or one recorder records both, as for a stream with audio and  *)
(* video.  A flow with video only has one encoder that feeds a recorder and  *)
(* a transmitter.                                                            *)
EXTENDS MediaFlow, TLC

CONSTANTS vsource, asource, vencoder, aencoder, recorder, transmitter

VideoThenAudio == <<vencoder, aencoder>>
SourceOfEach == (vencoder :> vsource) @@ (aencoder :> asource)
SeparateSinks == (vencoder :> {recorder}) @@ (aencoder :> {transmitter})
SharedRecorder == (vencoder :> {recorder}) @@ (aencoder :> {recorder})

VideoOnly == <<vencoder>>
VideoSource == vencoder :> vsource
VideoSinks == vencoder :> {recorder, transmitter}

AnyFrame == Permutations(Frames)
=============================================================================
