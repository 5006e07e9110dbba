SPECIFICATION Spec
CONSTANTS
  vsource = vsource
  asource = asource
  vencoder = vencoder
  aencoder = aencoder
  recorder = recorder
  transmitter = transmitter
  None = None
  Sources = {vsource, asource}
  Encoders = {vencoder, aencoder}
  Sinks = {recorder, transmitter}
  CaptureSources = {vsource}
  AudioEncoders = {aencoder}
  Recorders = {recorder}
  AudioTransmitters = {transmitter}
  SourceOf <- SourceOfEach
  SinksOf <- SeparateSinks
  EncoderOrder <- VideoThenAudio
  Frames = {f1, f2, f3}
  MaxBundle = 2
  MaxStarts = 1
SYMMETRY AnyFrame
INVARIANTS TypeOK HeldFramesLive ForwardedFramesAreTaken
CHECK_DEADLOCK FALSE
