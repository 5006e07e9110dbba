SPECIFICATION Spec
CONSTANTS
  vsource = vsource
  asource = asource
  vencoder = vencoder
  aencoder = aencoder
  recorder = recorder
  transmitter = transmitter
  None = None
  Sources = {vsource, asource}
  Encoders = {vencoder, aencoder}
  Sinks = {recorder}
  CaptureSources = {vsource}
  AudioEncoders = {aencoder}
  Recorders = {recorder}
  AudioTransmitters = {}
  SourceOf <- SourceOfEach
  SinksOf <- SharedRecorder
  EncoderOrder <- VideoThenAudio
  Frames = {f1, f2}
  MaxBundle = 2
  MaxStarts = 1
SYMMETRY AnyFrame
INVARIANT ForwardedFramesAreTaken
CHECK_DEADLOCK FALSE
