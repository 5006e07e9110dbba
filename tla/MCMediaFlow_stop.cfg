SPECIFICATION Spec
CONSTANTS
  vsource = vsource
  asource = asource
  vencoder = vencoder
  aencoder = aencoder
  recorder = recorder
  transmitter = transmitter
  None = None
  Sources = {vsource}
  Encoders = {vencoder}
  Sinks = {recorder, transmitter}
  CaptureSources = {vsource}
  AudioEncoders = {}
  Recorders = {recorder}
  AudioTransmitters = {}
  SourceOf <- VideoSource
  SinksOf <- VideoSinks
  EncoderOrder <- VideoOnly
  Frames = {f1, f2}
  MaxBundle = 2
  MaxStarts = 2
INVARIANTS NoFrameLeaks SemaphoreOutlivesSenders
PROPERTY StopReturns
CHECK_DEADLOCK FALSE
