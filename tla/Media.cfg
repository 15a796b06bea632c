CONSTANTS
  PlayBufLen = 11
  PktLen = 2
  Qmean = 1
  Lead = 0
  SilentInterval = 3
  MinAhead = 0
  MaxAhead = 1
  AudioTypes = {"file", "devaudio", "directsound"}
  cp_size_bytes = 4
  FileLens = {1, 3, 10}
  capbuflen = 20
  capture_offset = 6
  MaxLate = 4
  MaxTime = 60
  SampleStep = 11
  Dense = 1100
  MaxFrames = 4
  Rates = {8000, 11025, 16000}
  Sizes = {20, 30, 91, 92, 93}
  PitchLags = {10, 11, 35, 53, 59}
SPECIFICATION MCSpec
INVARIANTS
  TypeOK
  AudioKept
  KeepsUp
  SamplesInOrder
  G711Accurate
  FrameKept
  BlockDecoded
  CodebooksAgree
  ChannelsKept
  LengthsAgree
  DecoderInBounds
CHECK_DEADLOCK FALSE
