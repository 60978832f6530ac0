SPECIFICATION MCSpec
CONSTANTS
  NumChannels = 2
  None = None
  NoPending = NoPending
  Calibrated <- MCCalibrated
INVARIANTS OneChannelAtATime LogIsTrue ImagesAgree
PROPERTY NothingWaits
