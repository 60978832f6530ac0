SPECIFICATION AhubFairSpec
CONSTANTS
  NumChannels = 2
  None = None
  Calibrated <- MCCalibrated
  NoPending = NoPending
  Lists <- MCLists
PROPERTIES HostStatesStand AnswerTellsTheTruth PacketsGo
