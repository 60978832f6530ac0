CONSTANTS
  NumChannels = 2
  FilSlots = 2
  FilHalfwords = 2
  StaPages = 2
  StaSlotsPerPage = 2
  StaHalfwords = 2
  SeqMod = 14
  Infos = {i1, i2}
  NoInfo = NoInfo
  NoneLoaded = NoneLoaded
  FilWrites <- MCAllInfos
  StaWrites <- MCAllLoaded
  Erased = Erased
  Torn = Torn
  NoPending = NoPending
  MaxStaTears = 1
  recA = recA
  recB = recB
  recLong = recLong
SPECIFICATION MCSpec
INVARIANTS JobsAreSafe FilCachesMatchFlash
PROPERTIES FilamentDurable LoadedDurable RecordsAreSaved
