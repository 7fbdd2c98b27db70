SPECIFICATION FairSpec
CONSTANTS
  Pages = {p1, p2}
  Watchers = {p1}
  Commanders = {p2}
  NoSnapshot = NoSnapshot
  Domains = {"playback"}
  ProgressStep = 2
  MaxShown = 1
CHECK_DEADLOCK FALSE
PROPERTY PageCatchesUp
PROPERTY StopEnds
