SPECIFICATION FairSpec
CONSTANTS
  MaxTrackId = 2
  Media <- MCMedia
  RemoteMedia <- MCRemote
  Governed <- MCGoverned
  Duration <- MCDuration
  Libraries <- TwoFiles
  SongLists <- NoLists
  Commands = {"start", "step", "pause", "resume"}
  AcceptRemaining = 1
  ConfirmAfter = 2
  PendingStep = 1
  ElapsedCap = 2
  MaxDelta = 1
  ClientLookups = 2
  MaxLookups = 4
PROPERTY FinishIsConsumed
PROPERTY LookupEndsTheWait
