SPECIFICATION FairSpec
CONSTANTS
  f1 = f1
  f2 = f2
  r1 = r1
  Files <- TwoFiles
  Remotes <- OneRemote
  Presenter = presenter
  Clients = {}
  NoModel = NoModel
  SavesFail = TRUE
  MaxScans = 3
  MaxPlays = 1
INVARIANT IdsAreUnique
INVARIANT ReadyIsTruthful
INVARIANT Survives
INVARIANT RemotesRejoin
INVARIANT StoredIdsHold
PROPERTY LoadingEnds
