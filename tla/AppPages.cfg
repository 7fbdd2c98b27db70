SPECIFICATION FairSpec
CONSTANTS
  Kinds = {jellyfin, webdav}
  Jellyfin = jellyfin
  NoSource = NoSource
  MaxDepth = 5
  MaxLists = 3
  MaxSources = 2
  MaxScans = 1
  MaxCommands = 1
INVARIANT EditorKnowsItsSource
INVARIANT MemoryCoversTheFile
INVARIANT IdsAreUnique
PROPERTY StartupEnds
