SPECIFICATION FairSpec
CONSTANTS
  f1 = f1
  f2 = f2
  r1 = r1
  Files <- OneFile
  Remotes <- OneRemote
  Presenter = presenter
  Clients = {client}
  NoModel = NoModel
  SavesFail = FALSE
  MaxScans = 2
  MaxPlays = 1
INVARIANT TypeOK
PROPERTY BusComesBack
