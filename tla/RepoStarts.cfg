SPECIFICATION FairSpec
CONSTANTS
  repo = repo
  shim = shim
  repos = repos
  files = files
  Daemons <- TwoDaemons
  Types <- TwoTypes
  Registers <- Registering
  Reads <- Reading2
  Repo = repo
  StartErrors = 1
  Kills = 1
  UserEdits = 1
  ConnLosses = 1
  LoadErrors = 1
  InfoErrors = 1
  SaveErrors = 1
INVARIANTS TypeOK Registered PoolOfConnection
PROPERTIES Starts LossShown Settles
