SPECIFICATION FairSpec
CONSTANTS
  a = a
  b = b
  w1 = w1
  w2 = w2
  Nil = Nil
  Names <- OneName
  Sizes <- OneSize
  Workers <- OneWorker
  UserOps = 3
  OpErrors = 1
  ConnLosses = 1
  WatchEOFs = 0
  Kills = 1
  PutErrors = 1
  Manners = "idle"
  Moves = 0
INVARIANTS VolumesMatch AvailableExists
PROPERTIES Recovers Converges
