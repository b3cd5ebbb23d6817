SPECIFICATION Spec
CONSTANTS
  a = a
  b = b
  w1 = w1
  w2 = w2
  Nil = Nil
  Names <- OneName
  Sizes <- OneSize
  Workers <- TwoWorkers
  UserOps = 3
  OpErrors = 0
  ConnLosses = 0
  WatchEOFs = 0
  Kills = 0
  PutErrors = 0
  Manners = "shows"
  Moves = 0
INVARIANT VolumesMatch
