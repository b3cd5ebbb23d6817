SPECIFICATION Spec
CONSTANTS
  a = a
  b = b
  w1 = w1
  w2 = w2
  Nil = Nil
  Names <- OneName
  Sizes <- TwoSizes
  Workers <- OneWorker
  UserOps = 2
  OpErrors = 0
  ConnLosses = 0
  WatchEOFs = 0
  Kills = 0
  PutErrors = 0
  Manners = "idle"
  Moves = 0
INVARIANT SizesMatch
