SPECIFICATION Spec
CONSTANTS
  a = a
  b = b
  w1 = w1
  w2 = w2
  Nil = Nil
  Names <- OneName
  Sizes <- TwoSizes
  Workers <- TwoWorkers
  UserOps = 3
  OpErrors = 1
  ConnLosses = 1
  WatchEOFs = 1
  Kills = 0
  PutErrors = 0
  Manners = "any"
  Moves = 1
SYMMETRY Symmetry
INVARIANTS TypeOK HeldVolumeSafe DeleteOnce ViewAgrees PoolHasConnection
PROPERTIES DaemonKeepsSpecs IsVolumes
