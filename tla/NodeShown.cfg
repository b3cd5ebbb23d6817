SPECIFICATION FairSpec
CONSTANTS
  c1 = c1
  c2 = c2
  Nil = Nil
  Conns <- TwoConns
  UserEdits = 1
  HostChanges = 1
  QueryErrors = 1
  UpdateErrors = 1
INVARIANTS TypeOK RefsCounted
PROPERTIES IsLink EditsKept LossShown Current Reconnects
