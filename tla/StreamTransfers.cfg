SPECIFICATION FairSpec
CONSTANTS
  a = a
  p1 = p1
  p2 = p2
  g1 = g1
  Nil = Nil
  Blank = Blank
  Names <- OneName
  Puts <- TwoPuts
  Gets <- OneGet
  FileOf <- SameFile
  Size = 2
  Modes <- TwoModes
  Faults = 1
INVARIANTS TypeOK StreamsEnd
PROPERTIES OkSaved GrantedExists Served
