SPECIFICATION FairSpec
CONSTANTS
  c1 = c1
  c2 = c2
  m1 = m1
  m2 = m2
  Nil = Nil
  Clients <- TwoClients
  Machines <- OneMachine
  MachineOf <- Together
  Hardware <- OneSpec
  UserOps = 0
  ConnLosses = 0
  Kills = 0
  ActiveErrors = 0
PROPERTIES QuitNoticed
CHECK_DEADLOCK FALSE
