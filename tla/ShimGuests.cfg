SPECIFICATION FairSpec
CONSTANTS
  c1 = c1
  c2 = c2
  m1 = m1
  m2 = m2
  Nil = Nil
  Clients <- TwoClients
  Machines <- TwoMachines
  MachineOf <- Apart
  Hardware <- AllSpecs
  UserOps = 1
  ConnLosses = 1
  Kills = 1
  ActiveErrors = 1
INVARIANTS TypeOK GuestKept ShownHardware
PROPERTIES ShimKeepsSpecs Isolated Stopped
CHECK_DEADLOCK FALSE
