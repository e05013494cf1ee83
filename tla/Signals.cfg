SPECIFICATION FairSpec
CONSTANTS
  MaxPlayers = 1
  Budget <- SignalBudget
  MaxEvents = 3
CHECK_DEADLOCK FALSE
INVARIANTS
  TypeOK
  RestDrainsAllowed
  RestGaugesAgree
  SeriesFollowsPhase
  GaugesGoWithServer
PROPERTIES
  SignalsCatchUp
