SPECIFICATION FairSpec
CONSTANTS
  Requests <- ChildRequests
  Legacy <- ChildLegacy
  MaxSecret = 1
  MaxPlayers = 1
  Budget <- ChildBudget
  MaxEvents = 3
CHECK_DEADLOCK FALSE
INVARIANTS
  TypeOK
  RestChildrenAgree
  OperatorIsAdmitted
  PortsStayApart
PROPERTIES
  AgreedIsQuiet
  ServerComesUp
