SPECIFICATION FairSpec
CONSTANTS
  Version <- MCVersion
  Banner <- MCBanner
  MaxPlayers = 2
  Budget <- SidecarBudget
INVARIANTS
  TypeOK
  AnswersAreTimely
  InfoSeriesPresent
PROPERTIES
  StatusConverges
  ReportsPlayers
