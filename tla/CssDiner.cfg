SPECIFICATION FairSpec
CONSTANTS
  LevelCount <- MCLevelCount
  Items <- MCItems
  WithClass <- MCWithClass
  Answer <- MCAnswer
  Rules <- MCRules
  MaxTimers = 4
INVARIANTS
  TypeOK
  ShownIsSaved
  SettledTableStrobes
  BlankOnlyPastTheEnd
  
  AnswerIsTheOrder
  TooltipsPair
PROPERTIES
  WonLevelIsLeft
  PersistenceWins
