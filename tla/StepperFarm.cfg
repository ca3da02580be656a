SPECIFICATION FairSpec
CONSTANTS
  Vertical <- MCVertical
  Maze <- TwoSeas
  Casks <- CaskRooms
  Lairs <- BossLair
  Mutant = Mutant
  Boss = Boss
  mutant = mutant
  lord = lord
  Words <- Vocabulary
  Keyword <- Guessed
  Answers <- Named
  NoMonster = NoMonster
  Ignored <- NoTargets
  Targets <- OnlyMutants
  Route <- NoRoute
  Config <- TargetsOnly
  MaySee <- Crowded
  Limit <- Farming
  Eager = FALSE
  Numbered = FALSE
INVARIANTS
  TypeOK
  RunAlwaysWaiting
  RestartOnlyAfterCompletion
PROPERTIES
  NoStepOutOfFight
  CompletesWhenFought
  RunEnds
CHECK_DEADLOCK FALSE
