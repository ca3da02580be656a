SPECIFICATION Spec
CONSTANTS
  Vertical <- MCVertical
  Maze <- OneSea
  Casks <- NoCasks
  Lairs <- OneLair
  Mutant = Mutant
  Boss = Boss
  mutant = mutant
  lord = lord
  Words <- Vocabulary
  Keyword <- Guessed
  Answers <- Named
  NoMonster = NoMonster
  Ignored <- NoTargets
  Targets <- NoTargets
  Route <- NoRoute
  Config <- AnyMob
  MaySee <- OnlyTheRoom
  Limit <- OneReset
  Eager = FALSE
  Numbered = FALSE
PROPERTIES
  DecidesOnPresentRoom
CHECK_DEADLOCK FALSE
