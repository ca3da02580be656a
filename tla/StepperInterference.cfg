SPECIFICATION Spec
CONSTANTS
  Vertical <- MCVertical
  Maze <- AlikeSea
  Casks <- NoCasks
  Lairs <- OneLair
  Mutant = Mutant
  Boss = Boss
  mutant = mutant
  lord = lord
  Words <- Vocabulary
  Keyword <- Guessed
  Answers <- Named
  NoMonster = NoMonster
  Ignored <- NoTargets
  Targets <- NoTargets
  Route <- NoRoute
  Config <- AnyMob
  MaySee <- OnlyTheRoom
  Limit <- Interference
  Eager = FALSE
  Numbered = FALSE
INVARIANTS
  MapFaithful
  PositionKnown
PROPERTIES
  ImplementsSurvey
CHECK_DEADLOCK FALSE
