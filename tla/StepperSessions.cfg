SPECIFICATION Spec
CONSTANTS
  Vertical <- MCVertical
  Maze <- OneSea
  Casks <- NoCasks
  Lairs <- OneLair
  Mutant = Mutant
  Boss = Boss
  mutant = mutant
  lord = lord
  Words <- Vocabulary
  Keyword <- Guessed
  Answers <- Named
  NoMonster = NoMonster
  Ignored <- NoTargets
  Targets <- NoTargets
  Route <- SomeRoute
  Config <- DiveAtAny
  MaySee <- PlayersPass
  Limit <- Sessions
  Eager = FALSE
  Numbered = TRUE
INVARIANTS
  HeldMoveBelongs
PROPERTIES
  StepsOnlyWhenSettled
  DecidesOnPresentRoom
  ExhaustedMeansExplored
CHECK_DEADLOCK FALSE
