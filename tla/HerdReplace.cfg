SPECIFICATION FairSpec
CONSTANTS
  Cap = 2
  Keep = 1
  MaxCull = 1
  Price = 1
  DailyCost = 1
  Grades = {1, 2}
  FirstGrade = 2
  Slots = {1, 2}
  Days = {1, 2}
  MaxMishaps = 1
INVARIANTS
  TypeOK
  NeverForgotten
  ExposureWithinAllowance
PROPERTIES
  BuysFollowSlaughter
  SagaImplemented
  NothingSentInDoubt
  JobEnds
