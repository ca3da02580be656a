SPECIFICATION Spec
CONSTANTS
  Targets = {chat}
  Audits <- MCAudits
  Procs = {p1}
  Sources = 2
  Versions <- MCVersions
  Shape <- MCShape
  Trees <- MCTrees
  First <- MCFirst
  None = none
  MaxRevision = 2
  MaxCommands = 7
  MaxLong = 2
  MaxMoves = 2
INVARIANTS
  TypeOK
  PublishedAsSeen
  PublishedIsEvidenced
  SettledValidates
CHECK_DEADLOCK FALSE
