SPECIFICATION FairSpec
CONSTANTS
  chat = chat
  timer = timer
  Blockers <- MCBlockers
  Syncs = {s1, s2}
  Audits = {audit}
  Attempts = 2
  MaxIssues = 2
  MaxStarts = 2
  MaxMishaps = 2
INVARIANTS
  TypeOK
  OneIssueWhenQuiet
  SuccessLinksOwnIssues
  FailsForCause
PROPERTIES
  SyncsEnd
CHECK_DEADLOCK FALSE
