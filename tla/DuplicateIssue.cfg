SPECIFICATION Spec
CONSTANTS
  chat = chat
  timer = timer
  Blockers <- MCBlockers
  Syncs = {s1}
  Audits = {audit}
  Attempts = 2
  MaxIssues = 3
  MaxStarts = 2
  MaxMishaps = 0
INVARIANTS
  OneIssuePerCapability
CHECK_DEADLOCK FALSE
