SPECIFICATION Spec
CONSTANTS
  m1 = m1
  m2 = m2
  l1 = l1
  p1 = p1
  p2 = p2
  None = None
  Monitors <- MCMonitors
  Logins <- MCLogins
  Processes <- MCProcesses
  MaxAttempts = 1
  MaxPolls = 2
  Autostart = TRUE
  DebugTab = TRUE
SYMMETRY MCSymmetry
INVARIANT TypeOK
INVARIANT StatusIsAttended
INVARIANT LaunchedHasProcess
