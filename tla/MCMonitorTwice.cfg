SPECIFICATION Spec
CONSTANTS
  m1 = m1
  m2 = m2
  l1 = l1
  p1 = p1
  p2 = p2
  None = None
  Monitors <- MCMonitors
  Logins <- MCLogins
  Processes <- MCProcess
  MaxAttempts = 1
  MaxPolls = 2
  Autostart = FALSE
  DebugTab = FALSE
INVARIANT OneMonitor
