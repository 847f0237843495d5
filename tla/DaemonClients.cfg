\* Daemons that fail at any step, an application that is closed or crashes, its panels, and two requests at a time.
SPECIFICATION EitherSpec
CONSTANTS
  Daemons = {d1, d2}
  NoOne = NoOne
  MaxRestarts = 3
  MaxDaemons = 2
  MaxAsked = 1
  MaxStatus = 2
  MaxSockets = 8
  Callers = {c1, c2}
  MaxCalls = 1
  MaxReports = 1
  Timeouts = {1, 2}
  Margin = 3
  Transit = 1
  MayReload = TRUE
  MayStall = TRUE
INVARIANTS
  ServingIsReachable
  NoneOutlives
  AnswersGoWhereShown
  PanelsMirrorOpen
  VerdictMatches
  GivenUpForCause
PROPERTIES
  ExitIsRepaired
  Reconnects
  DeathReleases
  ReportsComeFirst
\* The callers make a bounded number of calls.
CHECK_DEADLOCK FALSE
